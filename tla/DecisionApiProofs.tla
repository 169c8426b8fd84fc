-------------------------- MODULE DecisionApiProofs --------------------------
(***************************************************************************)
(* Proofs about DecisionApi, for any number of invocations, messages,      *)
(* nonces and request ids and any values of the timing parameters.         *)
(***************************************************************************)
EXTENDS DecisionApi, TLAPS

-----------------------------------------------------------------------------
(* What the helpers of the handlers return. *)

\* A message's parts are of their kinds, and it is never mistaken for "no value".
LEMMA MessageParts ==
    ASSUME NEW m \in Messages
    PROVE  /\ m.body \in Bodies /\ m.bodyTs \in Int /\ m.ts \in Int /\ m.nonce \in Nonces
           /\ m.body.request \in RequestIds
           /\ BodyHash(m) \in Bodies \X Int
           /\ m # None
  BY SignedRequestAssumption, DecisionApiAssumption DEF Message, BodyHash

\* What an invocation computes for the record is an item of the table.
LEMMA ItemOfCall ==
    ASSUME NEW c \in Calls, TypeOK, calls[c].pc # "idle"
    PROVE  /\ RequestId(c) \in RequestIds
           /\ HashOf(c) \in Bodies \X Int
           /\ [hash |-> HashOf(c), response |-> ResponseOf(c)] \in Item
           /\ [hash |-> HashOf(c), response |-> ResponseOf(c)] # None
  <1>1. calls[c].msg \in Messages
    BY DEF TypeOK
  <1>2. RequestId(c) \in RequestIds /\ HashOf(c) \in Bodies \X Int
    BY <1>1, MessageParts DEF RequestId, HashOf
  <1>3. work[c] \in Work
    BY DEF TypeOK
  <1>4. ResponseOf(c) \in Response
    BY <1>2, <1>3 DEF ResponseOf, FinalDecision, Response, Work
  <1> QED
    BY <1>2, <1>4, NoneIsNoItem DEF Item

\* TypeOK's conjuncts about the invocations alone.
CallsOK(cs) ==
    /\ cs \in [Calls -> [pc: Steps, msg: Messages \cup {None}, started: Nat, now: Nat,
                         claimed: BOOLEAN]]
    /\ \A c \in Calls : cs[c].pc # "idle" => cs[c].msg \in Messages

\* An invocation that goes on to another step keeps its message.
LEMMA GotoType ==
    ASSUME NEW c \in Calls, NEW step \in Steps, TypeOK, calls[c].pc # "idle",
           Goto(c, step)
    PROVE  CallsOK(calls')
  BY DEF Goto, TypeOK, CallsOK

\* An invocation that ends leaves an answer of the given kind.
LEMMA FinishType ==
    ASSUME NEW c \in Calls, NEW reply \in Reply, TypeOK, calls[c].pc # "idle",
           Finish(c, reply)
    PROVE  CallsOK(calls') /\ replies' \in [Calls -> Reply \cup {None}]
  BY DEF Finish, TypeOK, CallsOK, Steps, AuthSteps

\* So does one that ends with an error.
LEMMA RefuseType ==
    ASSUME NEW c \in Calls, NEW code \in Errors, TypeOK, calls[c].pc # "idle",
           Refuse(c, code)
    PROVE  CallsOK(calls') /\ replies' \in [Calls -> Reply \cup {None}]
  BY FinishType DEF Refuse, Reply

\* So does one that tells what is on record.
LEMMA TellStoredType ==
    ASSUME NEW c \in Calls, TypeOK, calls[c].pc # "idle", TellStored(c)
    PROVE  CallsOK(calls') /\ replies' \in [Calls -> Reply \cup {None}]
  <1> DEFINE item == decisions[RequestId(c)]
  <1>1. CASE item # None /\ item.hash = HashOf(c)
    <2>1. RequestId(c) \in RequestIds
      BY ItemOfCall
    <2>2. [status |-> "OK", item |-> item] \in Reply
      BY <1>1, <2>1 DEF TypeOK, Reply
    <2> QED
      BY <1>1, <2>2, FinishType DEF TellStored
  <1>2. CASE ~(item # None /\ item.hash = HashOf(c))
    <2>1. "CONFLICT" \in Errors
      BY DEF Errors
    <2> QED
      BY <1>2, <2>1, RefuseType DEF TellStored
  <1> QED
    BY <1>1, <1>2

-----------------------------------------------------------------------------
(* Types *)

LEMMA InitType == Init => TypeOK
  BY SignedRequestAssumption
  DEF Init, SignedInit, TypeOK, Steps, AuthSteps, Work, MlStatuses, LlmStatuses

\* The steps before the handler's own work touch only the nonces, calls and replies.
LEMMA AuthStepType ==
    ASSUME NEW c \in Calls, TypeOK, AuthStep(c)
    PROVE  /\ CallsOK(calls') /\ replies' \in [Calls -> Reply \cup {None}]
           /\ nonces' \in [Nonces -> Int \cup {None}]
           /\ clock' = clock
  <1> USE DEF TypeOK, CallsOK
  <1>1. CASE CheckWindow(c)
    <2>1. "TIMESTAMP_EXPIRED" \in Errors /\ calls[c].pc # "idle"
      BY <1>1 DEF CheckWindow, At, Errors
    <2>2. CASE Refuse(c, "TIMESTAMP_EXPIRED")
      BY <1>1, <2>1, <2>2, RefuseType DEF CheckWindow
    <2>3. CASE calls' = [calls EXCEPT ![c].pc = "signature", ![c].now = clock]
               /\ UNCHANGED replies
      <3>1. "signature" \in Steps
        BY DEF Steps, AuthSteps
      <3>2. CallsOK(calls')
        BY <2>1, <2>3, <3>1, ZenonT(30)
      <3> QED
        BY <1>1, <2>3, <3>2 DEF CheckWindow
    <2> QED
      BY <1>1, <2>2, <2>3 DEF CheckWindow
  <1>2. CASE Authenticate(c)
    <2>1. "AUTHENTICATION_FAILED" \in Errors /\ calls[c].pc # "idle" /\ "claim" \in Steps
      BY <1>2 DEF Authenticate, At, Errors, Steps, AuthSteps
    <2> QED
      BY <1>2, <2>1, RefuseType, GotoType DEF Authenticate
  <1>3. CASE ClaimNonce(c)
    <2> DEFINE n == calls[c].msg.nonce
               Write == nonces' = [nonces EXCEPT ![n] = NonceExpiry(calls[c].now)]
    <2>1. calls[c].pc # "idle" /\ UNCHANGED clock
      BY <1>3 DEF ClaimNonce, At
    <2>2. "REPLAY_DETECTED" \in Errors /\ "INTERNAL_ERROR" \in Errors
      BY DEF Errors
    <2>3. Write => nonces' \in [Nonces -> Int \cup {None}]
      <3>1. n \in Nonces
        BY <2>1, MessageParts
      <3>2. NonceExpiry(calls[c].now) \in Int
        BY SignedRequestAssumption DEF NonceExpiry
      <3> QED
        BY <3>1, <3>2
    <2>4. CASE /\ Write
               /\ calls' = [calls EXCEPT ![c].pc = "handle", ![c].claimed = TRUE]
               /\ UNCHANGED replies
      <3>1. "handle" \in Steps
        BY DEF Steps
      <3> DEFINE claimed == [calls[c] EXCEPT !.pc = "handle", !.claimed = TRUE]
      <3>2. /\ claimed.msg \in Messages
            /\ claimed \in [pc: Steps, msg: Messages \cup {None}, started: Nat, now: Nat,
                            claimed: BOOLEAN]
        BY <2>1, <3>1
      <3>3. calls' = [calls EXCEPT ![c] = claimed]
        BY <2>4
      <3> HIDE DEF claimed
      <3>4. CallsOK(calls')
        BY <3>2, <3>3
      <3> QED
        BY <2>1, <2>3, <2>4, <3>4
    <2>5. CASE Write /\ \E code \in {"REPLAY_DETECTED", "INTERNAL_ERROR"} : Refuse(c, code)
      BY <2>1, <2>2, <2>3, <2>5, RefuseType
    <2>6. CASE UNCHANGED nonces
               /\ (Refuse(c, "REPLAY_DETECTED") \/ Refuse(c, "INTERNAL_ERROR"))
      BY <2>1, <2>2, <2>6, RefuseType
    <2> QED
      BY <1>3, <2>4, <2>5, <2>6 DEF ClaimNonce
  <1>4. CASE RefuseTimestamp(c)
    <2>1. "SIGNED_TIMESTAMP_MISMATCH" \in Errors /\ calls[c].pc # "idle"
      BY <1>4 DEF RefuseTimestamp, At, Errors
    <2> QED
      BY <1>4, <2>1, RefuseType DEF RefuseTimestamp
  <1>5. CASE Kill(c)
    <2>1. "done" \in Steps
      BY DEF Steps, AuthSteps
    <2> QED
      BY <1>5, <2>1, GotoType DEF Kill
  <1> QED
    BY <1>1, <1>2, <1>3, <1>4, <1>5 DEF AuthStep

\* decide() touches the calls, the replies, the decisions and its own variables.
LEMMA DecideStepType ==
    ASSUME NEW c \in Calls, TypeOK, DecideStep(c)
    PROVE  /\ CallsOK(calls') /\ replies' \in [Calls -> Reply \cup {None}]
           /\ decisions' \in [RequestIds -> Item \cup {None}]
           /\ work' \in [Calls -> Work]
           /\ UNCHANGED <<clock, nonces>>
  <1> USE DEF TypeOK
  <1> DEFINE r == RequestId(c)
             item == [hash |-> HashOf(c), response |-> ResponseOf(c)]
  <1>1. calls[c].pc # "idle"
    BY DEF DecideStep, Lookup, Predict, CallLlm, LlmReturns, Save, Reread, At
  <1>2. CallsOK(calls)
    BY DEF CallsOK
  <1>3. {"ml", "key", "llm", "save", "reread"} \subseteq Steps /\ "INTERNAL_ERROR" \in Errors
    BY DEF Steps, Errors
  <1>4. CASE Lookup(c)
    <2>1. CASE TellStored(c) /\ UNCHANGED work
      BY <1>1, <1>4, <2>1, TellStoredType DEF Lookup
    <2>2. CASE Goto(c, "ml") /\ work' = [work EXCEPT ![c].created = clock] /\ UNCHANGED replies
      BY <1>1, <1>3, <1>4, <2>2, GotoType, SMTT(30) DEF Lookup, Work
    <2>3. CASE Refuse(c, "INTERNAL_ERROR") /\ UNCHANGED work
      BY <1>1, <1>3, <1>4, <2>3, RefuseType DEF Lookup
    <2> QED
      BY <1>4, <2>1, <2>2, <2>3 DEF Lookup
  <1>5. CASE Predict(c)
    <2>1. CallsOK(calls')
      BY <1>1, <1>3, <1>5, GotoType DEF Predict
    <2>2. work' \in [Calls -> Work]
      BY <1>5, SMTT(30) DEF Predict, Work, MlStatuses, LlmStatuses
    <2> QED
      BY <1>5, <2>1, <2>2 DEF Predict
  <1>6. CASE CallLlm(c)
    <2>1. CallsOK(calls')
      BY <1>1, <1>3, <1>6, GotoType DEF CallLlm
    <2>2. work' \in [Calls -> Work]
      <3>1. CASE work' = [work EXCEPT ![c].called = clock]
        BY <3>1 DEF Work
      <3>2. CASE work' = [work EXCEPT ![c].llm = "ERROR"]
        BY <3>2 DEF Work, LlmStatuses
      <3> QED
        BY <1>6, <3>1, <3>2 DEF CallLlm
    <2> QED
      BY <1>6, <2>1, <2>2 DEF CallLlm
  <1>7. CASE LlmReturns(c)
    <2>1. CallsOK(calls')
      BY <1>1, <1>3, <1>7, GotoType DEF LlmReturns
    <2>2. work' \in [Calls -> Work]
      <3>1. PICK verdict \in {"ALLOW", "VETO", "ERROR"} :
               work' = [work EXCEPT ![c].llm = verdict, ![c].ended = clock]
        BY <1>7 DEF LlmReturns
      <3> QED
        BY <3>1, ZenonT(30) DEF Work, LlmStatuses
    <2> QED
      BY <1>7, <2>1, <2>2 DEF LlmReturns
  <1>8. CASE Save(c)
    <2>1. r \in RequestIds /\ item \in Item
      BY <1>1, ItemOfCall
    <2>2. [status |-> "OK", item |-> item] \in Reply
      BY <2>1 DEF Reply
    <2>3. decisions' \in [RequestIds -> Item \cup {None}]
      BY <1>8, <2>1 DEF Save
    <2>4. CallsOK(calls') /\ replies' \in [Calls -> Reply \cup {None}]
      <3>1. CASE Finish(c, [status |-> "OK", item |-> item])
        BY <1>1, <2>2, <3>1, FinishType
      <3>2. CASE Goto(c, "reread") /\ UNCHANGED replies
        BY <1>1, <1>3, <3>2, GotoType
      <3>3. CASE Refuse(c, "INTERNAL_ERROR")
        BY <1>1, <1>3, <3>3, RefuseType
      <3> QED
        BY <1>8, <3>1, <3>2, <3>3 DEF Save
    <2> QED
      BY <1>8, <2>3, <2>4 DEF Save
  <1>9. CASE Reread(c)
    BY <1>1, <1>3, <1>9, TellStoredType, RefuseType DEF Reread
  <1> QED
    BY <1>4, <1>5, <1>6, <1>7, <1>8, <1>9 DEF DecideStep

LEMMA StepType == TypeOK /\ [Next]_vars => TypeOK'
  <1> SUFFICES ASSUME TypeOK, [Next]_vars
               PROVE  TypeOK'
    OBVIOUS
  <1>1. ASSUME NEW c \in Calls, NEW m \in Messages,
               Receive(c, m), UNCHANGED <<decisions, work>>
        PROVE  TypeOK'
    <2>1. m # None
      BY MessageParts
    <2>2. CASE m.wellFormed
      BY <1>1, <2>2 DEF Receive, TypeOK, Steps, AuthSteps
    <2>3. CASE ~m.wellFormed
      <3>1. [status |-> "BAD_REQUEST"] \in Reply
        BY DEF Reply, Errors
      <3> QED
        BY <1>1, <2>3, <3>1, SMTT(90) DEF Receive, TypeOK, Steps, AuthSteps
    <2> QED
      BY <2>2, <2>3
  <1>2. ASSUME NEW c \in Calls, AuthStep(c), UNCHANGED <<decisions, work>>
        PROVE  TypeOK'
    BY <1>2, AuthStepType DEF TypeOK, CallsOK
  <1>3. ASSUME NEW c \in Calls, DecideStep(c)
        PROVE  TypeOK'
    BY <1>3, DecideStepType DEF TypeOK, CallsOK
  <1>4. ASSUME NEW n \in Nonces, ExpireNonce(n), UNCHANGED <<decisions, work>>
        PROVE  TypeOK'
    BY <1>4 DEF ExpireNonce, TypeOK
  <1>5. CASE Tick
    BY <1>5 DEF Tick, TypeOK
  <1>6. CASE UNCHANGED vars
    BY <1>6 DEF vars, authVars, TypeOK
  <1> QED
    BY <1>1, <1>2, <1>3, <1>4, <1>5, <1>6 DEF Next, ServerStep

\* In every reachable state every variable holds a value of its kind.
THEOREM TypeCorrect == Spec => []TypeOK
  BY InitType, StepType, PTL DEF Spec

-----------------------------------------------------------------------------
(* How an invocation moves on: it keeps its request, and leaves the others alone. *)

SameRequest(c) ==
    /\ calls'[c].msg = calls[c].msg /\ calls'[c].claimed = calls[c].claimed
    /\ calls'[c].now = calls[c].now /\ calls'[c].started = calls[c].started

\* An invocation goes on to another step.
LEMMA GotoFrame ==
    ASSUME NEW c \in Calls, NEW step, TypeOK, Goto(c, step)
    PROVE  /\ \A d \in Calls \ {c} : calls'[d] = calls[d]
           /\ SameRequest(c) /\ calls'[c].pc = step
  BY DEF Goto, TypeOK, SameRequest

\* An invocation ends with an answer.
LEMMA FinishFrame ==
    ASSUME NEW c \in Calls, NEW reply, TypeOK, Finish(c, reply)
    PROVE  /\ \A d \in Calls \ {c} : calls'[d] = calls[d]
           /\ SameRequest(c) /\ calls'[c].pc = "done"
  BY DEF Finish, TypeOK, SameRequest

\* An invocation ends with an error.
LEMMA RefuseFrame ==
    ASSUME NEW c \in Calls, NEW code, TypeOK, Refuse(c, code)
    PROVE  /\ \A d \in Calls \ {c} : calls'[d] = calls[d]
           /\ SameRequest(c) /\ calls'[c].pc = "done"
  BY FinishFrame DEF Refuse

\* An invocation ends with what is on record, or with a conflict.
LEMMA TellStoredFrame ==
    ASSUME NEW c \in Calls, TypeOK, TellStored(c)
    PROVE  /\ \A d \in Calls \ {c} : calls'[d] = calls[d]
           /\ SameRequest(c) /\ calls'[c].pc = "done"
  BY FinishFrame, RefuseFrame DEF TellStored

-----------------------------------------------------------------------------
(* Nonces *)

\* Nothing but the step of c changes, and that to a later one than the claim.
MovedOn(c) ==
    \A d \in Calls :
        /\ calls'[d].msg = calls[d].msg
        /\ calls'[d].now = calls[d].now
        /\ calls'[d].claimed = calls[d].claimed
        /\ d # c => calls'[d].pc = calls[d].pc
        /\ d = c => calls'[d].pc \notin {"idle", "window", "signature", "claim"}

LEMMA GotoMovesOn ==
    ASSUME NEW c \in Calls, NEW step, TypeOK, Goto(c, step),
           step \notin {"idle", "window", "signature", "claim"}
    PROVE  MovedOn(c)
  BY DEF Goto, TypeOK, MovedOn

LEMMA FinishMovesOn ==
    ASSUME NEW c \in Calls, NEW reply, TypeOK, Finish(c, reply)
    PROVE  MovedOn(c)
  BY DEF Finish, TypeOK, MovedOn

LEMMA RefuseMovesOn ==
    ASSUME NEW c \in Calls, NEW code, TypeOK, Refuse(c, code)
    PROVE  MovedOn(c)
  BY FinishMovesOn DEF Refuse

LEMMA DecideMovesOn ==
    ASSUME NEW c \in Calls, TypeOK, DecideStep(c)
    PROVE  MovedOn(c) /\ UNCHANGED <<clock, nonces>>
  <1>1. TellStored(c) => MovedOn(c)
    BY FinishMovesOn, RefuseMovesOn DEF TellStored
  <1>2. CASE Lookup(c)
    BY <1>1, <1>2, GotoMovesOn, RefuseMovesOn DEF Lookup
  <1>3. CASE Predict(c)
    BY <1>3, GotoMovesOn DEF Predict
  <1>4. CASE CallLlm(c)
    BY <1>4, GotoMovesOn DEF CallLlm
  <1>5. CASE LlmReturns(c)
    BY <1>5, GotoMovesOn DEF LlmReturns
  <1>6. CASE Save(c)
    BY <1>6, GotoMovesOn, FinishMovesOn, RefuseMovesOn DEF Save
  <1>7. CASE Reread(c)
    BY <1>1, <1>7, RefuseMovesOn DEF Reread
  <1> QED
    BY <1>2, <1>3, <1>4, <1>5, <1>6, <1>7 DEF DecideStep

(***************************************************************************)
(* Past the timestamp check, a message is not further ahead of the instant *)
(* that its invocation read than the allowed skew.  Its nonce's item, made *)
(* to live for twice the skew from that instant, therefore covers its      *)
(* whole window; and once DynamoDB may remove the item, the window is over.*)
(***************************************************************************)
Stamped(c) ==
    calls[c].pc \in {"signature", "claim"} \/ calls[c].claimed =>
        /\ calls[c].pc # "idle"
        /\ calls[c].msg.ts <= calls[c].now + MaxClockSkew

Covered(c) ==
    calls[c].claimed =>
        LET n == calls[c].msg.nonce
            last == calls[c].msg.ts + MaxClockSkew
        IN  \/ nonces[n] # None /\ nonces[n] >= last
            \/ clock > last

NonceInv == \A c \in Calls : Stamped(c) /\ Covered(c)

\* A step after the claim, and one that ends an invocation, keep the invariant.
LEMMA MovedOnNonceInv ==
    ASSUME NEW c \in Calls, NonceInv, MovedOn(c), UNCHANGED <<clock, nonces>>
    PROVE  NonceInv'
  BY DEF NonceInv, Stamped, Covered, MovedOn

LEMMA AuthNonceInv ==
    ASSUME NEW c \in Calls, TypeOK, NonceInv, AuthStep(c)
    PROVE  NonceInv'
  <1>1. calls[c].pc # "idle" /\ calls[c].msg \in Messages
    BY DEF AuthStep, CheckWindow, Authenticate, ClaimNonce, RefuseTimestamp, Kill, At, TypeOK
  <1>2. /\ calls[c].msg.ts \in Int /\ calls[c].msg.nonce \in Nonces
        /\ clock \in Nat /\ MaxClockSkew \in Nat /\ calls[c].now \in Nat
    BY <1>1, MessageParts, SignedRequestAssumption DEF TypeOK
  <1>3. CASE CheckWindow(c)
    <2>1. CASE Refuse(c, "TIMESTAMP_EXPIRED")
      BY <1>3, <2>1, RefuseMovesOn, MovedOnNonceInv DEF CheckWindow
    <2>2. CASE /\ InWindow(clock, calls[c].msg.ts)
               /\ calls' = [calls EXCEPT ![c].pc = "signature", ![c].now = clock]
      <3>1. UNCHANGED <<clock, nonces>> /\ calls[c].msg.ts <= clock + MaxClockSkew
        BY <1>2, <1>3, <2>2 DEF CheckWindow, InWindow
      <3>2. \A d \in Calls : d # c => calls'[d] = calls[d]
        BY <2>2 DEF TypeOK
      <3>3. /\ calls'[c].msg = calls[c].msg /\ calls'[c].now = clock
            /\ calls'[c].pc = "signature" /\ calls'[c].claimed = calls[c].claimed
        BY <2>2 DEF TypeOK
      <3> QED
        BY <3>1, <3>2, <3>3 DEF NonceInv, Stamped, Covered
    <2> QED
      BY <1>3, <2>1, <2>2 DEF CheckWindow
  <1>4. CASE Authenticate(c)
    <2>1. CASE Refuse(c, "AUTHENTICATION_FAILED")
      BY <1>4, <2>1, RefuseMovesOn, MovedOnNonceInv DEF Authenticate
    <2>2. CASE Goto(c, "claim")
      <3>1. UNCHANGED <<clock, nonces>> /\ calls[c].pc = "signature"
        BY <1>4 DEF Authenticate, At
      <3>2. \A d \in Calls : d # c => calls'[d] = calls[d]
        BY <2>2 DEF Goto, TypeOK
      <3>3. /\ calls'[c].msg = calls[c].msg /\ calls'[c].now = calls[c].now
            /\ calls'[c].pc = "claim" /\ calls'[c].claimed = calls[c].claimed
        BY <2>2 DEF Goto, TypeOK
      <3> QED
        BY <3>1, <3>2, <3>3 DEF NonceInv, Stamped, Covered
    <2> QED
      BY <1>4, <2>1, <2>2 DEF Authenticate
  <1>5. CASE ClaimNonce(c)
    <2> DEFINE n == calls[c].msg.nonce
               expiry == NonceExpiry(calls[c].now)
               Write == nonces' = [nonces EXCEPT ![n] = expiry]
    <2>1. calls[c].pc = "claim" /\ UNCHANGED clock
      BY <1>5 DEF ClaimNonce, At
    <2>2. CASE UNCHANGED nonces
               /\ (Refuse(c, "REPLAY_DETECTED") \/ Refuse(c, "INTERNAL_ERROR"))
      BY <2>1, <2>2, RefuseMovesOn, MovedOnNonceInv
    <2>3. ASSUME nonces[n] = None, Write,
                 \A d \in Calls : /\ d # c => calls'[d] = calls[d]
                                  /\ calls'[d].msg = calls[d].msg
                                  /\ calls'[d].now = calls[d].now,
                 calls'[c].pc # "idle"
          PROVE  NonceInv'
      <3>1. expiry \in Int /\ expiry # None /\ nonces'[n] = expiry
        <4>1. expiry \in Int /\ nonces'[n] = expiry
          BY <1>2, <2>3 DEF NonceExpiry, TypeOK
        <4> QED
          BY <4>1, SignedRequestAssumption
      <3>2. calls[c].msg.ts + MaxClockSkew <= expiry
        BY <1>2, <2>1 DEF NonceExpiry, NonceInv, Stamped
      <3>3. Stamped(c)' /\ Covered(c)'
        BY <2>1, <2>3, <3>1, <3>2 DEF NonceInv, Stamped, Covered
      <3>4. ASSUME NEW d \in Calls, d # c
            PROVE  Stamped(d)' /\ Covered(d)'
        <4>1. Stamped(d)'
          BY <2>3, <3>4 DEF NonceInv, Stamped
        <4>2. CASE calls[d].claimed /\ calls[d].msg.nonce = n
          <5>1. clock > calls[d].msg.ts + MaxClockSkew
            BY <2>3, <4>2 DEF NonceInv, Covered
          <5> QED
            BY <2>1, <2>3, <3>4, <4>1, <5>1 DEF Covered
        <4>3. CASE calls[d].claimed /\ calls[d].msg.nonce # n
          <5>1. nonces'[calls[d].msg.nonce] = nonces[calls[d].msg.nonce]
            <6>1. calls[d].msg \in Messages
              BY <4>3 DEF NonceInv, Stamped, TypeOK
            <6> QED
              BY <2>3, <4>3, <6>1, MessageParts DEF TypeOK
          <5> QED
            BY <2>1, <2>3, <3>4, <4>1, <5>1 DEF NonceInv, Covered
        <4>4. CASE ~calls[d].claimed
          BY <2>3, <3>4, <4>1, <4>4 DEF Covered
        <4> QED
          BY <4>1, <4>2, <4>3, <4>4
      <3> QED
        BY <3>3, <3>4 DEF NonceInv
    <2>4. CASE /\ nonces[n] = None
               /\ Write
               /\ calls' = [calls EXCEPT ![c].pc = "handle", ![c].claimed = TRUE]
      <3>1. \A d \in Calls : /\ d # c => calls'[d] = calls[d]
                             /\ calls'[d].msg = calls[d].msg
                             /\ calls'[d].now = calls[d].now
        BY <2>4 DEF TypeOK
      <3>2. calls'[c].pc # "idle"
        BY <2>4 DEF TypeOK
      <3> QED
        BY <2>3, <2>4, <3>1, <3>2
    <2>5. CASE /\ nonces[n] = None
               /\ Write
               /\ \E code \in {"REPLAY_DETECTED", "INTERNAL_ERROR"} : Refuse(c, code)
      <3>1. \A d \in Calls : /\ d # c => calls'[d] = calls[d]
                             /\ calls'[d].msg = calls[d].msg
                             /\ calls'[d].now = calls[d].now
        BY <2>5 DEF Refuse, Finish, TypeOK
      <3>2. calls'[c].pc # "idle"
        BY <2>5 DEF Refuse, Finish, TypeOK
      <3> QED
        BY <2>3, <2>5, <3>1, <3>2
    <2> QED
      BY <1>5, <2>2, <2>4, <2>5 DEF ClaimNonce
  <1>6. CASE RefuseTimestamp(c)
    BY <1>6, RefuseMovesOn, MovedOnNonceInv DEF RefuseTimestamp
  <1>7. CASE Kill(c)
    BY <1>7, GotoMovesOn, MovedOnNonceInv DEF Kill
  <1> QED
    BY <1>3, <1>4, <1>5, <1>6, <1>7 DEF AuthStep

LEMMA InitNonceInv == Init => NonceInv
  <1> SUFFICES ASSUME Init, NEW c \in Calls
               PROVE  Stamped(c) /\ Covered(c)
    BY DEF NonceInv
  <1>1. calls[c].pc = "idle" /\ calls[c].claimed = FALSE
    BY DEF Init, SignedInit
  <1> QED
    BY <1>1 DEF Stamped, Covered

LEMMA StepNonceInv == TypeOK /\ NonceInv /\ [Next]_vars => NonceInv'
  <1> SUFFICES ASSUME TypeOK, NonceInv, [Next]_vars
               PROVE  NonceInv'
    OBVIOUS
  <1>1. ASSUME NEW c \in Calls, NEW m \in Messages, Receive(c, m)
        PROVE  NonceInv'
    <2>1. UNCHANGED <<clock, nonces>> /\ calls[c].pc = "idle" /\ ~calls[c].claimed
      BY <1>1 DEF Receive, NonceInv, Stamped, TypeOK
    <2>2. \A d \in Calls : d # c => calls'[d] = calls[d]
      BY <1>1 DEF Receive, TypeOK
    <2>3. /\ calls'[c].pc \in {"window", "done"}
          /\ calls'[c].claimed = calls[c].claimed
      BY <1>1 DEF Receive, TypeOK
    <2> QED
      BY <2>1, <2>2, <2>3 DEF NonceInv, Stamped, Covered
  <1>2. ASSUME NEW c \in Calls, AuthStep(c)
        PROVE  NonceInv'
    BY <1>2, AuthNonceInv
  <1>3. ASSUME NEW c \in Calls, DecideStep(c)
        PROVE  NonceInv'
    BY <1>3, DecideMovesOn, MovedOnNonceInv
  <1>4. ASSUME NEW n \in Nonces, ExpireNonce(n)
        PROVE  NonceInv'
    <2>1. ASSUME NEW d \in Calls, calls[d].claimed
          PROVE  Covered(d)'
      <3>1. calls[d].msg \in Messages
        BY <2>1 DEF NonceInv, Stamped, TypeOK
      <3>2. CASE calls[d].msg.nonce # n
        BY <1>4, <2>1, <3>2 DEF ExpireNonce, NonceInv, Covered, TypeOK
      <3>3. CASE calls[d].msg.nonce = n
        <4>1. clock > calls[d].msg.ts + MaxClockSkew
          <5>1. /\ clock \in Int /\ nonces[n] \in Int /\ clock > nonces[n]
                /\ calls[d].msg.ts + MaxClockSkew \in Int
            BY <1>4, <3>1, MessageParts, SignedRequestAssumption DEF ExpireNonce, TypeOK
          <5>2. nonces[n] >= calls[d].msg.ts + MaxClockSkew \/ clock > calls[d].msg.ts + MaxClockSkew
            BY <2>1, <3>3 DEF NonceInv, Covered
          <5> QED
            BY <5>1, <5>2
        <4> QED
          BY <1>4, <4>1 DEF ExpireNonce, Covered
      <3> QED
        BY <3>2, <3>3
    <2> QED
      BY <1>4, <2>1 DEF ExpireNonce, NonceInv, Stamped, Covered
  <1>5. CASE Tick
    <2>1. ASSUME NEW d \in Calls, calls[d].claimed
          PROVE  Covered(d)'
      <3>1. calls[d].msg \in Messages
        BY <2>1 DEF NonceInv, Stamped, TypeOK
      <3>2. clock \in Int /\ calls[d].msg.ts + MaxClockSkew \in Int
        BY <3>1, MessageParts, SignedRequestAssumption DEF TypeOK
      <3> QED
        BY <1>5, <2>1, <3>2 DEF Tick, NonceInv, Covered
    <2> QED
      BY <1>5, <2>1 DEF Tick, NonceInv, Stamped, Covered
  <1>6. CASE UNCHANGED vars
    BY <1>6 DEF vars, authVars, NonceInv, Stamped, Covered
  <1> QED
    BY <1>1, <1>2, <1>3, <1>4, <1>5, <1>6 DEF Next, ServerStep

\* Only a successful claim of a nonce nobody holds makes an invocation a claimant.
LEMMA ClaimantsClaim ==
    ASSUME NEW d \in Calls, TypeOK, Next, ~calls[d].claimed, calls'[d].claimed
    PROVE  ClaimNonce(d) /\ nonces[calls[d].msg.nonce] = None
  <1>1. ASSUME NEW c \in Calls, NEW m \in Messages, Receive(c, m)
        PROVE  calls'[d].claimed = calls[d].claimed
    BY <1>1, SMTT(30) DEF Receive, TypeOK
  <1>2. ASSUME NEW c \in Calls, DecideStep(c)
        PROVE  calls'[d].claimed = calls[d].claimed
    BY <1>2, DecideMovesOn DEF MovedOn
  <1>3. ASSUME NEW c \in Calls, AuthStep(c)
        PROVE  c = d /\ ClaimNonce(d) /\ nonces[calls[d].msg.nonce] = None
    <2>1. ASSUME NEW code, Refuse(c, code)
          PROVE  FALSE
      BY <2>1, RefuseMovesOn DEF MovedOn
    <2>2. ASSUME NEW step, Goto(c, step)
          PROVE  FALSE
      BY <2>2 DEF Goto, TypeOK
    <2>3. ~CheckWindow(c)
      BY <2>1 DEF CheckWindow, TypeOK
    <2>4. ~Authenticate(c) /\ ~RefuseTimestamp(c) /\ ~Kill(c)
      BY <2>1, <2>2 DEF Authenticate, RefuseTimestamp, Kill
    <2>5. ClaimNonce(c)
      BY <1>3, <2>3, <2>4 DEF AuthStep
    <2>6. /\ nonces[calls[c].msg.nonce] = None
          /\ calls' = [calls EXCEPT ![c].pc = "handle", ![c].claimed = TRUE]
      BY <2>1, <2>5 DEF ClaimNonce
    <2>7. c = d
      BY <2>6 DEF TypeOK
    <2> QED
      BY <2>5, <2>6, <2>7
  <1>4. ASSUME NEW n \in Nonces, ExpireNonce(n)
        PROVE  calls'[d].claimed = calls[d].claimed
    BY <1>4 DEF ExpireNonce
  <1>5. Tick => calls'[d].claimed = calls[d].claimed
    BY DEF Tick
  <1> QED
    BY <1>1, <1>2, <1>3, <1>4, <1>5 DEF Next, ServerStep

\* A nonce is not accepted again before its message's timestamp has left the window.
THEOREM NoReplay == Spec => NoReplayInWindow
  <1> DEFINE Step ==
        \A c, d \in Calls :
          (/\ calls[c].claimed
           /\ ~calls[d].claimed /\ calls'[d].claimed
           /\ calls[c].msg.nonce = calls[d].msg.nonce)
          => clock > calls[c].msg.ts + MaxClockSkew
  <1>1. TypeOK /\ NonceInv /\ [Next]_vars => [Step]_vars
    <2> SUFFICES ASSUME TypeOK, NonceInv, Next,
                        NEW c \in Calls, NEW d \in Calls,
                        calls[c].claimed, ~calls[d].claimed, calls'[d].claimed,
                        calls[c].msg.nonce = calls[d].msg.nonce
                 PROVE  clock > calls[c].msg.ts + MaxClockSkew
      OBVIOUS
    <2>1. nonces[calls[c].msg.nonce] = None
      BY ClaimantsClaim
    <2> QED
      BY <2>1 DEF NonceInv, Covered
  <1> QED
    BY <1>1, InitType, StepType, InitNonceInv, StepNonceInv, PTL DEF Spec, NoReplayInWindow

-----------------------------------------------------------------------------
(* Answers *)

\* A 200 tells the decision on record, made for the same request id and body.
Audited(c) ==
    (replies[c] # None /\ replies[c].status = "OK") =>
        /\ replies[c].item # None
        /\ replies[c].item = decisions[RequestId(c)]
        /\ replies[c].item.hash = HashOf(c)
        /\ replies[c].item.response.request = RequestId(c)

(***************************************************************************)
(* AnswersAreAudited is not inductive: it needs that only a call that is   *)
(* done has answered (so that its message cannot change any more), that a  *)
(* 200 never tells a missing item (so that a first put cannot change what  *)
(* was told), and that every item names its own request id.                *)
(***************************************************************************)
AuditInv ==
    /\ \A c \in Calls : Audited(c) /\ (calls[c].pc # "done" => replies[c] = None)
    /\ \A r \in RequestIds : decisions[r] # None => decisions[r].response.request = r

\* One invocation takes a step; records are added, never changed.
LEMMA CallStepAuditInv ==
    ASSUME NEW c \in Calls, TypeOK, AuditInv, calls[c].pc # "done",
           \A d \in Calls : d # c => calls'[d] = calls[d] /\ replies'[d] = replies[d],
           \A r \in RequestIds : decisions[r] # None => decisions'[r] = decisions[r],
           \A r \in RequestIds : decisions'[r] # None => decisions'[r].response.request = r,
           calls'[c].pc # "done" => replies'[c] = None,
           Audited(c)'
    PROVE  AuditInv'
  <1>1. ASSUME NEW d \in Calls, d # c
        PROVE  Audited(d)' /\ (calls'[d].pc # "done" => replies'[d] = None)
    <2>1. calls'[d] = calls[d] /\ replies'[d] = replies[d]
      BY <1>1
    <2>2. RequestId(d)' = RequestId(d) /\ HashOf(d)' = HashOf(d)
      BY <2>1 DEF RequestId, HashOf
    <2>3. ASSUME replies[d] # None, replies[d].status = "OK"
          PROVE  decisions'[RequestId(d)] = decisions[RequestId(d)]
      <3>1. calls[d].pc = "done" /\ decisions[RequestId(d)] # None
        BY <2>3 DEF AuditInv, Audited
      <3>2. RequestId(d) \in RequestIds
        BY <3>1, ItemOfCall
      <3> QED
        BY <3>1, <3>2
    <2> QED
      BY <2>1, <2>2, <2>3 DEF AuditInv, Audited
  <1> QED
    BY <1>1 DEF AuditInv

\* A step that leaves the records and ends, if at all, with an error or in silence.
LEMMA QuietAuditInv ==
    ASSUME NEW c \in Calls, TypeOK, AuditInv, calls[c].pc # "done", UNCHANGED decisions,
           \A d \in Calls : d # c => calls'[d] = calls[d] /\ replies'[d] = replies[d],
           \/ replies'[c] = None
           \/ calls'[c].pc = "done" /\ replies'[c].status # "OK"
    PROVE  AuditInv'
  <1>1. Audited(c)' /\ (calls'[c].pc # "done" => replies'[c] = None)
    BY DEF Audited
  <1> QED
    BY <1>1, CallStepAuditInv DEF AuditInv

LEMMA GotoAuditInv ==
    ASSUME NEW c \in Calls, NEW step, TypeOK, AuditInv, calls[c].pc # "done",
           Goto(c, step), UNCHANGED <<replies, decisions>>
    PROVE  AuditInv'
  <1>1. \A d \in Calls : d # c => calls'[d] = calls[d] /\ replies'[d] = replies[d]
    BY DEF Goto, TypeOK
  <1>2. replies'[c] = None
    BY DEF AuditInv
  <1> QED
    BY <1>1, <1>2, QuietAuditInv

LEMMA RefuseAuditInv ==
    ASSUME NEW c \in Calls, NEW code \in Errors, TypeOK, AuditInv, calls[c].pc # "done",
           Refuse(c, code), UNCHANGED decisions
    PROVE  AuditInv'
  <1>1. \A d \in Calls : d # c => calls'[d] = calls[d] /\ replies'[d] = replies[d]
    BY DEF Refuse, Finish, TypeOK
  <1>2. calls'[c].pc = "done" /\ replies'[c].status # "OK"
    BY DEF Refuse, Finish, TypeOK, Errors
  <1> QED
    BY <1>1, <1>2, QuietAuditInv

LEMMA TellStoredAuditInv ==
    ASSUME NEW c \in Calls, TypeOK, AuditInv, calls[c].pc \notin {"idle", "done"},
           TellStored(c), UNCHANGED decisions
    PROVE  AuditInv'
  <1> DEFINE item == decisions[RequestId(c)]
  <1>1. CASE item # None /\ item.hash = HashOf(c)
    <2>1. Finish(c, [status |-> "OK", item |-> item])
      BY <1>1 DEF TellStored
    <2>2. \A d \in Calls : d # c => calls'[d] = calls[d] /\ replies'[d] = replies[d]
      BY <2>1 DEF Finish, TypeOK
    <2>3. /\ calls'[c].pc = "done" /\ calls'[c].msg = calls[c].msg
          /\ replies'[c] = [status |-> "OK", item |-> item]
      BY <2>1 DEF Finish, TypeOK
    <2>4. RequestId(c) \in RequestIds
      BY ItemOfCall
    <2>5. item.response.request = RequestId(c)
      BY <1>1, <2>4 DEF AuditInv
    <2>6. Audited(c)'
      BY <1>1, <2>3, <2>5 DEF Audited, RequestId, HashOf
    <2> QED
      BY <2>2, <2>3, <2>6, CallStepAuditInv DEF AuditInv
  <1>2. CASE ~(item # None /\ item.hash = HashOf(c))
    BY <1>2, RefuseAuditInv DEF TellStored, Errors
  <1> QED
    BY <1>1, <1>2

LEMMA SaveAuditInv ==
    ASSUME NEW c \in Calls, TypeOK, AuditInv, Save(c)
    PROVE  AuditInv'
  <1> DEFINE r == RequestId(c)
             item == [hash |-> HashOf(c), response |-> ResponseOf(c)]
             Write == decisions' = [decisions EXCEPT ![r] = item]
  <1>1. calls[c].pc = "save"
    BY DEF Save, At
  <1>2. r \in RequestIds /\ item # None /\ item.hash = HashOf(c) /\ item.response.request = r
    BY <1>1, ItemOfCall DEF ResponseOf
  <1>3. ASSUME decisions[r] = None, Write
        PROVE  /\ \A q \in RequestIds : decisions[q] # None => decisions'[q] = decisions[q]
               /\ \A q \in RequestIds : decisions'[q] # None => decisions'[q].response.request = q
               /\ decisions'[r] = item
    <2>1. decisions'[r] = item
      BY <1>2, <1>3 DEF TypeOK
    <2>2. \A q \in RequestIds : q # r => decisions'[q] = decisions[q]
      BY <1>3 DEF TypeOK
    <2> QED
      BY <1>2, <1>3, <2>1, <2>2 DEF AuditInv
  <1>4. CASE decisions[r] = None /\ Write /\ Finish(c, [status |-> "OK", item |-> item])
    <2>1. \A d \in Calls : d # c => calls'[d] = calls[d] /\ replies'[d] = replies[d]
      BY <1>4 DEF Finish, TypeOK
    <2>2. /\ calls'[c].pc = "done" /\ calls'[c].msg = calls[c].msg
          /\ replies'[c] = [status |-> "OK", item |-> item]
      BY <1>4 DEF Finish, TypeOK
    <2>3. RequestId(c)' = r /\ HashOf(c)' = HashOf(c)
      BY <2>2 DEF RequestId, HashOf
    <2>4. Audited(c)'
      BY <1>2, <1>3, <1>4, <2>2, <2>3 DEF Audited
    <2> QED
      BY <1>1, <1>3, <1>4, <2>1, <2>2, <2>4, CallStepAuditInv
  <1>5. CASE decisions[r] # None /\ Goto(c, "reread") /\ UNCHANGED <<decisions, replies>>
    BY <1>1, <1>5, GotoAuditInv
  <1>6. CASE decisions[r] = None /\ Write /\ Goto(c, "reread") /\ UNCHANGED replies
    <2>1. \A d \in Calls : d # c => calls'[d] = calls[d] /\ replies'[d] = replies[d]
      BY <1>6 DEF Goto, TypeOK
    <2>2. replies'[c] = None
      BY <1>1, <1>6 DEF AuditInv
    <2>3. Audited(c)'
      BY <2>2 DEF Audited
    <2> QED
      BY <1>1, <1>3, <1>6, <2>1, <2>2, <2>3, CallStepAuditInv
  <1>7. CASE decisions[r] = None /\ Write /\ Refuse(c, "INTERNAL_ERROR")
    <2>1. \A d \in Calls : d # c => calls'[d] = calls[d] /\ replies'[d] = replies[d]
      BY <1>7 DEF Refuse, Finish, TypeOK
    <2>2. calls'[c].pc = "done" /\ replies'[c].status = "INTERNAL_ERROR"
      BY <1>7 DEF Refuse, Finish, TypeOK
    <2>3. Audited(c)'
      BY <2>2 DEF Audited
    <2> QED
      BY <1>1, <1>3, <1>7, <2>1, <2>2, <2>3, CallStepAuditInv
  <1>8. CASE Refuse(c, "INTERNAL_ERROR") /\ UNCHANGED decisions
    BY <1>1, <1>8, RefuseAuditInv DEF Errors
  <1> QED
    BY <1>4, <1>5, <1>6, <1>7, <1>8 DEF Save

LEMMA DecideAuditInv ==
    ASSUME NEW c \in Calls, TypeOK, AuditInv, DecideStep(c)
    PROVE  AuditInv'
  <1>1. calls[c].pc \notin {"idle", "done"}
    BY DEF DecideStep, Lookup, Predict, CallLlm, LlmReturns, Save, Reread, At
  <1>2. "INTERNAL_ERROR" \in Errors
    BY DEF Errors
  <1>3. CASE Lookup(c)
    BY <1>1, <1>2, <1>3, TellStoredAuditInv, GotoAuditInv, RefuseAuditInv DEF Lookup
  <1>4. CASE Predict(c)
    BY <1>1, <1>4, GotoAuditInv DEF Predict
  <1>5. CASE CallLlm(c)
    BY <1>1, <1>5, GotoAuditInv DEF CallLlm
  <1>6. CASE LlmReturns(c)
    BY <1>1, <1>6, GotoAuditInv DEF LlmReturns
  <1>7. CASE Save(c)
    BY <1>7, SaveAuditInv
  <1>8. CASE Reread(c)
    BY <1>1, <1>2, <1>8, TellStoredAuditInv, RefuseAuditInv DEF Reread
  <1> QED
    BY <1>3, <1>4, <1>5, <1>6, <1>7, <1>8 DEF DecideStep

LEMMA AuthAuditInv ==
    ASSUME NEW c \in Calls, TypeOK, AuditInv, AuthStep(c), UNCHANGED decisions
    PROVE  AuditInv'
  <1>1. calls[c].pc \notin {"idle", "done"}
    BY DEF AuthStep, CheckWindow, Authenticate, ClaimNonce, RefuseTimestamp, Kill, At
  <1>2. {"TIMESTAMP_EXPIRED", "AUTHENTICATION_FAILED", "REPLAY_DETECTED", "INTERNAL_ERROR",
         "SIGNED_TIMESTAMP_MISMATCH"} \subseteq Errors
    BY DEF Errors
  <1>3. ASSUME UNCHANGED replies, \A d \in Calls : d # c => calls'[d] = calls[d]
        PROVE  AuditInv'
    <2>1. replies'[c] = None
      BY <1>1, <1>3 DEF AuditInv
    <2> QED
      BY <1>1, <1>3, <2>1, QuietAuditInv
  <1>4. CASE CheckWindow(c)
    <2>1. CASE Refuse(c, "TIMESTAMP_EXPIRED")
      BY <1>1, <1>2, <2>1, RefuseAuditInv
    <2>2. CASE calls' = [calls EXCEPT ![c].pc = "signature", ![c].now = clock]
               /\ UNCHANGED replies
      BY <1>3, <2>2 DEF TypeOK
    <2> QED
      BY <1>4, <2>1, <2>2 DEF CheckWindow
  <1>5. CASE Authenticate(c)
    BY <1>1, <1>2, <1>5, GotoAuditInv, RefuseAuditInv DEF Authenticate
  <1>6. CASE ClaimNonce(c)
    <2>1. CASE calls' = [calls EXCEPT ![c].pc = "handle", ![c].claimed = TRUE]
               /\ UNCHANGED replies
      BY <1>3, <2>1 DEF TypeOK
    <2>2. CASE \E code \in {"REPLAY_DETECTED", "INTERNAL_ERROR"} : Refuse(c, code)
      BY <1>1, <1>2, <2>2, RefuseAuditInv
    <2> QED
      BY <1>6, <2>1, <2>2 DEF ClaimNonce
  <1>7. CASE RefuseTimestamp(c)
    BY <1>1, <1>2, <1>7, RefuseAuditInv DEF RefuseTimestamp
  <1>8. CASE Kill(c)
    BY <1>1, <1>8, GotoAuditInv DEF Kill
  <1> QED
    BY <1>4, <1>5, <1>6, <1>7, <1>8 DEF AuthStep

LEMMA InitAuditInv == Init => AuditInv
  BY DEF Init, SignedInit, AuditInv, Audited

LEMMA StepAuditInv == TypeOK /\ AuditInv /\ [Next]_vars => AuditInv'
  <1> SUFFICES ASSUME TypeOK, AuditInv, [Next]_vars
               PROVE  AuditInv'
    OBVIOUS
  <1>1. ASSUME NEW c \in Calls, NEW m \in Messages,
               Receive(c, m), UNCHANGED <<decisions, work>>
        PROVE  AuditInv'
    <2>1. calls[c].pc = "idle" /\ replies[c] = None
      BY <1>1 DEF Receive, AuditInv
    <2>2. \A d \in Calls : d # c => calls'[d] = calls[d] /\ replies'[d] = replies[d]
      BY <1>1 DEF Receive, TypeOK
    <2>3. CASE m.wellFormed
      BY <1>1, <2>1, <2>2, <2>3, QuietAuditInv DEF Receive
    <2>4. CASE ~m.wellFormed
      <3>1. calls'[c].pc = "done" /\ replies'[c].status = "BAD_REQUEST"
        BY <1>1, <2>4 DEF Receive, TypeOK
      <3> QED
        BY <1>1, <2>1, <2>2, <3>1, QuietAuditInv
    <2> QED
      BY <2>3, <2>4
  <1>2. ASSUME NEW c \in Calls, AuthStep(c), UNCHANGED <<decisions, work>>
        PROVE  AuditInv'
    BY <1>2, AuthAuditInv
  <1>3. ASSUME NEW c \in Calls, DecideStep(c)
        PROVE  AuditInv'
    BY <1>3, DecideAuditInv
  <1>4. ASSUME NEW n \in Nonces, ExpireNonce(n), UNCHANGED <<decisions, work>>
        PROVE  AuditInv'
    BY <1>4 DEF ExpireNonce, AuditInv, Audited, RequestId, HashOf
  <1>5. CASE Tick
    BY <1>5 DEF Tick, AuditInv, Audited, RequestId, HashOf
  <1>6. CASE UNCHANGED vars
    BY <1>6 DEF vars, authVars, AuditInv, Audited, RequestId, HashOf
  <1> QED
    BY <1>1, <1>2, <1>3, <1>4, <1>5, <1>6 DEF Next, ServerStep

\* Whoever got a 200 got the decision on record, for their own body and request id.
THEOREM AnswersAudited == Spec => []AnswersAreAudited
  <1>1. AuditInv => AnswersAreAudited
    BY DEF AuditInv, Audited, AnswersAreAudited
  <1> QED
    BY <1>1, InitType, StepType, InitAuditInv, StepAuditInv, PTL DEF Spec

-----------------------------------------------------------------------------
(* The LLM's verdicts come in time: from the deadline check over the fetch *)
(* of the API key and the provider's own timer to the end of the call      *)
(* (DecisionService.decide, OpenAiResponsesProvider.decide).               *)

Verdicts == {"ALLOW", "VETO"}

BeforeVerdict == (AuthSteps \ {"done"}) \cup {"handle", "ml", "key", "llm"}

\* The deadline check passed at the instant that work[c].checked holds.
Fitted(c) ==
    work[c].checked + LlmTimeout + LlmReserve <= calls[c].started + DecisionDeadline

InTime(c) ==
    work[c].ended + LlmReserve <= calls[c].started + DecisionDeadline + KeyFetchMax

(***************************************************************************)
(* LlmVerdictInTime is not inductive: it needs where an invocation is      *)
(* between the check and the verdict, and that none has a verdict before.  *)
(***************************************************************************)
Timely(c) ==
    /\ calls[c].pc \in BeforeVerdict => work[c].llm \notin Verdicts
    /\ calls[c].pc = "key" => Fitted(c) /\ clock <= work[c].checked + KeyFetchMax
    /\ calls[c].pc = "llm" => Fitted(c) /\ work[c].called <= work[c].checked + KeyFetchMax
    /\ work[c].llm \in Verdicts => InTime(c)

TimelyInv == \A c \in Calls : Timely(c)

LEMMA OneMoves ==
    ASSUME NEW c \in Calls, TimelyInv, clock' = clock, Timely(c)',
           \A d \in Calls \ {c} : calls'[d] = calls[d] /\ work'[d] = work[d]
    PROVE  TimelyInv'
  BY DEF TimelyInv, Timely, Fitted, InTime

\* A step that keeps the variables of decide() and does not enter the LLM's part of it.
LEMMA QuietStepTimely ==
    ASSUME NEW c \in Calls, TypeOK, TimelyInv, UNCHANGED <<clock, work>>,
           \A d \in Calls \ {c} : calls'[d] = calls[d],
           calls'[c].started = calls[c].started \/ calls[c].pc = "idle",
           calls'[c].pc \notin {"key", "llm"},
           calls'[c].pc \in BeforeVerdict => calls[c].pc \in BeforeVerdict
    PROVE  TimelyInv'
  <1>1. Timely(c)
    BY DEF TimelyInv
  <1>2. calls[c].pc = "idle" => work[c].llm \notin Verdicts
    BY <1>1 DEF Timely, BeforeVerdict, AuthSteps
  <1>3. Timely(c)'
    BY <1>1, <1>2 DEF Timely, InTime
  <1> QED
    BY <1>3, OneMoves

LEMMA AuthStepTimely ==
    ASSUME NEW c \in Calls, TypeOK, TimelyInv, AuthStep(c), UNCHANGED <<decisions, work>>
    PROVE  TimelyInv'
  <1> USE DEF BeforeVerdict, AuthSteps
  <1>1. CASE CheckWindow(c)
    <2>1. CASE Refuse(c, "TIMESTAMP_EXPIRED")
      BY <1>1, <2>1, RefuseFrame, QuietStepTimely DEF SameRequest, CheckWindow
    <2>2. CASE calls' = [calls EXCEPT ![c].pc = "signature", ![c].now = clock]
      <3>1. /\ \A d \in Calls \ {c} : calls'[d] = calls[d]
            /\ calls'[c].started = calls[c].started
            /\ calls'[c].pc = "signature"
        BY <2>2 DEF TypeOK
      <3> QED
        BY <1>1, <3>1, QuietStepTimely DEF CheckWindow, At
    <2> QED
      BY <1>1, <2>1, <2>2 DEF CheckWindow
  <1>2. CASE Authenticate(c)
    BY <1>2, GotoFrame, RefuseFrame, QuietStepTimely DEF SameRequest, Authenticate, At
  <1>3. CASE ClaimNonce(c)
    <2>1. CASE \E code : Refuse(c, code)
      BY <1>3, <2>1, RefuseFrame, QuietStepTimely DEF SameRequest, ClaimNonce
    <2>2. CASE calls' = [calls EXCEPT ![c].pc = "handle", ![c].claimed = TRUE]
      <3>1. /\ \A d \in Calls \ {c} : calls'[d] = calls[d]
            /\ calls'[c].started = calls[c].started
            /\ calls'[c].pc = "handle"
        BY <2>2 DEF TypeOK
      <3> QED
        BY <1>3, <3>1, QuietStepTimely DEF ClaimNonce, At
    <2> QED
      BY <1>3, <2>1, <2>2 DEF ClaimNonce
  <1>4. CASE RefuseTimestamp(c)
    BY <1>4, RefuseFrame, QuietStepTimely DEF SameRequest, RefuseTimestamp
  <1>5. CASE Kill(c)
    BY <1>5, GotoFrame, QuietStepTimely DEF SameRequest, Kill
  <1> QED
    BY <1>1, <1>2, <1>3, <1>4, <1>5 DEF AuthStep

LEMMA LookupTimely ==
    ASSUME NEW c \in Calls, TypeOK, TimelyInv, Lookup(c)
    PROVE  TimelyInv'
  <1> USE DEF BeforeVerdict, AuthSteps
  <1>1. CASE UNCHANGED work
    BY <1>1, TellStoredFrame, RefuseFrame, GotoFrame, QuietStepTimely DEF SameRequest, Lookup, At
  <1>2. CASE Goto(c, "ml") /\ work' = [work EXCEPT ![c].created = clock]
    <2>1. /\ \A d \in Calls \ {c} : calls'[d] = calls[d] /\ work'[d] = work[d]
          /\ calls'[c].pc = "ml" /\ work'[c].llm = work[c].llm
      BY <1>2, GotoFrame DEF SameRequest, TypeOK, Work
    <2>2. calls[c].pc = "handle" /\ clock' = clock
      BY DEF Lookup, At
    <2>3. work[c].llm \notin Verdicts
      BY <2>2 DEF TimelyInv, Timely
    <2>4. Timely(c)'
      BY <2>1, <2>3 DEF Timely
    <2> QED
      BY <2>1, <2>2, <2>4, OneMoves
  <1> QED
    BY <1>1, <1>2 DEF Lookup

LEMMA PredictTimely ==
    ASSUME NEW c \in Calls, TypeOK, TimelyInv, Predict(c)
    PROVE  TimelyInv'
  <1> USE DEF BeforeVerdict, AuthSteps, Verdicts
  <1>1. calls[c].pc = "ml" /\ clock' = clock
    BY DEF Predict, At
  <1>2. work[c].llm \notin Verdicts
    BY <1>1 DEF TimelyInv, Timely
  <1>3. PICK verdict \in MlStatuses :
          IF verdict = "PASSED" /\ LlmFits(c)
          THEN /\ Goto(c, "key")
               /\ work' = [work EXCEPT ![c].ml = verdict, ![c].checked = clock]
          ELSE /\ Goto(c, "save")
               /\ work' = [work EXCEPT ![c].ml = verdict,
                             ![c].llm = IF verdict = "PASSED" THEN "ERROR" ELSE "NOT_CALLED"]
    BY DEF Predict
  <1>4. CASE verdict = "PASSED" /\ LlmFits(c)
    <2>1. /\ \A d \in Calls \ {c} : calls'[d] = calls[d] /\ work'[d] = work[d]
          /\ calls'[c].pc = "key" /\ calls'[c].started = calls[c].started
          /\ work'[c].llm = work[c].llm /\ work'[c].checked = clock
      BY <1>3, <1>4, GotoFrame DEF SameRequest, TypeOK, Work
    <2>2. clock + LlmTimeout + LlmReserve <= calls[c].started + DecisionDeadline
      BY <1>4, DecisionApiAssumption DEF LlmFits, TypeOK
    <2>3. clock <= clock + KeyFetchMax
      BY DecisionApiAssumption DEF TypeOK
    <2>4. Timely(c)'
      BY <1>1, <1>2, <2>1, <2>2, <2>3 DEF Timely, Fitted
    <2> QED
      BY <1>1, <2>1, <2>4, OneMoves
  <1>5. CASE ~(verdict = "PASSED" /\ LlmFits(c))
    <2>1. /\ \A d \in Calls \ {c} : calls'[d] = calls[d] /\ work'[d] = work[d]
          /\ calls'[c].pc = "save" /\ work'[c].llm \in {"ERROR", "NOT_CALLED"}
      BY <1>3, <1>5, GotoFrame DEF SameRequest, TypeOK, Work
    <2>2. Timely(c)'
      BY <2>1 DEF Timely
    <2> QED
      BY <1>1, <2>1, <2>2, OneMoves
  <1> QED
    BY <1>4, <1>5

LEMMA CallLlmTimely ==
    ASSUME NEW c \in Calls, TypeOK, TimelyInv, CallLlm(c)
    PROVE  TimelyInv'
  <1> USE DEF BeforeVerdict, AuthSteps, Verdicts
  <1>1. /\ calls[c].pc = "key" /\ clock' = clock
        /\ Timely(c)
    BY DEF CallLlm, At, TimelyInv
  <1>2. CASE Goto(c, "llm") /\ work' = [work EXCEPT ![c].called = clock]
    <2>1. /\ \A d \in Calls \ {c} : calls'[d] = calls[d] /\ work'[d] = work[d]
          /\ calls'[c].pc = "llm" /\ calls'[c].started = calls[c].started
          /\ work'[c].llm = work[c].llm /\ work'[c].checked = work[c].checked
          /\ work'[c].called = clock
      BY <1>2, GotoFrame DEF SameRequest, TypeOK, Work
    <2>2. Timely(c)'
      BY <1>1, <2>1 DEF Timely, Fitted
    <2> QED
      BY <1>1, <2>1, <2>2, OneMoves
  <1>3. CASE Goto(c, "save") /\ work' = [work EXCEPT ![c].llm = "ERROR"]
    <2>1. /\ \A d \in Calls \ {c} : calls'[d] = calls[d] /\ work'[d] = work[d]
          /\ calls'[c].pc = "save" /\ work'[c].llm = "ERROR"
      BY <1>3, GotoFrame DEF SameRequest, TypeOK, Work
    <2>2. Timely(c)'
      BY <2>1 DEF Timely
    <2> QED
      BY <1>1, <2>1, <2>2, OneMoves
  <1> QED
    BY <1>2, <1>3 DEF CallLlm

LEMMA LlmReturnsTimely ==
    ASSUME NEW c \in Calls, TypeOK, TimelyInv, LlmReturns(c)
    PROVE  TimelyInv'
  <1> USE DEF BeforeVerdict, AuthSteps, Verdicts
  <1>1. /\ calls[c].pc = "llm" /\ clock' = clock
        /\ Fitted(c) /\ work[c].called <= work[c].checked + KeyFetchMax
    BY DEF LlmReturns, At, TimelyInv, Timely
  <1>2. PICK verdict \in {"ALLOW", "VETO", "ERROR"} :
          /\ verdict \in {"ALLOW", "VETO"} => WithinTimeout(c)
          /\ work' = [work EXCEPT ![c].llm = verdict, ![c].ended = clock]
    BY DEF LlmReturns
  <1>3. /\ \A d \in Calls \ {c} : calls'[d] = calls[d] /\ work'[d] = work[d]
        /\ calls'[c].pc = "save" /\ calls'[c].started = calls[c].started
        /\ work'[c].llm = verdict /\ work'[c].ended = clock
    BY <1>2, GotoFrame, SMTT(30) DEF SameRequest, LlmReturns, TypeOK, Work
  <1>4. ASSUME verdict \in Verdicts
        PROVE  clock + LlmReserve <= calls[c].started + DecisionDeadline + KeyFetchMax
    <2>1. clock <= work[c].called + LlmTimeout
      BY <1>2, <1>4, DecisionApiAssumption DEF WithinTimeout, TypeOK, Work
    <2>2. /\ work[c].called \in Nat /\ work[c].checked \in Nat
          /\ calls[c].started \in Nat /\ clock \in Nat
      BY DEF TypeOK, Work
    <2> QED
      BY <1>1, <2>1, <2>2, DecisionApiAssumption DEF Fitted
  <1>5. Timely(c)'
    BY <1>3, <1>4 DEF Timely, InTime
  <1> QED
    BY <1>1, <1>3, <1>5, OneMoves

LEMMA SaveTimely ==
    ASSUME NEW c \in Calls, TypeOK, TimelyInv, Save(c) \/ Reread(c)
    PROVE  TimelyInv'
  <1> USE DEF BeforeVerdict, AuthSteps
  <1>1. CASE Save(c)
    <2>1. \/ \E reply : Finish(c, reply)
          \/ Goto(c, "reread")
          \/ \E code : Refuse(c, code)
      BY <1>1 DEF Save
    <2>2. UNCHANGED <<clock, work>>
      BY <1>1 DEF Save
    <2> QED
      BY <2>1, <2>2, FinishFrame, GotoFrame, RefuseFrame, QuietStepTimely DEF SameRequest
  <1>2. CASE Reread(c)
    BY <1>2, TellStoredFrame, RefuseFrame, QuietStepTimely DEF SameRequest, Reread
  <1> QED
    BY <1>1, <1>2

LEMMA InitTimely == Init => TimelyInv
  <1> SUFFICES ASSUME Init, NEW c \in Calls
               PROVE  Timely(c)
    BY DEF TimelyInv
  <1>1. calls[c].pc = "idle" /\ work[c].llm = "NOT_CALLED"
    BY DEF Init, SignedInit
  <1> QED
    BY <1>1 DEF Timely, Verdicts

LEMMA StepTimely == TypeOK /\ TimelyInv /\ [Next]_vars => TimelyInv'
  <1> SUFFICES ASSUME TypeOK, TimelyInv, [Next]_vars
               PROVE  TimelyInv'
    OBVIOUS
  <1>1. ASSUME NEW c \in Calls, NEW m \in Messages, Receive(c, m), UNCHANGED <<decisions, work>>
        PROVE  TimelyInv'
    <2>1. /\ \A d \in Calls \ {c} : calls'[d] = calls[d]
          /\ calls'[c].pc \in {"window", "done"} /\ calls[c].pc = "idle"
          /\ UNCHANGED <<clock, work>>
      BY <1>1 DEF Receive, TypeOK
    <2> QED
      BY <2>1, QuietStepTimely DEF BeforeVerdict, AuthSteps
  <1>2. ASSUME NEW c \in Calls, DecideStep(c)
        PROVE  TimelyInv'
    BY <1>2, LookupTimely, PredictTimely, CallLlmTimely, LlmReturnsTimely, SaveTimely
    DEF DecideStep
  <1>3. ASSUME NEW n \in Nonces, ExpireNonce(n), UNCHANGED <<decisions, work>>
        PROVE  TimelyInv'
    BY <1>3 DEF ExpireNonce, TimelyInv, Timely, Fitted, InTime
  <1>4. CASE Tick
    <2>1. /\ UNCHANGED <<calls, work>> /\ clock' = clock + 1
          /\ \A c \in Calls : calls[c].pc = "key" => clock - work[c].checked < KeyFetchMax
      BY <1>4 DEF Tick
    <2>2. ASSUME NEW c \in Calls, calls[c].pc = "key"
          PROVE  clock + 1 <= work[c].checked + KeyFetchMax
      BY <2>1, <2>2, DecisionApiAssumption DEF TypeOK, Work
    <2> QED
      BY <2>1, <2>2 DEF TimelyInv, Timely, Fitted, InTime
  <1>5. CASE UNCHANGED vars
    BY <1>5 DEF vars, authVars, TimelyInv, Timely, Fitted, InTime
  <1> QED
    BY <1>1, <1>2, <1>3, <1>4, <1>5, AuthStepTimely DEF Next, ServerStep

(***************************************************************************)
(* A verdict of the LLM is complete before the deadline minus the reserve, *)
(* but for the time that fetching the API key took.                        *)
(***************************************************************************)
THEOREM VerdictInTime == Spec => []LlmVerdictInTime
  <1>1. TimelyInv => LlmVerdictInTime
    BY DEF TimelyInv, Timely, Verdicts, InTime, LlmVerdictInTime
  <1> QED
    BY <1>1, InitType, StepType, InitTimely, StepTimely, PTL DEF Spec

(***************************************************************************)
(* If fetching the API key takes no longer than the reserve, an approval   *)
(* is never late: the finding about late approvals needs a slower fetch.   *)
(***************************************************************************)
THEOREM PromptKeyNoLateApproval == KeyFetchMax <= LlmReserve => (Spec => []ApprovalWithinDeadline)
  <1> SUFFICES ASSUME KeyFetchMax <= LlmReserve
               PROVE  Spec => []ApprovalWithinDeadline
    OBVIOUS
  <1>1. TypeOK /\ TimelyInv => ApprovalWithinDeadline
    <2> SUFFICES ASSUME TypeOK, TimelyInv, NEW c \in Calls, work[c].llm = "ALLOW"
                 PROVE  work[c].ended <= calls[c].started + DecisionDeadline
      BY DEF ApprovalWithinDeadline
    <2>1. InTime(c)
      BY DEF TimelyInv, Timely, Verdicts
    <2>2. work[c].ended \in Nat /\ calls[c].started \in Nat
      BY DEF TypeOK, Work
    <2> QED
      BY <2>1, <2>2, DecisionApiAssumption DEF InTime
  <1> QED
    BY <1>1, InitType, StepType, InitTimely, StepTimely, PTL DEF Spec

-----------------------------------------------------------------------------
(* Every decision on record goes back to one authenticated invocation and  *)
(* to what its filters said (lambda_handler, verify_request, decide).      *)

Deciding == {"ml", "key", "llm", "save", "reread"}

Granted(c) ==
    FinalDecision(work[c]) = "ALLOW" =>
        /\ work[c].ml = "PASSED"
        /\ work[c].ended - work[c].called \in 0 .. LlmTimeout

\* What an invocation knows at each of its steps.
Traced(c) ==
    /\ calls[c].pc # "idle" => calls[c].started <= clock
    /\ calls[c].pc \in {"signature", "claim"} \/ calls[c].claimed =>
         /\ calls[c].pc # "idle"
         /\ calls[c].now - calls[c].msg.ts \in -MaxClockSkew .. MaxClockSkew
    /\ calls[c].pc \in Deciding \cup {"handle"} => calls[c].claimed
    /\ calls[c].pc \in Deciding =>
         /\ calls[c].msg.bodyTs = calls[c].msg.ts
         /\ calls[c].started <= work[c].created
    /\ calls[c].pc \in {"key", "llm"} => work[c].ml = "PASSED"
    /\ calls[c].pc = "llm" => work[c].called <= clock
    /\ calls[c].pc \in {"save", "reread"} => Granted(c)

\* Invocation c made the decision on record for r.
Vouches(c, r) ==
    /\ calls[c].claimed
    /\ calls[c].now - calls[c].msg.ts \in -MaxClockSkew .. MaxClockSkew
    /\ calls[c].msg.bodyTs = calls[c].msg.ts
    /\ decisions[r] = [hash |-> HashOf(c), response |-> ResponseOf(c)]
    /\ RequestId(c) = r
    /\ calls[c].started <= work[c].created
    /\ Granted(c)

(***************************************************************************)
(* DecisionsAreTraceable is not inductive: the witness must be past its    *)
(* put, so that what it vouches with cannot change any more, and before    *)
(* the put it must have what it will vouch with.                           *)
(***************************************************************************)
TraceInv ==
    /\ \A c \in Calls : Traced(c)
    /\ \A r \in RequestIds : decisions[r] # None =>
         \E c \in Calls : calls[c].pc \in {"reread", "done"} /\ Vouches(c, r)

Others(c) == \A d \in Calls \ {c} : calls'[d] = calls[d] /\ work'[d] = work[d]

LEMMA SameVouches ==
    ASSUME NEW c \in Calls, NEW r, SameRequest(c), work'[c] = work[c],
           decisions'[r] = decisions[r], Vouches(c, r)
    PROVE  Vouches(c, r)'
  <1>1. RequestId(c)' = RequestId(c) /\ HashOf(c)' = HashOf(c)
    BY DEF SameRequest, RequestId, HashOf
  <1>2. ResponseOf(c)' = ResponseOf(c) /\ (Granted(c)' <=> Granted(c))
    BY <1>1 DEF ResponseOf, FinalDecision, Granted
  <1> QED
    BY <1>1, <1>2 DEF SameRequest, Vouches

LEMMA OthersTraced ==
    ASSUME NEW c \in Calls, TraceInv, Others(c), clock' = clock, Traced(c)'
    PROVE  \A d \in Calls : Traced(d)'
  <1>1. ASSUME NEW d \in Calls \ {c}
        PROVE  Traced(d)'
    <2>1. calls'[d] = calls[d] /\ work'[d] = work[d] /\ Traced(d)
      BY DEF Others, TraceInv
    <2> QED
      BY <2>1 DEF Traced, Granted, FinalDecision
  <1> QED
    BY <1>1

\* A step of one invocation that puts no decision on record.
LEMMA OneTraced ==
    ASSUME NEW c \in Calls, TraceInv, Others(c), UNCHANGED <<clock, decisions>>, Traced(c)',
           calls[c].pc # "done",
           calls[c].pc = "reread" =>
               SameRequest(c) /\ work'[c] = work[c] /\ calls'[c].pc = "done"
    PROVE  TraceInv'
  <1>1. ASSUME NEW r \in RequestIds, decisions'[r] # None
        PROVE  \E d \in Calls : calls'[d].pc \in {"reread", "done"} /\ Vouches(d, r)'
    <2>1. PICK d \in Calls : calls[d].pc \in {"reread", "done"} /\ Vouches(d, r)
      BY <1>1 DEF TraceInv
    <2>2. SameRequest(d) /\ work'[d] = work[d] /\ calls'[d].pc \in {"reread", "done"}
      BY <2>1 DEF Others, SameRequest
    <2> QED
      BY <2>1, <2>2, SameVouches
  <1> QED
    BY <1>1, OthersTraced DEF TraceInv

\* An invocation that goes on or ends, its request and local variables unchanged.
LEMMA QuietTraced ==
    ASSUME NEW c \in Calls, TypeOK, TraceInv, UNCHANGED <<clock, decisions, work>>,
           \A d \in Calls \ {c} : calls'[d] = calls[d], SameRequest(c),
           calls[c].pc \notin {"idle", "done"},
           \/ calls'[c].pc = "done"
           \/ calls[c].pc = "signature" /\ calls'[c].pc = "claim"
           \/ calls[c].pc = "save" /\ calls'[c].pc = "reread"
    PROVE  TraceInv'
  <1>1. Traced(c)
    BY DEF TraceInv
  <1>2. Traced(c)'
    BY <1>1 DEF Traced, SameRequest, Deciding, Granted, FinalDecision
  <1> QED
    BY <1>2, OneTraced DEF Others

\* Ending, with an error or with what is on record, keeps the invariant.
LEMMA EndTraced ==
    ASSUME NEW c \in Calls, TypeOK, TraceInv, calls[c].pc \notin {"idle", "done"},
           UNCHANGED <<clock, decisions, work>>,
           TellStored(c) \/ \E code : Refuse(c, code)
    PROVE  TraceInv'
  <1>1. \E reply : Finish(c, reply)
    BY DEF TellStored, Refuse
  <1> QED
    BY <1>1, FinishFrame, QuietTraced

-----------------------------------------------------------------------------

LEMMA AuthStepTraced ==
    ASSUME NEW c \in Calls, TypeOK, TraceInv, AuthStep(c), UNCHANGED <<decisions, work>>
    PROVE  TraceInv'
  <1>1. calls[c].pc \notin {"idle", "done"} /\ Traced(c) /\ UNCHANGED clock
    BY DEF AuthStep, CheckWindow, Authenticate, ClaimNonce, RefuseTimestamp, Kill, At, TraceInv
  <1>2. CASE CheckWindow(c)
    <2>1. CASE Refuse(c, "TIMESTAMP_EXPIRED")
      BY <1>1, <2>1, EndTraced
    <2>2. CASE /\ InWindow(clock, calls[c].msg.ts)
               /\ calls' = [calls EXCEPT ![c].pc = "signature", ![c].now = clock]
      <3>1. /\ \A d \in Calls \ {c} : calls'[d] = calls[d]
            /\ calls'[c].pc = "signature" /\ calls'[c].now = clock
            /\ calls'[c].msg = calls[c].msg /\ calls'[c].started = calls[c].started
        BY <2>2 DEF TypeOK
      <3>2. calls[c].msg.ts \in Int /\ clock \in Int /\ MaxClockSkew \in Int
        BY <1>1, MessageParts, SignedRequestAssumption DEF TypeOK
      <3>3. clock - calls[c].msg.ts \in -MaxClockSkew .. MaxClockSkew
        BY <2>2, <3>2 DEF InWindow
      <3>4. Traced(c)'
        BY <1>1, <3>1, <3>3 DEF Traced, Deciding
      <3>5. calls[c].pc = "window"
        BY <1>2 DEF CheckWindow, At
      <3> QED
        BY <1>1, <3>1, <3>4, <3>5, OneTraced DEF Others
    <2> QED
      BY <1>2, <2>1, <2>2 DEF CheckWindow
  <1>3. CASE Authenticate(c)
    BY <1>1, <1>3, EndTraced, GotoFrame, QuietTraced DEF Authenticate, At
  <1>4. CASE ClaimNonce(c)
    <2>1. CASE \E code : Refuse(c, code)
      BY <1>1, <2>1, EndTraced
    <2>2. CASE calls' = [calls EXCEPT ![c].pc = "handle", ![c].claimed = TRUE]
      <3>1. /\ \A d \in Calls \ {c} : calls'[d] = calls[d]
            /\ calls'[c].pc = "handle" /\ calls'[c].now = calls[c].now /\ calls'[c].claimed
            /\ calls'[c].msg = calls[c].msg /\ calls'[c].started = calls[c].started
        BY <2>2 DEF TypeOK
      <3>2. calls[c].pc = "claim"
        BY <1>4 DEF ClaimNonce, At
      <3>3. Traced(c)'
        BY <1>1, <3>1, <3>2 DEF Traced, Deciding
      <3> QED
        BY <1>1, <3>1, <3>2, <3>3, OneTraced DEF Others
    <2> QED
      BY <1>4, <2>1, <2>2 DEF ClaimNonce
  <1>5. CASE RefuseTimestamp(c)
    BY <1>1, <1>5, EndTraced DEF RefuseTimestamp
  <1>6. CASE Kill(c)
    BY <1>1, <1>6, GotoFrame, QuietTraced DEF Kill
  <1> QED
    BY <1>2, <1>3, <1>4, <1>5, <1>6 DEF AuthStep

LEMMA LookupTraced ==
    ASSUME NEW c \in Calls, TypeOK, TraceInv, Lookup(c)
    PROVE  TraceInv'
  <1>1. /\ calls[c].pc = "handle" /\ Traced(c) /\ UNCHANGED <<clock, decisions>>
        /\ calls[c].msg.bodyTs = calls[c].msg.ts
    BY DEF Lookup, At, TraceInv
  <1>2. CASE Goto(c, "ml") /\ work' = [work EXCEPT ![c].created = clock]
    <2>1. Others(c) /\ SameRequest(c) /\ calls'[c].pc = "ml" /\ work'[c].created = clock
      BY <1>2, GotoFrame DEF TypeOK, Work, Others
    <2>2. Traced(c)'
      BY <1>1, <2>1 DEF Traced, SameRequest, Deciding
    <2> QED
      BY <1>1, <2>1, <2>2, OneTraced
  <1>3. CASE UNCHANGED work /\ (TellStored(c) \/ Refuse(c, "INTERNAL_ERROR"))
    BY <1>1, <1>3, EndTraced
  <1> QED
    BY <1>2, <1>3 DEF Lookup

\* From the lookup to the put an invocation moves on with its own request.
LEMMA WorkTraced ==
    ASSUME NEW c \in Calls, NEW step \in {"key", "llm", "save"}, TypeOK, TraceInv,
           calls[c].pc \in {"ml", "key", "llm"}, Goto(c, step),
           UNCHANGED <<clock, decisions>>, \A d \in Calls \ {c} : work'[d] = work[d],
           work'[c].created = work[c].created,
           step \in {"key", "llm"} => work'[c].ml = "PASSED",
           step = "llm" => work'[c].called <= clock,
           step = "save" => Granted(c)'
    PROVE  TraceInv'
  <1>1. Others(c) /\ SameRequest(c) /\ calls'[c].pc = step
    BY GotoFrame DEF Others
  <1>2. Traced(c)
    BY DEF TraceInv
  <1>3. Traced(c)'
    BY <1>1, <1>2 DEF Traced, SameRequest, Deciding
  <1> QED
    BY <1>1, <1>3, OneTraced

LEMMA PredictTraced ==
    ASSUME NEW c \in Calls, TypeOK, TraceInv, Predict(c)
    PROVE  TraceInv'
  <1>1. calls[c].pc = "ml" /\ UNCHANGED <<clock, decisions>>
    BY DEF Predict, At
  <1>2. PICK verdict \in MlStatuses :
          \/ /\ verdict = "PASSED" /\ Goto(c, "key")
             /\ work' = [work EXCEPT ![c].ml = verdict, ![c].checked = clock]
          \/ /\ Goto(c, "save")
             /\ \E llm \in {"ERROR", "NOT_CALLED"} :
                  work' = [work EXCEPT ![c].ml = verdict, ![c].llm = llm]
    BY DEF Predict
  <1>3. /\ \A d \in Calls \ {c} : work'[d] = work[d]
        /\ work'[c].created = work[c].created
        /\ work'[c].ml = verdict
    BY <1>2 DEF TypeOK, Work
  <1>4. CASE verdict = "PASSED" /\ Goto(c, "key")
    BY <1>1, <1>3, <1>4, WorkTraced
  <1>5. ASSUME NEW llm \in {"ERROR", "NOT_CALLED"}, Goto(c, "save"),
               work' = [work EXCEPT ![c].ml = verdict, ![c].llm = llm]
        PROVE  TraceInv'
    <2>1. work'[c].llm = llm
      BY <1>5 DEF TypeOK, Work
    <2>2. Granted(c)'
      BY <2>1 DEF Granted, FinalDecision
    <2> QED
      BY <1>1, <1>3, <1>5, <2>2, WorkTraced
  <1> QED
    BY <1>2, <1>4, <1>5

LEMMA CallLlmTraced ==
    ASSUME NEW c \in Calls, TypeOK, TraceInv, CallLlm(c)
    PROVE  TraceInv'
  <1>1. /\ calls[c].pc = "key" /\ UNCHANGED <<clock, decisions>> /\ work[c].ml = "PASSED"
        /\ clock \in Nat
    BY DEF CallLlm, At, TraceInv, Traced, TypeOK
  <1>2. CASE Goto(c, "llm") /\ work' = [work EXCEPT ![c].called = clock]
    <2>1. /\ \A d \in Calls \ {c} : work'[d] = work[d]
          /\ work'[c].created = work[c].created /\ work'[c].ml = work[c].ml
          /\ work'[c].called = clock
      BY <1>2 DEF TypeOK, Work
    <2> QED
      BY <1>1, <1>2, <2>1, WorkTraced
  <1>3. CASE Goto(c, "save") /\ work' = [work EXCEPT ![c].llm = "ERROR"]
    <2>1. /\ \A d \in Calls \ {c} : work'[d] = work[d]
          /\ work'[c].created = work[c].created /\ work'[c].llm = "ERROR"
      BY <1>3 DEF TypeOK, Work
    <2>2. Granted(c)'
      BY <2>1 DEF Granted, FinalDecision
    <2> QED
      BY <1>1, <1>3, <2>1, <2>2, WorkTraced
  <1> QED
    BY <1>2, <1>3 DEF CallLlm

LEMMA LlmReturnsTraced ==
    ASSUME NEW c \in Calls, TypeOK, TraceInv, LlmReturns(c)
    PROVE  TraceInv'
  <1>1. /\ calls[c].pc = "llm" /\ UNCHANGED <<clock, decisions>> /\ Goto(c, "save")
        /\ work[c].ml = "PASSED" /\ work[c].called <= clock
    BY DEF LlmReturns, At, TraceInv, Traced
  <1>2. PICK verdict \in {"ALLOW", "VETO", "ERROR"} :
          /\ verdict \in {"ALLOW", "VETO"} => WithinTimeout(c)
          /\ work' = [work EXCEPT ![c].llm = verdict, ![c].ended = clock]
    BY DEF LlmReturns
  <1>3. /\ \A d \in Calls \ {c} : work'[d] = work[d]
        /\ work'[c].created = work[c].created /\ work'[c].ml = work[c].ml
        /\ work'[c].llm = verdict /\ work'[c].ended = clock
        /\ work'[c].called = work[c].called
    BY <1>2 DEF TypeOK, Work
  <1>4. Granted(c)'
    <2>1. CASE verdict = "ERROR"
      BY <1>3, <2>1 DEF Granted, FinalDecision
    <2>2. CASE verdict \in {"ALLOW", "VETO"}
      <3>1. clock \in Nat /\ work[c].called \in Nat /\ LlmTimeout \in Nat
        BY DecisionApiAssumption DEF TypeOK, Work
      <3>2. clock - work[c].called \in 0 .. LlmTimeout
        BY <1>1, <1>2, <2>2, <3>1 DEF WithinTimeout
      <3> QED
        BY <1>1, <1>3, <3>2 DEF Granted
    <2> QED
      BY <2>1, <2>2
  <1> QED
    BY <1>1, <1>3, <1>4, WorkTraced

LEMMA SaveTraced ==
    ASSUME NEW c \in Calls, TypeOK, TraceInv, Save(c)
    PROVE  TraceInv'
  <1> DEFINE item == [hash |-> HashOf(c), response |-> ResponseOf(c)]
  <1>1. calls[c].pc = "save" /\ Traced(c) /\ UNCHANGED <<clock, work>>
    BY DEF Save, At, TraceInv
  <1>2. PICK r \in RequestIds : r = RequestId(c)
    BY <1>1, ItemOfCall
  <1>3. /\ \A d \in Calls \ {c} : calls'[d] = calls[d]
        /\ SameRequest(c) /\ calls'[c].pc \in {"reread", "done"}
    BY FinishFrame, GotoFrame DEF Save, Refuse
  <1>4. CASE UNCHANGED decisions
    BY <1>1, <1>3, <1>4, QuietTraced
  <1>5. CASE decisions' = [decisions EXCEPT ![r] = item]
    <2>1. Traced(c)'
      BY <1>1, <1>3 DEF Traced, SameRequest, Deciding, Granted, FinalDecision
    <2>2. Vouches(c, r)'
      <3>1. RequestId(c)' = r /\ HashOf(c)' = HashOf(c)
        BY <1>2, <1>3 DEF SameRequest, RequestId, HashOf
      <3>2. ResponseOf(c)' = ResponseOf(c) /\ (Granted(c)' <=> Granted(c))
        BY <1>1, <1>2, <3>1 DEF ResponseOf, FinalDecision, Granted
      <3>3. decisions'[r] = item
        BY <1>2, <1>5 DEF TypeOK
      <3> QED
        BY <1>1, <1>3, <3>1, <3>2, <3>3 DEF Traced, Deciding, SameRequest, Vouches
    <2>3. ASSUME NEW q \in RequestIds, q # r, decisions'[q] # None
          PROVE  \E d \in Calls : calls'[d].pc \in {"reread", "done"} /\ Vouches(d, q)'
      <3>1. decisions'[q] = decisions[q]
        BY <1>5, <2>3 DEF TypeOK
      <3>2. PICK d \in Calls : calls[d].pc \in {"reread", "done"} /\ Vouches(d, q)
        BY <2>3, <3>1 DEF TraceInv
      <3>3. SameRequest(d) /\ work'[d] = work[d] /\ calls'[d].pc \in {"reread", "done"}
        BY <1>1, <1>3, <3>2 DEF SameRequest
      <3> QED
        BY <3>1, <3>2, <3>3, SameVouches
    <2>4. \A d \in Calls : Traced(d)'
      BY <1>1, <1>3, <2>1, OthersTraced DEF Others
    <2>5. \E d \in Calls : calls'[d].pc \in {"reread", "done"} /\ Vouches(d, r)'
      BY <1>3, <2>2
    <2>6. \A q \in RequestIds : decisions'[q] # None =>
            \E d \in Calls : calls'[d].pc \in {"reread", "done"} /\ Vouches(d, q)'
      BY <2>3, <2>5
    <2> QED
      BY <2>4, <2>6 DEF TraceInv
  <1> QED
    BY <1>2, <1>4, <1>5 DEF Save

LEMMA DecideStepTraced ==
    ASSUME NEW c \in Calls, TypeOK, TraceInv, DecideStep(c)
    PROVE  TraceInv'
  <1>1. CASE Reread(c)
    BY <1>1, EndTraced DEF Reread, At
  <1> QED
    BY <1>1, LookupTraced, PredictTraced, CallLlmTraced, LlmReturnsTraced, SaveTraced
    DEF DecideStep

LEMMA InitTraced == Init => TraceInv
  <1> SUFFICES ASSUME Init
               PROVE  TraceInv
    OBVIOUS
  <1>1. ASSUME NEW c \in Calls
        PROVE  Traced(c)
    BY DEF Init, SignedInit, Traced, Deciding
  <1> QED
    BY <1>1 DEF Init, TraceInv

LEMMA StepTraced == TypeOK /\ TraceInv /\ [Next]_vars => TraceInv'
  <1> SUFFICES ASSUME TypeOK, TraceInv, [Next]_vars
               PROVE  TraceInv'
    OBVIOUS
  <1>1. ASSUME NEW c \in Calls, NEW m \in Messages, Receive(c, m), UNCHANGED <<decisions, work>>
        PROVE  TraceInv'
    <2>1. /\ \A d \in Calls \ {c} : calls'[d] = calls[d]
          /\ calls[c].pc = "idle" /\ calls'[c].pc \in {"window", "done"}
          /\ calls'[c].started = clock /\ calls'[c].claimed = calls[c].claimed
          /\ UNCHANGED clock /\ clock \in Nat
      BY <1>1 DEF Receive, TypeOK
    <2>2. ~calls[c].claimed
      BY <2>1 DEF TraceInv, Traced, TypeOK
    <2>3. Traced(c)'
      BY <2>1, <2>2 DEF Traced, Deciding
    <2> QED
      BY <1>1, <2>1, <2>3, OneTraced DEF Others
  <1>2. ASSUME UNCHANGED <<calls, decisions, work>>, clock' = clock \/ clock' = clock + 1
        PROVE  TraceInv'
    <2>1. ASSUME NEW c \in Calls
          PROVE  Traced(c)'
      <3>1. clock \in Nat /\ calls[c].started \in Nat /\ work[c].called \in Nat /\ Traced(c)
        BY DEF TypeOK, Work, TraceInv
      <3> QED
        BY <1>2, <3>1 DEF Traced, Granted, FinalDecision
    <2>2. ASSUME NEW r \in RequestIds, decisions'[r] # None
          PROVE  \E d \in Calls : calls'[d].pc \in {"reread", "done"} /\ Vouches(d, r)'
      <3>1. PICK d \in Calls : calls[d].pc \in {"reread", "done"} /\ Vouches(d, r)
        BY <1>2, <2>2 DEF TraceInv
      <3> QED
        BY <1>2, <3>1, SameVouches DEF SameRequest
    <2> QED
      BY <2>1, <2>2 DEF TraceInv
  <1>3. ASSUME NEW n \in Nonces, ExpireNonce(n), UNCHANGED <<decisions, work>>
        PROVE  TraceInv'
    BY <1>2, <1>3 DEF ExpireNonce
  <1>4. Tick \/ UNCHANGED vars => TraceInv'
    BY <1>2 DEF Tick, vars, authVars
  <1> QED
    BY <1>1, <1>3, <1>4, AuthStepTraced, DecideStepTraced DEF Next, ServerStep

(***************************************************************************)
(* Every decision on record is the outcome of one invocation, which had    *)
(* authenticated a message with that very body inside the window; and an   *)
(* approval had an LLM verdict within the provider's timeout.              *)
(***************************************************************************)
THEOREM DecisionsTraceable == Spec => []DecisionsAreTraceable
  <1>1. TraceInv => DecisionsAreTraceable
    <2> SUFFICES ASSUME TraceInv, NEW r \in RequestIds, decisions[r] # None
                 PROVE  \E c \in Calls : Vouches(c, r)
      BY DEF DecisionsAreTraceable, Vouches, Granted, ResponseOf
    <2> QED
      BY DEF TraceInv
  <1> QED
    BY <1>1, InitType, StepType, InitTraced, StepTraced, PTL DEF Spec

-----------------------------------------------------------------------------
(* The decision API implements DecisionRegister.  A put of a decision maps *)
(* to Decide, or to DecideAndTell when it is answered in the same step; an *)
(* answer with a stored decision maps to Tell; all else is a stutter.      *)

Answered(c) == replies[c] # None /\ replies[c].status = "OK"

\* Only c moves, and it has not answered before.
OnlyMoves(c) ==
    /\ replies[c] = None
    /\ \A d \in Calls \ {c} : calls'[d] = calls[d] /\ replies'[d] = replies[d]

ToldMap == [r \in RequestIds |-> Told(r)]

\* A step of one invocation that does not end in a 200 tells nothing.
LEMMA NothingTold ==
    ASSUME NEW c \in Calls, OnlyMoves(c), ~Answered(c)'
    PROVE  UNCHANGED ToldMap
  <1>1. ASSUME NEW r \in RequestIds, NEW x
        PROVE  x \in Told(r)' <=> x \in Told(r)
    <2>1. ~Answered(c)
      BY DEF OnlyMoves, Answered
    <2>2. \A d \in Calls \ {c} : /\ Answered(d)' <=> Answered(d)
                                 /\ RequestId(d)' = RequestId(d)
                                 /\ replies'[d] = replies[d]
      BY DEF OnlyMoves, Answered, RequestId
    <2>3. x \in Told(r) <=> \E d \in Calls : Answered(d) /\ RequestId(d) = r /\ x = replies[d].item
      BY DEF Told, Answered
    <2>4. x \in Told(r)' <=> \E d \in Calls : /\ Answered(d)' /\ RequestId(d)' = r
                                              /\ x = replies'[d].item
      BY DEF Told, Answered
    <2> QED
      BY <2>1, <2>2, <2>3, <2>4
  <1>2. \A r \in RequestIds : Told(r)' = Told(r)
    BY <1>1
  <1> QED
    BY <1>2 DEF ToldMap

\* A step in which one invocation answers with an item tells that item for its request id.
LEMMA OneTold ==
    ASSUME NEW c \in Calls, NEW item, OnlyMoves(c), calls'[c].msg = calls[c].msg,
           RequestId(c) \in RequestIds, replies'[c] = [status |-> "OK", item |-> item],
           replies'[c] # None
    PROVE  ToldMap' = [ToldMap EXCEPT ![RequestId(c)] = @ \cup {item}]
  <1>1. ASSUME NEW r \in RequestIds, NEW x
        PROVE  x \in Told(r)' <=> x \in Told(r) \/ (r = RequestId(c) /\ x = item)
    <2>1. ~Answered(c) /\ Answered(c)' /\ RequestId(c)' = RequestId(c) /\ replies'[c].item = item
      BY DEF OnlyMoves, Answered, RequestId
    <2>2. \A d \in Calls \ {c} : /\ Answered(d)' <=> Answered(d)
                                 /\ RequestId(d)' = RequestId(d)
                                 /\ replies'[d] = replies[d]
      BY DEF OnlyMoves, Answered, RequestId
    <2>3. x \in Told(r) <=> \E d \in Calls : Answered(d) /\ RequestId(d) = r /\ x = replies[d].item
      BY DEF Told, Answered
    <2>4. x \in Told(r)' <=> \E d \in Calls : /\ Answered(d)' /\ RequestId(d)' = r
                                              /\ x = replies'[d].item
      BY DEF Told, Answered
    <2> QED
      BY <2>1, <2>2, <2>3, <2>4
  <1>2. \A r \in RequestIds :
          Told(r)' = IF r = RequestId(c) THEN Told(r) \cup {item} ELSE Told(r)
    BY <1>1
  <1> QED
    BY <1>2 DEF ToldMap

-----------------------------------------------------------------------------
(* What the ways an invocation goes on or ends are to the register. *)

Stutters == UNCHANGED <<decisions, ToldMap>>

LEMMA GotoStutters ==
    ASSUME NEW c \in Calls, NEW step, TypeOK, AuditInv, calls[c].pc # "done",
           Goto(c, step), UNCHANGED replies
    PROVE  UNCHANGED ToldMap
  <1>1. OnlyMoves(c) /\ ~Answered(c)'
    BY DEF Goto, TypeOK, AuditInv, OnlyMoves, Answered
  <1> QED
    BY <1>1, NothingTold

LEMMA RefuseStutters ==
    ASSUME NEW c \in Calls, NEW code \in Errors, TypeOK, AuditInv, calls[c].pc # "done",
           Refuse(c, code)
    PROVE  UNCHANGED ToldMap
  <1>1. OnlyMoves(c)
    BY DEF Refuse, Finish, TypeOK, AuditInv, OnlyMoves
  <1>2. replies'[c].status # "OK"
    BY DEF Refuse, Finish, TypeOK, Errors
  <1> QED
    BY <1>1, <1>2, NothingTold DEF Answered

LEMMA FinishTells ==
    ASSUME NEW c \in Calls, NEW item \in Item, TypeOK, AuditInv,
           calls[c].pc \notin {"idle", "done"}, Finish(c, [status |-> "OK", item |-> item])
    PROVE  ToldMap' = [ToldMap EXCEPT ![RequestId(c)] = @ \cup {item}]
  <1>1. OnlyMoves(c) /\ calls'[c].msg = calls[c].msg
    BY DEF Finish, TypeOK, AuditInv, OnlyMoves
  <1>2. replies'[c] = [status |-> "OK", item |-> item] /\ replies'[c] # None
    BY NoneIsNoReply DEF Finish, TypeOK, Reply
  <1>3. RequestId(c) \in RequestIds
    BY ItemOfCall
  <1> QED
    BY <1>1, <1>2, <1>3, OneTold

LEMMA TellStoredTells ==
    ASSUME NEW c \in Calls, TypeOK, AuditInv, calls[c].pc \notin {"idle", "done"},
           TellStored(c), UNCHANGED decisions
    PROVE  Register!Tell(RequestId(c)) \/ Stutters
  <1> DEFINE item == decisions[RequestId(c)]
  <1>1. CASE item # None /\ item.hash = HashOf(c)
    <2>1. item \in Item
      BY <1>1, ItemOfCall DEF TypeOK
    <2>2. ToldMap' = [ToldMap EXCEPT ![RequestId(c)] = @ \cup {item}]
      BY <1>1, <2>1, FinishTells DEF TellStored
    <2> QED
      BY <1>1, <2>2 DEF Register!Tell, ToldMap
  <1>2. CASE ~(item # None /\ item.hash = HashOf(c))
    <2>1. UNCHANGED ToldMap
      BY <1>2, RefuseStutters DEF TellStored, Errors
    <2> QED
      BY <2>1 DEF Stutters
  <1> QED
    BY <1>1, <1>2

LEMMA SaveEnters ==
    ASSUME NEW c \in Calls, TypeOK, AuditInv, Save(c)
    PROVE  \/ Register!Decide(RequestId(c))
           \/ Register!DecideAndTell(RequestId(c))
           \/ Stutters
  <1> DEFINE r == RequestId(c)
             item == [hash |-> HashOf(c), response |-> ResponseOf(c)]
             Write == decisions' = [decisions EXCEPT ![r] = item]
  <1>1. calls[c].pc = "save" /\ "INTERNAL_ERROR" \in Errors
    BY DEF Save, At, Errors
  <1>2. r \in RequestIds /\ item \in Item
    BY <1>1, ItemOfCall
  <1>3. ASSUME decisions[r] = None, Write
        PROVE  Register!Enter(r) /\ decisions'[r] = item
    <2>1. decisions'[r] = item
      BY <1>2, <1>3 DEF TypeOK
    <2> QED
      BY <1>2, <1>3, <2>1 DEF Register!Enter, Register!Entry, Item
  <1>4. CASE decisions[r] = None /\ Write /\ Finish(c, [status |-> "OK", item |-> item])
    <2>1. ToldMap' = [ToldMap EXCEPT ![r] = @ \cup {item}]
      BY <1>1, <1>2, <1>4, FinishTells
    <2> QED
      BY <1>3, <1>4, <2>1 DEF Register!DecideAndTell, ToldMap
  <1>5. CASE decisions[r] # None /\ Goto(c, "reread") /\ UNCHANGED <<decisions, replies>>
    BY <1>1, <1>5, GotoStutters DEF Stutters
  <1>6. CASE decisions[r] = None /\ Write
             /\ ((Goto(c, "reread") /\ UNCHANGED replies) \/ Refuse(c, "INTERNAL_ERROR"))
    <2>1. UNCHANGED ToldMap
      BY <1>1, <1>6, GotoStutters, RefuseStutters
    <2> QED
      BY <1>3, <1>6, <2>1 DEF Register!Decide, ToldMap
  <1>7. CASE Refuse(c, "INTERNAL_ERROR") /\ UNCHANGED decisions
    BY <1>1, <1>7, RefuseStutters DEF Stutters
  <1> QED
    BY <1>4, <1>5, <1>6, <1>7 DEF Save

LEMMA DecideStepMaps ==
    ASSUME NEW c \in Calls, TypeOK, AuditInv, DecideStep(c)
    PROVE  Register!Next \/ Stutters
  <1>1. calls[c].pc \notin {"idle", "done"} /\ "INTERNAL_ERROR" \in Errors
    BY DEF DecideStep, Lookup, Predict, CallLlm, LlmReturns, Save, Reread, At, Errors
  <1>2. RequestId(c) \in RequestIds
    BY <1>1, ItemOfCall
  <1>3. CASE Lookup(c)
    <2>1. TellStored(c) \/ (\E step : Goto(c, step) /\ UNCHANGED replies)
          \/ Refuse(c, "INTERNAL_ERROR")
      BY <1>3 DEF Lookup
    <2>2. UNCHANGED decisions
      BY <1>3 DEF Lookup
    <2> QED
      BY <1>1, <1>2, <2>1, <2>2, TellStoredTells, GotoStutters, RefuseStutters
      DEF Register!Next, Stutters
  <1>4. CASE Predict(c) \/ CallLlm(c) \/ LlmReturns(c)
    <2>1. \E step : Goto(c, step) /\ UNCHANGED <<replies, decisions>>
      BY <1>4 DEF Predict, CallLlm, LlmReturns
    <2> QED
      BY <1>1, <2>1, GotoStutters DEF Stutters
  <1>5. CASE Save(c)
    BY <1>2, <1>5, SaveEnters DEF Register!Next
  <1>6. CASE Reread(c)
    BY <1>1, <1>2, <1>6, TellStoredTells, RefuseStutters DEF Reread, Register!Next, Stutters
  <1> QED
    BY <1>3, <1>4, <1>5, <1>6 DEF DecideStep

LEMMA AuthStepStutters ==
    ASSUME NEW c \in Calls, TypeOK, AuditInv, AuthStep(c), UNCHANGED decisions
    PROVE  Stutters
  <1>1. calls[c].pc # "done"
    BY DEF AuthStep, CheckWindow, Authenticate, ClaimNonce, RefuseTimestamp, Kill, At
  <1>2. \/ \E code \in Errors : Refuse(c, code)
        \/ \E step : Goto(c, step) /\ UNCHANGED replies
        \/ UNCHANGED replies /\ \A d \in Calls \ {c} : calls'[d] = calls[d]
    BY DEF AuthStep, CheckWindow, Authenticate, ClaimNonce, RefuseTimestamp, Kill, Errors, TypeOK
  <1>3. ASSUME UNCHANGED replies, \A d \in Calls \ {c} : calls'[d] = calls[d]
        PROVE  UNCHANGED ToldMap
    <2>1. OnlyMoves(c) /\ ~Answered(c)'
      BY <1>1, <1>3 DEF AuditInv, OnlyMoves, Answered
    <2> QED
      BY <2>1, NothingTold
  <1> QED
    BY <1>1, <1>2, <1>3, RefuseStutters, GotoStutters DEF Stutters

LEMMA InitMaps == Init => Register!Init
  <1> SUFFICES ASSUME Init
               PROVE  Register!Init
    OBVIOUS
  <1>1. \A r \in RequestIds : Told(r) = {}
    BY DEF Init, SignedInit, Told
  <1> QED
    BY <1>1 DEF Init, Register!Init

LEMMA StepMaps == TypeOK /\ AuditInv /\ [Next]_vars => [Register!Next]_<<decisions, ToldMap>>
  <1> SUFFICES ASSUME TypeOK, AuditInv, [Next]_vars
               PROVE  Register!Next \/ Stutters
    BY DEF Stutters
  <1>1. ASSUME NEW c \in Calls, NEW m \in Messages, Receive(c, m), UNCHANGED <<decisions, work>>
        PROVE  Stutters
    <2>1. OnlyMoves(c)
      BY <1>1 DEF Receive, TypeOK, AuditInv, OnlyMoves
    <2>2. replies'[c] = None \/ replies'[c].status = "BAD_REQUEST"
      BY <1>1, <2>1 DEF Receive, TypeOK, OnlyMoves
    <2> QED
      BY <1>1, <2>1, <2>2, NothingTold DEF Answered, Stutters
  <1>2. ASSUME UNCHANGED <<calls, replies, decisions>>
        PROVE  Stutters
    BY <1>2 DEF Stutters, ToldMap, Told, RequestId
  <1>3. ASSUME NEW n \in Nonces, ExpireNonce(n), UNCHANGED <<decisions, work>>
        PROVE  Stutters
    BY <1>2, <1>3 DEF ExpireNonce
  <1>4. Tick \/ UNCHANGED vars => Stutters
    BY <1>2 DEF Tick, vars, authVars
  <1> QED
    BY <1>1, <1>3, <1>4, AuthStepStutters, DecideStepMaps DEF Next, ServerStep

(***************************************************************************)
(* The API implements the register: one decision per request id, never     *)
(* changed, the same one for every client (DecisionService.decide).        *)
(***************************************************************************)
THEOREM RegisterImplemented == Spec => RegisterSpec
  <1>1. [][Register!Next]_<<decisions, ToldMap>> <=>
        [][Register!Next]_<<decisions, [r \in RequestIds |-> Told(r)]>>
    BY DEF ToldMap
  <1> QED
    BY <1>1, InitType, StepType, InitAuditInv, StepAuditInv, InitMaps, StepMaps, PTL
    DEF Spec, RegisterSpec, Register!Spec

=============================================================================
