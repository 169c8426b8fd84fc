--------------------------- MODULE MonitoringProofs ---------------------------
(***************************************************************************)
(* Proofs about MonitoringApi, for any number of invocations, sources,     *)
(* events and messages and any skew and timeout.                           *)
(***************************************************************************)
EXTENDS MonitoringApi, TLAPS

-----------------------------------------------------------------------------
(* What a message holds, and what the helpers of the handlers return. *)

\* TypeOK does not say that a started invocation has a message; StepType needs it.
TypeInv ==
    /\ TypeOK
    /\ \A c \in Calls : calls[c].pc # "idle" => calls[c].msg \in Messages

\* A message's parts are of their kinds, and it is never mistaken for "no value".
LEMMA MessageParts ==
    ASSUME NEW m \in Messages
    PROVE  /\ m.body \in Bodies /\ m.bodyTs \in Int /\ m.ts \in Int /\ m.nonce \in Nonces
           /\ BodyHash(m) \in Bodies \X Int
           /\ m # None
  BY SignedRequestAssumption DEF Message, BodyHash

\* The body of a started invocation is an event or a heartbeat.
LEMMA BodyParts ==
    ASSUME NEW c \in Calls, TypeInv, calls[c].pc # "idle"
    PROVE  /\ Body(c).source \in Sources
           /\ \/ Body(c).api = "event" /\ Body(c).id \in EventIds
              \/ Body(c).api = "heartbeat"
           /\ calls[c].msg.bodyTs \in Int /\ calls[c].msg.ts \in Int
           /\ calls[c].msg.nonce \in Nonces
           /\ HashOf(c) \in Bodies \X Int
  <1>1. calls[c].msg \in Messages
    BY DEF TypeInv
  <1>2. Body(c) \in EventBody \cup HeartbeatBody
    BY <1>1, MessageParts, MonitoringApiAssumption DEF Body
  <1> QED
    BY <1>1, <1>2, MessageParts DEF EventBody, HeartbeatBody, HashOf

\* The invocations' part of TypeInv.
CallsOK(cs) ==
    /\ cs \in [Calls -> [pc: Steps, msg: Messages \cup {None}, started: Nat, now: Nat,
                         claimed: BOOLEAN]]
    /\ \A c \in Calls : cs[c].pc # "idle" => cs[c].msg \in Messages

LEMMA GotoType ==
    ASSUME NEW c \in Calls, NEW step \in Steps, TypeInv, calls[c].pc # "idle",
           Goto(c, step)
    PROVE  CallsOK(calls')
  BY DEF Goto, TypeInv, TypeOK, CallsOK

LEMMA FinishType ==
    ASSUME NEW c \in Calls, NEW status, [status |-> status] \in Reply, TypeInv,
           calls[c].pc # "idle", Finish(c, [status |-> status])
    PROVE  CallsOK(calls') /\ replies' \in [Calls -> Reply \cup {None}]
  BY DEF Finish, TypeInv, TypeOK, CallsOK, Steps, AuthSteps

LEMMA RefuseType ==
    ASSUME NEW c \in Calls, NEW code \in Errors, TypeInv, calls[c].pc # "idle",
           Refuse(c, code)
    PROVE  CallsOK(calls') /\ replies' \in [Calls -> Reply \cup {None}]
  BY FinishType DEF Refuse, Reply

-----------------------------------------------------------------------------
(* Types *)

LEMMA InitType == Init => TypeInv
  BY SignedRequestAssumption DEF Init, SignedInit, TypeInv, TypeOK, Steps, AuthSteps

LEMMA ReceiveType ==
    ASSUME TypeInv, NEW c \in Calls, NEW m \in Messages, Receive(c, m)
    PROVE  CallsOK(calls') /\ replies' \in [Calls -> Reply \cup {None}]
  <1>1. {"window", "done"} \subseteq Steps
    BY DEF Steps, AuthSteps
  <1>2. CallsOK(calls')
    BY <1>1 DEF Receive, TypeInv, TypeOK, CallsOK
  <1>3. [status |-> "BAD_REQUEST"] \in Reply
    BY DEF Reply, Errors
  <1> QED
    BY <1>2, <1>3 DEF Receive, TypeInv, TypeOK

\* The steps before the handler's own work touch only the nonces, calls and replies.
LEMMA AuthStepType ==
    ASSUME NEW c \in Calls, TypeInv, AuthStep(c)
    PROVE  /\ CallsOK(calls') /\ replies' \in [Calls -> Reply \cup {None}]
           /\ nonces' \in [Nonces -> Int \cup {None}]
           /\ clock' = clock
  <1>1. /\ calls[c].pc # "idle"
        /\ CallsOK(calls) /\ replies \in [Calls -> Reply \cup {None}]
        /\ nonces \in [Nonces -> Int \cup {None}]
    BY DEF AuthStep, CheckWindow, Authenticate, ClaimNonce, RefuseTimestamp, Kill, At,
           TypeInv, TypeOK, CallsOK
  <1>2. /\ {"TIMESTAMP_EXPIRED", "AUTHENTICATION_FAILED", "REPLAY_DETECTED",
            "INTERNAL_ERROR", "SIGNED_TIMESTAMP_MISMATCH"} \subseteq Errors
        /\ {"signature", "claim", "handle", "done"} \subseteq Steps
    BY DEF Errors, Steps, AuthSteps
  <1>3. CASE CheckWindow(c)
    <2>1. CASE calls' = [calls EXCEPT ![c].pc = "signature", ![c].now = clock]
               /\ UNCHANGED replies
      <3>1. CallsOK(calls')
        BY <1>1, <1>2, <2>1, ZenonT(30) DEF CallsOK, TypeInv, TypeOK
      <3> QED
        BY <1>1, <1>3, <2>1, <3>1 DEF CheckWindow
    <2> QED
      BY <1>1, <1>2, <1>3, <2>1, RefuseType DEF CheckWindow
  <1>4. CASE Authenticate(c)
    BY <1>1, <1>2, <1>4, RefuseType, GotoType DEF Authenticate
  <1>5. CASE ClaimNonce(c)
    <2>1. /\ nonces' \in [Nonces -> Int \cup {None}]
          /\ clock' = clock
      <3>1. calls[c].msg.nonce \in Nonces /\ NonceExpiry(calls[c].now) \in Int
        BY <1>1, BodyParts, SignedRequestAssumption DEF NonceExpiry, TypeInv, TypeOK
      <3> QED
        BY <1>1, <1>5, <3>1 DEF ClaimNonce
    <2>2. CASE calls' = [calls EXCEPT ![c].pc = "handle", ![c].claimed = TRUE]
               /\ UNCHANGED replies
      <3>1. CallsOK(calls')
        BY <1>1, <1>2, <2>2, ZenonT(30) DEF CallsOK
      <3> QED
        BY <1>1, <2>1, <2>2, <3>1
    <2>3. CASE \E code \in {"REPLAY_DETECTED", "INTERNAL_ERROR"} : Refuse(c, code)
      BY <1>1, <1>2, <2>1, <2>3, RefuseType
    <2> QED
      BY <1>5, <2>2, <2>3 DEF ClaimNonce
  <1>6. CASE RefuseTimestamp(c)
    BY <1>1, <1>2, <1>6, RefuseType DEF RefuseTimestamp
  <1>7. CASE Kill(c)
    BY <1>1, <1>2, <1>7, GotoType DEF Kill
  <1> QED
    BY <1>3, <1>4, <1>5, <1>6, <1>7 DEF AuthStep

LEMMA HandleStepType ==
    ASSUME NEW c \in Calls, TypeInv, HandleStep(c)
    PROVE  TypeInv'
  <1>1. /\ calls[c].pc # "idle"
        /\ CallsOK(calls) /\ replies \in [Calls -> Reply \cup {None}]
        /\ UNCHANGED <<clock, nonces>>
    BY DEF HandleStep, StoreEvent, CompareEvent, RecordHeartbeat, At, TypeInv, TypeOK, CallsOK
  <1>2. /\ "compare" \in Steps
        /\ {"CONFLICT", "INTERNAL_ERROR"} \subseteq Errors
        /\ \A status \in {"ACCEPTED", "DUPLICATE", "STALE"} : [status |-> status] \in Reply
    BY DEF Errors, Steps, Reply
  <1>3. CallsOK(calls') /\ replies' \in [Calls -> Reply \cup {None}]
    <2>1. CASE Goto(c, "compare") /\ UNCHANGED replies
      BY <1>1, <1>2, <2>1, GotoType
    <2>2. CASE \E status \in {"ACCEPTED", "DUPLICATE", "STALE"} : Finish(c, [status |-> status])
      BY <1>1, <1>2, <2>2, FinishType
    <2>3. CASE \E code \in {"CONFLICT", "INTERNAL_ERROR"} : Refuse(c, code)
      BY <1>1, <1>2, <2>3, RefuseType
    <2> QED
      BY <2>1, <2>2, <2>3 DEF HandleStep, StoreEvent, CompareEvent, RecordHeartbeat, Accept
  <1>4. events' \subseteq EventItem /\ metrics' \subseteq Metric
    <2>1. [call |-> c, at |-> clock] \in Metric
      BY DEF TypeInv, TypeOK, Metric
    <2>2. Body(c).api = "event" => [key |-> EventKey(c), hash |-> HashOf(c)] \in EventItem
      BY <1>1, BodyParts DEF EventItem, EventKey
    <2> QED
      BY <2>1, <2>2 DEF HandleStep, StoreEvent, CompareEvent, RecordHeartbeat, Count,
                        TypeInv, TypeOK
  <1>5. latest' \in [Sources -> Heartbeat \cup {None}]
    <2>1. [ts |-> calls[c].msg.bodyTs, hash |-> HashOf(c)] \in Heartbeat
      BY <1>1, BodyParts DEF Heartbeat
    <2> QED
      BY <2>1 DEF HandleStep, StoreEvent, CompareEvent, RecordHeartbeat, TypeInv, TypeOK
  <1> QED
    BY <1>1, <1>3, <1>4, <1>5 DEF TypeInv, TypeOK, CallsOK

LEMMA StepType == TypeInv /\ [Next]_vars => TypeInv'
  <1> SUFFICES ASSUME TypeInv, [Next]_vars
               PROVE  TypeInv'
    OBVIOUS
  <1>1. ASSUME NEW c \in Calls, NEW m \in Messages,
               Receive(c, m), UNCHANGED <<events, latest, metrics>>
        PROVE  TypeInv'
    BY <1>1, ReceiveType DEF Receive, TypeInv, TypeOK, CallsOK
  <1>2. ASSUME NEW c \in Calls, AuthStep(c), UNCHANGED <<events, latest, metrics>>
        PROVE  TypeInv'
    BY <1>2, AuthStepType DEF TypeInv, TypeOK, CallsOK
  <1>3. ASSUME NEW c \in Calls, HandleStep(c)
        PROVE  TypeInv'
    BY <1>3, HandleStepType
  <1>4. ASSUME NEW n \in Nonces, ExpireNonce(n), UNCHANGED <<events, latest, metrics>>
        PROVE  TypeInv'
    BY <1>4 DEF ExpireNonce, TypeInv, TypeOK
  <1>5. CASE Tick
    BY <1>5 DEF Tick, TypeInv, TypeOK
  <1>6. CASE UNCHANGED vars
    BY <1>6 DEF vars, authVars, TypeInv, TypeOK
  <1> QED
    BY <1>1, <1>2, <1>3, <1>4, <1>5, <1>6 DEF Next

\* In every reachable state every variable holds a value of its kind.
THEOREM TypeCorrect == Spec => []TypeOK
  <1>1. TypeInv => TypeOK
    BY DEF TypeInv
  <1> QED
    BY <1>1, InitType, StepType, PTL DEF Spec

(***************************************************************************)
(* An event on record stays there as it is: only StoreEvent writes, and it *)
(* only adds.                                                              *)
(***************************************************************************)
THEOREM EventsStay == Spec => EventsAppendOnly
  <1>1. [Next]_vars => [events \subseteq events']_vars
    BY DEF Next, vars, authVars, HandleStep, StoreEvent, CompareEvent, RecordHeartbeat, Tick
  <1> QED
    BY <1>1, PTL DEF Spec, EventsAppendOnly

-----------------------------------------------------------------------------
(* The inductive invariant of the safety properties *)

(***************************************************************************)
(* Of an invocation: it has no answer before its end, works only with its  *)
(* nonce claimed, and once past the window check it has read a clock at    *)
(* which its message was fresh.                                            *)
(***************************************************************************)
CallInv ==
    \A c \in Calls :
        /\ calls[c].started <= clock
        /\ calls[c].pc # "done" => replies[c] = None
        /\ calls[c].pc \in {"handle", "compare"} => calls[c].claimed
        /\ calls[c].pc \in {"signature", "claim", "handle", "compare"} =>
             /\ calls[c].started <= calls[c].now
             /\ calls[c].now <= clock
             /\ InWindow(calls[c].now, calls[c].msg.ts)

\* What was counted is on record, so that nothing with its key is written again.
MetricInv ==
    \A m \in metrics :
        /\ calls[m.call].pc # "idle"
        /\ IsEvent(m.call) => Stored(m.call) # {}
        /\ IsHeartbeat(m.call) =>
             /\ latest[Body(m.call).source] # None
             /\ latest[Body(m.call).source].ts >= calls[m.call].msg.bodyTs

Safe ==
    /\ EventsStoredOnce
    /\ LatestHeartbeatIsNewest
    /\ CountedOnce
    /\ StoppedEaFallsSilent

Inv == TypeInv /\ CallInv /\ MetricInv /\ Safe

\* Only invocation c moves: it was not over, and it keeps its message and its claim.
Moves(c) ==
    /\ calls[c].pc # "done"
    /\ calls'[c].pc # "idle"
    /\ calls[c].pc # "idle" => calls'[c].msg = calls[c].msg
    /\ calls[c].claimed => calls'[c].claimed
    /\ \A d \in Calls \ {c} : calls'[d] = calls[d] /\ replies'[d] = replies[d]

\* c answers nothing, or an error.
NoSuccess(c) == \/ replies'[c] = replies[c]
                \/ \E code \in Errors : replies'[c] = [status |-> code]

\* What c answers, if anything; what a Lambda answers with success it puts on record.
Item(c) == [key |-> EventKey(c), hash |-> HashOf(c)]

LEMMA GotoMoves ==
    ASSUME NEW c \in Calls, NEW step \in Steps \ {"idle"}, TypeInv,
           calls[c].pc \notin {"idle", "done"}, Goto(c, step), UNCHANGED replies
    PROVE  Moves(c) /\ NoSuccess(c) /\ calls' = [calls EXCEPT ![c].pc = step]
  BY DEF Goto, Moves, NoSuccess, TypeInv, TypeOK

LEMMA FinishMoves ==
    ASSUME NEW c \in Calls, NEW reply, TypeInv, calls[c].pc \notin {"idle", "done"},
           Finish(c, reply)
    PROVE  /\ Moves(c)
           /\ replies'[c] = reply
           /\ calls' = [calls EXCEPT ![c].pc = "done"]
  BY DEF Finish, Moves, TypeInv, TypeOK

LEMMA RefuseMoves ==
    ASSUME NEW c \in Calls, NEW code \in Errors, TypeInv, calls[c].pc \notin {"idle", "done"},
           Refuse(c, code)
    PROVE  /\ Moves(c) /\ NoSuccess(c)
           /\ calls' = [calls EXCEPT ![c].pc = "done"]
  BY FinishMoves DEF Refuse, NoSuccess

-----------------------------------------------------------------------------
(* CallInv *)

LEMMA MovesCallInv ==
    ASSUME Inv, NEW c \in Calls, Moves(c), UNCHANGED clock,
           calls'[c].started <= clock,
           calls'[c].pc # "done" => replies'[c] = None,
           calls'[c].pc \in {"handle", "compare"} => calls'[c].claimed,
           calls'[c].pc \in {"signature", "claim", "handle", "compare"} =>
               /\ calls'[c].started <= calls'[c].now
               /\ calls'[c].now <= clock
               /\ InWindow(calls'[c].now, calls'[c].msg.ts)
    PROVE  CallInv'
  BY DEF Inv, CallInv, Moves, InWindow

LEMMA ReceiveMoves ==
    ASSUME Inv, NEW c \in Calls, NEW m \in Messages, Receive(c, m)
    PROVE  Moves(c) /\ NoSuccess(c) /\ UNCHANGED clock /\ CallInv'
  <1>1. Moves(c) /\ NoSuccess(c) /\ UNCHANGED clock
    BY DEF Receive, Moves, NoSuccess, Errors, Inv, TypeInv, TypeOK
  <1>2. /\ calls'[c].pc \in {"window", "done"}
        /\ calls'[c].pc # "done" => replies'[c] = None
        /\ calls'[c].started <= clock
    BY DEF Receive, Inv, TypeInv, TypeOK, CallInv
  <1> QED
    BY <1>1, <1>2, MovesCallInv

LEMMA AuthStepMoves ==
    ASSUME Inv, NEW c \in Calls, AuthStep(c)
    PROVE  Moves(c) /\ NoSuccess(c) /\ UNCHANGED clock /\ CallInv'
  <1>1. TypeInv /\ calls[c].pc \notin {"idle", "done"} /\ UNCHANGED clock
    BY DEF AuthStep, CheckWindow, Authenticate, ClaimNonce, RefuseTimestamp, Kill, At, Inv
  <1>2. /\ {"TIMESTAMP_EXPIRED", "AUTHENTICATION_FAILED", "REPLAY_DETECTED",
            "INTERNAL_ERROR", "SIGNED_TIMESTAMP_MISMATCH"} \subseteq Errors
        /\ {"signature", "claim", "handle", "done"} \subseteq Steps \ {"idle"}
    BY DEF Errors, Steps, AuthSteps
  <1>3. CASE \E code \in Errors : Refuse(c, code)
    <2>1. Moves(c) /\ NoSuccess(c) /\ calls' = [calls EXCEPT ![c].pc = "done"]
      BY <1>1, <1>3, RefuseMoves
    <2> QED
      BY <1>1, <2>1, MovesCallInv DEF Inv, CallInv, TypeInv, TypeOK
  <1>4. CASE CheckWindow(c) /\ InWindow(clock, calls[c].msg.ts)
    <2>1. /\ calls'[c].pc = "signature" /\ calls'[c].now = clock
          /\ calls'[c].msg = calls[c].msg /\ calls'[c].started = calls[c].started
          /\ calls'[c].claimed = calls[c].claimed
          /\ \A d \in Calls \ {c} : calls'[d] = calls[d]
          /\ UNCHANGED replies
      BY <1>1, <1>4 DEF CheckWindow, TypeInv, TypeOK
    <2>2. Moves(c) /\ NoSuccess(c)
      BY <1>1, <2>1 DEF Moves, NoSuccess
    <2>3. calls[c].started <= clock /\ replies[c] = None
      BY <1>1 DEF Inv, CallInv
    <2> QED
      BY <1>1, <1>4, <2>1, <2>2, <2>3, MovesCallInv DEF InWindow, TypeInv, TypeOK
  <1>5. CASE Authenticate(c) /\ Goto(c, "claim") /\ UNCHANGED replies
    <2>1. /\ Moves(c) /\ NoSuccess(c)
          /\ calls' = [calls EXCEPT ![c].pc = "claim"]
      BY <1>1, <1>2, <1>5, GotoMoves
    <2> QED
      BY <1>1, <1>5, <2>1, MovesCallInv DEF Authenticate, At, Inv, CallInv, TypeInv, TypeOK
  <1>6. CASE /\ ClaimNonce(c)
             /\ calls' = [calls EXCEPT ![c].pc = "handle", ![c].claimed = TRUE]
             /\ UNCHANGED replies
    <2>1. /\ calls'[c].pc = "handle" /\ calls'[c].now = calls[c].now
          /\ calls'[c].msg = calls[c].msg /\ calls'[c].started = calls[c].started
          /\ calls'[c].claimed = TRUE
          /\ \A d \in Calls \ {c} : calls'[d] = calls[d]
      BY <1>1, <1>6 DEF TypeInv, TypeOK
    <2>2. Moves(c) /\ NoSuccess(c)
      BY <1>1, <1>6, <2>1 DEF Moves, NoSuccess
    <2> QED
      BY <1>1, <1>6, <2>1, <2>2, MovesCallInv DEF ClaimNonce, At, Inv, CallInv
  <1>7. CASE Kill(c)
    <2>1. /\ Moves(c) /\ NoSuccess(c)
          /\ calls' = [calls EXCEPT ![c].pc = "done"]
      BY <1>1, <1>2, <1>7, GotoMoves DEF Kill
    <2> QED
      BY <1>1, <2>1, MovesCallInv DEF Inv, CallInv, TypeInv, TypeOK
  <1> QED
    BY <1>2, <1>3, <1>4, <1>5, <1>6, <1>7
    DEF AuthStep, CheckWindow, Authenticate, ClaimNonce, RefuseTimestamp

-----------------------------------------------------------------------------
(* What a step of the handler does to the records, the answers and the metrics *)

EventsOutcome(c) ==
    /\ \/ events' = events
       \/ Stored(c) = {} /\ calls[c].pc # "idle" /\ events' = events \cup {Item(c)}
    /\ IsEvent(c)' /\ Told(c, "ACCEPTED")' =>
         calls[c].pc # "idle" /\ Stored(c) = {} /\ Item(c) \in events'
    /\ IsEvent(c)' /\ Told(c, "DUPLICATE")' => calls[c].pc # "idle" /\ Item(c) \in events'

\* s: the source of c; ts: the timestamp in the body of its heartbeat.
HeartbeatOutcome(c) ==
    LET s == Body(c).source
        ts == calls[c].msg.bodyTs
    IN  /\ \/ latest' = latest
           \/ /\ IsHeartbeat(c) /\ calls[c].pc = "handle"
              /\ calls[c].msg.ts = ts
              /\ Newer(latest[s], ts)
              /\ latest' = [latest EXCEPT ![s] = [ts |-> ts, hash |-> HashOf(c)]]
        /\ IsHeartbeat(c)' /\ (Told(c, "ACCEPTED")' \/ Told(c, "STALE")') =>
             /\ IsHeartbeat(c)
             /\ calls[c].msg.ts = ts
             /\ latest'[s] # None /\ latest'[s].ts >= ts

MetricsOutcome(c) ==
    /\ \/ metrics' = metrics
       \/ /\ At(c, "handle")
          /\ metrics' = metrics \cup {[call |-> c, at |-> clock]}
          /\ \/ IsEvent(c) /\ Stored(c) = {} /\ Item(c) \in events'
             \/ /\ IsHeartbeat(c) /\ calls[c].msg.bodyTs = calls[c].msg.ts
                /\ Newer(latest[Body(c).source], calls[c].msg.bodyTs)
                /\ latest'[Body(c).source] # None
                /\ latest'[Body(c).source].ts >= calls[c].msg.bodyTs
    /\ Told(c, "ACCEPTED")' /\ (IsEvent(c)' => Body(c)'.rejected) =>
         [call |-> c, at |-> clock] \in metrics'

\* A step that tells no success and leaves the records alone has these outcomes.
LEMMA QuietOutcome ==
    ASSUME Inv, NEW c \in Calls, Moves(c), NoSuccess(c), UNCHANGED <<events, latest, metrics>>
    PROVE  EventsOutcome(c) /\ HeartbeatOutcome(c) /\ MetricsOutcome(c)
  <1>1. ~Told(c, "ACCEPTED")' /\ ~Told(c, "DUPLICATE")' /\ ~Told(c, "STALE")'
    BY DEF Told, NoSuccess, Errors, Moves, Inv, CallInv
  <1> QED
    BY <1>1 DEF EventsOutcome, HeartbeatOutcome, MetricsOutcome

LEMMA StoreEventMoves ==
    ASSUME Inv, NEW c \in Calls, StoreEvent(c)
    PROVE  /\ Moves(c) /\ UNCHANGED clock /\ CallInv'
           /\ EventsOutcome(c) /\ HeartbeatOutcome(c) /\ MetricsOutcome(c)
  <1>1. /\ TypeInv /\ IsEvent(c) /\ ~IsHeartbeat(c) /\ At(c, "handle")
        /\ calls[c].pc \notin {"idle", "done"} /\ replies[c] = None
        /\ UNCHANGED <<clock, nonces, latest>>
    BY DEF StoreEvent, At, IsEvent, IsHeartbeat, Inv, CallInv
  <1>2. /\ {"compare", "done"} \subseteq Steps \ {"idle"} /\ "INTERNAL_ERROR" \in Errors
    BY DEF Errors, Steps, AuthSteps
  <1>3. CASE Accept(c) /\ Stored(c) = {} /\ events' = events \cup {Item(c)}
             /\ IF Body(c).rejected THEN Count(c) ELSE UNCHANGED metrics
    <2>1. /\ Moves(c) /\ replies'[c] = [status |-> "ACCEPTED"]
          /\ calls' = [calls EXCEPT ![c].pc = "done"]
      BY <1>1, <1>3, FinishMoves DEF Accept
    <2>2. CallInv'
      BY <1>1, <2>1, MovesCallInv DEF Inv, CallInv, TypeInv, TypeOK
    <2>3. /\ Body(c)' = Body(c) /\ IsEvent(c)' /\ ~IsHeartbeat(c)'
          /\ ~Told(c, "DUPLICATE")' /\ ~Told(c, "STALE")'
      BY <1>1, <2>1 DEF Moves, Body, IsEvent, IsHeartbeat, Told
    <2>4. Item(c) \in events'
      BY <1>3
    <2> QED
      BY <1>1, <1>3, <2>1, <2>2, <2>3, <2>4
      DEF EventsOutcome, HeartbeatOutcome, MetricsOutcome, Count
  <1>4. CASE /\ \/ Goto(c, "compare") /\ UNCHANGED replies
                \/ Refuse(c, "INTERNAL_ERROR")
             /\ UNCHANGED metrics
             /\ \/ events' = events
                \/ Stored(c) = {} /\ events' = events \cup {Item(c)}
    <2>1. /\ Moves(c) /\ NoSuccess(c)
          /\ \/ calls' = [calls EXCEPT ![c].pc = "compare"] /\ UNCHANGED replies
             \/ calls' = [calls EXCEPT ![c].pc = "done"]
      BY <1>1, <1>2, <1>4, GotoMoves, RefuseMoves
    <2>2. CallInv'
      BY <1>1, <2>1, MovesCallInv DEF At, Inv, CallInv, TypeInv, TypeOK
    <2>3. ~Told(c, "ACCEPTED")' /\ ~Told(c, "DUPLICATE")' /\ ~Told(c, "STALE")'
      BY <1>1, <2>1 DEF Told, NoSuccess, Errors
    <2> QED
      BY <1>1, <1>4, <2>1, <2>2, <2>3 DEF EventsOutcome, HeartbeatOutcome, MetricsOutcome
  <1> QED
    BY <1>3, <1>4 DEF StoreEvent, Item

LEMMA CompareEventMoves ==
    ASSUME Inv, NEW c \in Calls, CompareEvent(c)
    PROVE  /\ Moves(c) /\ UNCHANGED clock /\ CallInv'
           /\ EventsOutcome(c) /\ HeartbeatOutcome(c) /\ MetricsOutcome(c)
  <1>1. /\ TypeInv /\ calls[c].pc \notin {"idle", "done"} /\ replies[c] = None
        /\ UNCHANGED <<clock, nonces, events, latest, metrics>>
    BY DEF CompareEvent, At, Inv, CallInv
  <1>2. CASE \E code \in {"CONFLICT", "INTERNAL_ERROR"} : Refuse(c, code)
    <2>1. {"CONFLICT", "INTERNAL_ERROR"} \subseteq Errors
      BY DEF Errors
    <2>2. /\ Moves(c) /\ NoSuccess(c) /\ calls' = [calls EXCEPT ![c].pc = "done"]
      BY <1>1, <1>2, <2>1, RefuseMoves
    <2>3. CallInv'
      BY <1>1, <2>2, MovesCallInv DEF Inv, CallInv, TypeInv, TypeOK
    <2> QED
      BY <1>1, <2>2, <2>3, QuietOutcome
  <1>3. CASE /\ Finish(c, [status |-> "DUPLICATE"])
             /\ \E e \in Stored(c) : e.hash = HashOf(c)
    <2>1. /\ Moves(c) /\ replies'[c] = [status |-> "DUPLICATE"]
          /\ calls' = [calls EXCEPT ![c].pc = "done"]
      BY <1>1, <1>3, FinishMoves
    <2>2. CallInv'
      BY <1>1, <2>1, MovesCallInv DEF Inv, CallInv, TypeInv, TypeOK
    <2>3. Item(c) \in events
      BY <1>1, <1>3 DEF Stored, Item, TypeInv, TypeOK, EventItem
    <2>4. ~Told(c, "ACCEPTED")' /\ ~Told(c, "STALE")'
      BY <2>1 DEF Told
    <2> QED
      BY <1>1, <2>1, <2>2, <2>3, <2>4 DEF EventsOutcome, HeartbeatOutcome, MetricsOutcome
  <1> QED
    BY <1>2, <1>3 DEF CompareEvent

LEMMA RecordHeartbeatMoves ==
    ASSUME Inv, NEW c \in Calls, RecordHeartbeat(c)
    PROVE  /\ Moves(c) /\ UNCHANGED clock /\ CallInv'
           /\ EventsOutcome(c) /\ HeartbeatOutcome(c) /\ MetricsOutcome(c)
  <1> DEFINE s == Body(c).source
             ts == calls[c].msg.bodyTs
             Wrote == /\ Newer(latest[s], ts)
                      /\ latest' = [latest EXCEPT ![s] = [ts |-> ts, hash |-> HashOf(c)]]
  <1>1. /\ TypeInv /\ ~IsEvent(c) /\ IsHeartbeat(c) /\ At(c, "handle")
        /\ calls[c].pc = "handle" /\ replies[c] = None
        /\ ts = calls[c].msg.ts
        /\ UNCHANGED <<clock, nonces, events>>
    BY DEF RecordHeartbeat, At, IsEvent, IsHeartbeat, Inv, CallInv
  <1>2. s \in Sources /\ ts \in Int /\ HashOf(c) \in Bodies \X Int
    BY <1>1, BodyParts
  <1>3. [ts |-> ts, hash |-> HashOf(c)] # None
    BY <1>2, NoneIsNoHeartbeat DEF Heartbeat
  <1>4. Wrote => latest'[s] # None /\ latest'[s].ts >= ts
    BY <1>1, <1>2, <1>3 DEF TypeInv, TypeOK
  <1>5. ~Newer(latest[s], ts) => latest[s] # None /\ latest[s].ts >= ts
    BY <1>1, <1>2 DEF Newer, TypeInv, TypeOK, Heartbeat
  <1>6. CASE /\ Refuse(c, "INTERNAL_ERROR")
             /\ latest' = latest \/ Wrote
             /\ UNCHANGED metrics
    <2>1. /\ Moves(c) /\ NoSuccess(c) /\ calls' = [calls EXCEPT ![c].pc = "done"]
      BY <1>1, <1>6, RefuseMoves DEF Errors
    <2>2. CallInv'
      BY <1>1, <2>1, MovesCallInv DEF Inv, CallInv, TypeInv, TypeOK
    <2>3. ~Told(c, "ACCEPTED")' /\ ~Told(c, "DUPLICATE")' /\ ~Told(c, "STALE")'
      BY <1>1, <2>1 DEF Told, NoSuccess, Errors
    <2> QED
      BY <1>1, <1>6, <2>1, <2>2, <2>3 DEF EventsOutcome, HeartbeatOutcome, MetricsOutcome
  <1>7. ASSUME NEW status \in {"ACCEPTED", "STALE"},
               Finish(c, [status |-> status]),
               status = "ACCEPTED" => Wrote /\ Count(c),
               status = "STALE" => (Wrote \/ (~Newer(latest[s], ts) /\ UNCHANGED latest))
                                   /\ UNCHANGED metrics
        PROVE  /\ Moves(c) /\ CallInv'
               /\ EventsOutcome(c) /\ HeartbeatOutcome(c) /\ MetricsOutcome(c)
    <2>1. /\ Moves(c) /\ replies'[c] = [status |-> status]
          /\ calls' = [calls EXCEPT ![c].pc = "done"]
      BY <1>1, <1>7, FinishMoves
    <2>2. CallInv'
      BY <1>1, <2>1, MovesCallInv DEF Inv, CallInv, TypeInv, TypeOK
    <2>4. ~IsEvent(c)' /\ ~Told(c, "DUPLICATE")'
      BY <1>1, <2>1 DEF Moves, Body, IsEvent, IsHeartbeat, Told
    <2>5. EventsOutcome(c)
      BY <1>1, <2>4 DEF EventsOutcome
    <2>6. latest'[s] # None /\ latest'[s].ts >= ts
      BY <1>4, <1>5, <1>7
    <2>7. HeartbeatOutcome(c)
      BY <1>1, <1>7, <2>6 DEF HeartbeatOutcome
    <2>8. MetricsOutcome(c)
      BY <1>1, <1>7, <2>1, <2>6 DEF MetricsOutcome, Count, Told
    <2> QED
      BY <2>1, <2>2, <2>5, <2>7, <2>8
  <1> QED
    BY <1>1, <1>6, <1>7 DEF RecordHeartbeat, Accept

LEMMA HandleStepMoves ==
    ASSUME Inv, NEW c \in Calls, HandleStep(c)
    PROVE  /\ Moves(c) /\ UNCHANGED clock /\ CallInv'
           /\ EventsOutcome(c) /\ HeartbeatOutcome(c) /\ MetricsOutcome(c)
  BY StoreEventMoves, CompareEventMoves, RecordHeartbeatMoves DEF HandleStep

-----------------------------------------------------------------------------
(* The invariants, from the outcomes of a step of one invocation *)

\* An invocation that was started keeps what it works on, whoever moves.
LEMMA Persists ==
    ASSUME NEW c \in Calls, Moves(c), NEW d \in Calls, calls[d].pc # "idle"
    PROVE  /\ calls'[d].pc # "idle" /\ calls'[d].msg = calls[d].msg
           /\ calls[d].claimed => calls'[d].claimed
           /\ IsEvent(d)' = IsEvent(d) /\ IsHeartbeat(d)' = IsHeartbeat(d)
           /\ Body(d)' = Body(d) /\ EventKey(d)' = EventKey(d) /\ HashOf(d)' = HashOf(d)
           /\ Item(d)' = Item(d)
  <1>1. calls'[d].pc # "idle" /\ calls'[d].msg = calls[d].msg
    BY DEF Moves
  <1> QED
    BY <1>1 DEF Moves, IsEvent, IsHeartbeat, Body, EventKey, HashOf, Item

LEMMA StoredOnceStep ==
    ASSUME Inv, NEW c \in Calls, Moves(c), EventsOutcome(c)
    PROVE  EventsStoredOnce'
  <1>1. \A d \in Calls, status \in {"ACCEPTED", "DUPLICATE"} :
          IsEvent(d)' /\ Told(d, status)' =>
             /\ calls[d].pc # "idle" /\ IsEvent(d) /\ Item(d) \in events'
             /\ status = "ACCEPTED" =>
                  \/ d = c /\ Stored(c) = {}
                  \/ d # c /\ Told(d, status)
    <2> SUFFICES ASSUME NEW d \in Calls, NEW status \in {"ACCEPTED", "DUPLICATE"},
                        IsEvent(d)', Told(d, status)'
                 PROVE  /\ calls[d].pc # "idle" /\ IsEvent(d) /\ Item(d) \in events'
                        /\ status = "ACCEPTED" =>
                             \/ d = c /\ Stored(c) = {}
                             \/ d # c /\ Told(d, status)
      OBVIOUS
    <2>1. CASE d = c
      BY <2>1, Persists DEF EventsOutcome
    <2>2. CASE d # c
      <3>1. calls'[d] = calls[d] /\ replies'[d] = replies[d]
        BY <2>2 DEF Moves
      <3>2. IsEvent(d) /\ Told(d, status)
        BY <3>1 DEF IsEvent, Body, Told
      <3> QED
        BY <2>2, <3>2 DEF Inv, Safe, EventsStoredOnce, EventsOutcome, Item, IsEvent
    <2> QED
      BY <2>1, <2>2
  <1>2. \A e, f \in events' : e.key = f.key => e = f
    BY DEF Inv, Safe, EventsStoredOnce, EventsOutcome, Stored, Item
  <1>3. \A d \in Calls : IsEvent(d)' /\ (Told(d, "ACCEPTED")' \/ Told(d, "DUPLICATE")') =>
             [key |-> EventKey(d)', hash |-> HashOf(d)'] \in events'
    BY <1>1, Persists DEF Item
  <1>4. ASSUME NEW b \in Calls, NEW d \in Calls, IsEvent(b)', Told(b, "ACCEPTED")',
               IsEvent(d)', Told(d, "ACCEPTED")', EventKey(b)' = EventKey(d)'
        PROVE  b = d
    <2>1. EventKey(b) = EventKey(d)
      BY <1>1, <1>4, Persists
    <2>2. ASSUME NEW x \in Calls, IsEvent(x), x # c, Told(x, "ACCEPTED"),
                 Stored(c) = {}, EventKey(x) = EventKey(c)
          PROVE  FALSE
      <3>1. Item(x) \in events /\ Item(x).key = EventKey(c)
        BY <2>2 DEF Inv, Safe, EventsStoredOnce, Item
      <3> QED
        BY <2>2, <3>1 DEF Stored
    <2>3. CASE b = c /\ d # c
      BY <1>1, <1>4, <2>1, <2>2, <2>3
    <2>4. CASE b # c /\ d = c
      BY <1>1, <1>4, <2>1, <2>2, <2>4
    <2>5. CASE b # c /\ d # c
      BY <1>1, <1>4, <2>1, <2>5 DEF Inv, Safe, EventsStoredOnce
    <2> QED
      BY <2>3, <2>4, <2>5
  <1> QED
    BY <1>2, <1>3, <1>4 DEF EventsStoredOnce

\* The latest heartbeat of a source never gets older.
LEMMA LatestGrows ==
    ASSUME Inv, NEW c \in Calls, HeartbeatOutcome(c),
           NEW s \in Sources, latest[s] # None
    PROVE  latest'[s] # None /\ latest'[s].ts \in Int /\ latest'[s].ts >= latest[s].ts
  <1>1. TypeInv /\ latest[s] \in Heartbeat
    BY DEF Inv, TypeInv, TypeOK
  <1>2. CASE latest' = latest
    BY <1>1, <1>2 DEF Heartbeat
  <1>3. CASE IsHeartbeat(c) /\ Newer(latest[Body(c).source], calls[c].msg.bodyTs)
             /\ latest' = [latest EXCEPT ![Body(c).source] =
                             [ts |-> calls[c].msg.bodyTs, hash |-> HashOf(c)]]
    <2>1. calls[c].msg.bodyTs \in Int /\ HashOf(c) \in Bodies \X Int
      BY <1>1, <1>3, BodyParts DEF IsHeartbeat
    <2>2. [ts |-> calls[c].msg.bodyTs, hash |-> HashOf(c)] # None
      BY <2>1, NoneIsNoHeartbeat DEF Heartbeat
    <2> QED
      BY <1>1, <1>3, <2>1, <2>2 DEF TypeInv, TypeOK, Heartbeat, Newer
  <1> QED
    BY <1>2, <1>3 DEF HeartbeatOutcome

LEMMA HeartbeatStep ==
    ASSUME Inv, TypeInv', NEW c \in Calls, Moves(c), UNCHANGED clock, HeartbeatOutcome(c)
    PROVE  LatestHeartbeatIsNewest'
  <1> TypeInv /\ CallInv /\ LatestHeartbeatIsNewest
    BY DEF Inv, Safe
  <1>1. ASSUME NEW d \in Calls, IsHeartbeat(d)', Told(d, "ACCEPTED")' \/ Told(d, "STALE")'
        PROVE  /\ latest'[Body(d)'.source] # None
               /\ latest'[Body(d)'.source].ts >= calls'[d].msg.ts
    <2>1. CASE d = c
      <3>1. IsHeartbeat(c)
        BY <1>1, <2>1 DEF HeartbeatOutcome
      <3>2. Body(c)' = Body(c) /\ calls'[c].msg = calls[c].msg
        BY <3>1, Persists DEF IsHeartbeat
      <3> QED
        BY <1>1, <2>1, <3>2 DEF HeartbeatOutcome
    <2>2. CASE d # c
      <3>1. calls'[d] = calls[d] /\ replies'[d] = replies[d]
        BY <2>2 DEF Moves
      <3>2. /\ IsHeartbeat(d) /\ (Told(d, "ACCEPTED") \/ Told(d, "STALE"))
            /\ Body(d)' = Body(d)
        BY <1>1, <3>1 DEF IsHeartbeat, Body, Told
      <3>3. Body(d).source \in Sources /\ calls[d].msg.ts \in Int
        BY <3>2, BodyParts DEF IsHeartbeat
      <3>4. latest[Body(d).source] # None /\ latest[Body(d).source].ts >= calls[d].msg.ts
        BY <3>2 DEF LatestHeartbeatIsNewest
      <3>5. latest[Body(d).source].ts \in Int
        BY <3>3, <3>4 DEF TypeInv, TypeOK, Heartbeat
      <3> QED
        BY <3>1, <3>2, <3>3, <3>4, <3>5, LatestGrows
    <2> QED
      BY <2>1, <2>2
  <1>2. ASSUME NEW s \in Sources, latest'[s] # None
        PROVE  /\ latest'[s].ts <= clock' + MaxClockSkew
               /\ \E d \in Calls :
                    /\ IsHeartbeat(d)' /\ calls'[d].claimed
                    /\ Body(d)'.source = s
                    /\ latest'[s] = [ts |-> calls'[d].msg.ts, hash |-> HashOf(d)']
    <2>1. CASE latest'[s] = latest[s]
      <3>1. PICK d \in Calls : /\ IsHeartbeat(d) /\ calls[d].claimed
                               /\ Body(d).source = s
                               /\ latest[s] = [ts |-> calls[d].msg.ts, hash |-> HashOf(d)]
        BY <1>2, <2>1 DEF LatestHeartbeatIsNewest
      <3>2. /\ IsHeartbeat(d)' /\ calls'[d].claimed
            /\ Body(d)'.source = s
            /\ latest'[s] = [ts |-> calls'[d].msg.ts, hash |-> HashOf(d)']
        BY <2>1, <3>1, Persists DEF IsHeartbeat
      <3>3. latest'[s].ts <= clock' + MaxClockSkew
        BY <1>2, <2>1 DEF LatestHeartbeatIsNewest
      <3> QED
        BY <3>2, <3>3
    <2>2. CASE latest'[s] # latest[s]
      <3>1. /\ IsHeartbeat(c) /\ calls[c].pc = "handle" /\ Body(c).source = s
            /\ calls[c].msg.ts = calls[c].msg.bodyTs
            /\ latest'[s] = [ts |-> calls[c].msg.ts, hash |-> HashOf(c)]
        BY <2>2 DEF HeartbeatOutcome, TypeInv, TypeOK
      <3>2. calls[c].claimed /\ calls[c].now <= clock /\ InWindow(calls[c].now, calls[c].msg.ts)
        BY <3>1 DEF CallInv
      <3>3. calls[c].msg.ts \in Int /\ calls[c].now \in Int /\ clock \in Int
            /\ MaxClockSkew \in Int
        BY <3>1, BodyParts, SignedRequestAssumption DEF TypeInv, TypeOK
      <3>4. latest'[s].ts <= clock' + MaxClockSkew
        BY <3>1, <3>2, <3>3 DEF InWindow
      <3>5. /\ IsHeartbeat(c)' /\ calls'[c].claimed
            /\ Body(c)'.source = s
            /\ latest'[s] = [ts |-> calls'[c].msg.ts, hash |-> HashOf(c)']
        BY <3>1, <3>2, Persists DEF IsHeartbeat
      <3> QED
        BY <3>4, <3>5
    <2> QED
      BY <2>1, <2>2
  <1> QED
    BY <1>1, <1>2 DEF LatestHeartbeatIsNewest

\* Where a metric of the next state comes from: an older one, or this step of c.
LEMMA MetricOrigin ==
    ASSUME Inv, NEW c \in Calls, MetricsOutcome(c), NEW m \in metrics', m \notin metrics
    PROVE  /\ m = [call |-> c, at |-> clock] /\ At(c, "handle")
           /\ \/ IsEvent(c) /\ Stored(c) = {} /\ Item(c) \in events'
              \/ /\ IsHeartbeat(c) /\ calls[c].msg.bodyTs = calls[c].msg.ts
                 /\ Newer(latest[Body(c).source], calls[c].msg.bodyTs)
                 /\ latest'[Body(c).source] # None
                 /\ latest'[Body(c).source].ts >= calls[c].msg.bodyTs
  BY DEF MetricsOutcome

LEMMA MetricInvStep ==
    ASSUME Inv, NEW c \in Calls, Moves(c), UNCHANGED clock,
           EventsOutcome(c), HeartbeatOutcome(c), MetricsOutcome(c)
    PROVE  MetricInv'
  <1> SUFFICES ASSUME NEW m \in metrics'
               PROVE  /\ calls'[m.call].pc # "idle"
                      /\ IsEvent(m.call)' => Stored(m.call)' # {}
                      /\ IsHeartbeat(m.call)' =>
                           /\ latest'[Body(m.call)'.source] # None
                           /\ latest'[Body(m.call)'.source].ts >= calls'[m.call].msg.bodyTs
    BY DEF MetricInv
  <1>1. CASE m \in metrics
    <2>1. m.call \in Calls /\ calls[m.call].pc # "idle"
      BY <1>1 DEF Inv, MetricInv, TypeInv, TypeOK, Metric
    <2>2. ASSUME IsEvent(m.call)'
          PROVE  Stored(m.call)' # {}
      <3>1. Stored(m.call) # {}
        BY <1>1, <2>1, <2>2, Persists DEF Inv, MetricInv
      <3> QED
        BY <2>1, <3>1, Persists DEF Stored, EventsOutcome
    <2>3. ASSUME IsHeartbeat(m.call)'
          PROVE  /\ latest'[Body(m.call)'.source] # None
                 /\ latest'[Body(m.call)'.source].ts >= calls'[m.call].msg.bodyTs
      <3>1. /\ IsHeartbeat(m.call)
            /\ latest[Body(m.call).source] # None
            /\ latest[Body(m.call).source].ts >= calls[m.call].msg.bodyTs
        BY <1>1, <2>1, <2>3, Persists DEF Inv, MetricInv
      <3>2. Body(m.call).source \in Sources /\ calls[m.call].msg.bodyTs \in Int
        BY <2>1, BodyParts DEF Inv
      <3>3. latest[Body(m.call).source].ts \in Int
        BY <3>1, <3>2 DEF Inv, TypeInv, TypeOK, Heartbeat
      <3>4. /\ latest'[Body(m.call).source] # None
            /\ latest'[Body(m.call).source].ts \in Int
            /\ latest'[Body(m.call).source].ts >= latest[Body(m.call).source].ts
        BY <3>1, <3>2, LatestGrows
      <3>5. Body(m.call)' = Body(m.call) /\ calls'[m.call].msg = calls[m.call].msg
        BY <2>1, Persists
      <3> QED
        BY <3>1, <3>2, <3>3, <3>4, <3>5
    <2> QED
      BY <2>1, <2>2, <2>3, Persists
  <1>2. CASE m \notin metrics
    <2>1. m.call = c /\ calls[c].pc # "idle"
      BY <1>2, MetricOrigin DEF At
    <2>2. IsEvent(c)' => Stored(c)' # {}
      <3>1. IsEvent(c)' => Item(c) \in events'
        BY <1>2, <2>1, MetricOrigin, Persists DEF IsEvent, IsHeartbeat
      <3>2. Item(c).key = EventKey(c)'
        BY <2>1, Persists DEF Item
      <3> QED
        BY <3>1, <3>2 DEF Stored
    <2>3. IsHeartbeat(c)' =>
            /\ latest'[Body(c)'.source] # None
            /\ latest'[Body(c)'.source].ts >= calls'[c].msg.bodyTs
      BY <1>2, <2>1, MetricOrigin, Persists DEF IsEvent, IsHeartbeat
    <2> QED
      BY <2>1, <2>2, <2>3, Persists
  <1> QED
    BY <1>1, <1>2

\* No two metrics are of one key: the earlier one has left a record that forbids the later.
LEMMA CountedOnceStep ==
    ASSUME Inv, NEW c \in Calls, Moves(c), UNCHANGED clock,
           EventsOutcome(c), HeartbeatOutcome(c), MetricsOutcome(c)
    PROVE  CountedOnce'
  <1> DEFINE Same(m, n) ==
               /\ Body(m.call).api = Body(n.call).api
               /\ Body(m.call).source = Body(n.call).source
               /\ calls[m.call].msg.bodyTs = calls[n.call].msg.bodyTs
               /\ IsEvent(m.call) => EventKey(m.call) = EventKey(n.call)
  <1>1. \A m \in metrics' : m.call \in Calls /\ calls[m.call].pc # "idle"
    BY MetricOrigin DEF At, Inv, MetricInv, TypeInv, TypeOK, Metric
  <1>2. \A m, n \in metrics' : Same(m, n)' => Same(m, n)
    BY <1>1, Persists
  <1>3. ASSUME NEW m \in metrics, NEW n \in metrics', n \notin metrics,
               Same(m, n) \/ Same(n, m)
        PROVE  FALSE
    <2>1. /\ m.call \in Calls /\ calls[m.call].pc # "idle"
          /\ n.call = c /\ calls[c].pc # "idle"
      BY <1>3, MetricOrigin DEF At, Inv, MetricInv, TypeInv, TypeOK, Metric
    <2>2. /\ Body(m.call).api = Body(c).api
          /\ Body(m.call).source = Body(c).source
          /\ calls[m.call].msg.bodyTs = calls[c].msg.bodyTs
      BY <1>3, <2>1
    <2>3. CASE IsEvent(c) /\ Stored(c) = {}
      <3>1. IsEvent(m.call) /\ EventKey(m.call) = EventKey(c)
        BY <1>3, <2>1, <2>2, <2>3 DEF IsEvent
      <3>2. Stored(m.call) # {}
        BY <1>3, <3>1 DEF Inv, MetricInv
      <3> QED
        BY <2>3, <3>1, <3>2 DEF Stored
    <2>4. CASE IsHeartbeat(c) /\ Newer(latest[Body(c).source], calls[c].msg.bodyTs)
      <3>1. IsHeartbeat(m.call)
        BY <2>1, <2>2, <2>4 DEF IsHeartbeat
      <3>2. /\ latest[Body(c).source] # None
            /\ latest[Body(c).source].ts >= calls[c].msg.bodyTs
        BY <1>3, <2>2, <3>1 DEF Inv, MetricInv
      <3>3. Body(c).source \in Sources /\ calls[c].msg.bodyTs \in Int
        BY <2>1, BodyParts DEF Inv
      <3>4. latest[Body(c).source].ts \in Int
        BY <3>2, <3>3 DEF Inv, TypeInv, TypeOK, Heartbeat
      <3> QED
        BY <2>4, <3>2, <3>3, <3>4 DEF Newer
    <2> QED
      BY <1>3, <2>3, <2>4, MetricOrigin
  <1>4. \A m, n \in metrics' : Same(m, n)' => m = n
    <2> SUFFICES ASSUME NEW m \in metrics', NEW n \in metrics', Same(m, n)
                 PROVE  m = n
      BY <1>2
    <2>1. CASE m \in metrics /\ n \in metrics
      BY <2>1 DEF Inv, Safe, CountedOnce
    <2>2. CASE m \notin metrics /\ n \notin metrics
      BY <2>2, MetricOrigin
    <2>3. CASE m \in metrics /\ n \notin metrics
      BY <1>3, <2>3
    <2>4. CASE m \notin metrics /\ n \in metrics
      BY <1>3, <2>4
    <2> QED
      BY <2>1, <2>2, <2>3, <2>4
  <1>5. ASSUME NEW d \in Calls, Told(d, "ACCEPTED")', IsEvent(d)' => Body(d)'.rejected
        PROVE  \E m \in metrics' : m.call = d
    <2>1. CASE d = c
      BY <1>5, <2>1 DEF MetricsOutcome
    <2>2. CASE d # c
      <3>1. calls'[d] = calls[d] /\ replies'[d] = replies[d]
        BY <2>2 DEF Moves
      <3>2. Told(d, "ACCEPTED") /\ (IsEvent(d) => Body(d).rejected)
        BY <1>5, <3>1 DEF Told, IsEvent, Body
      <3> QED
        BY <3>2 DEF Inv, Safe, CountedOnce, MetricsOutcome
    <2> QED
      BY <2>1, <2>2
  <1> QED
    BY <1>4, <1>5 DEF CountedOnce

\* The lifetime of an invocation and the skew bound the age of what it counts.
LEMMA SilenceStep ==
    ASSUME Inv, NEW c \in Calls, Moves(c), UNCHANGED clock,
           EventsOutcome(c), MetricsOutcome(c)
    PROVE  StoppedEaFallsSilent'
  <1> SUFFICES ASSUME NEW m \in metrics', IsHeartbeat(m.call)'
               PROVE  m.at - calls'[m.call].msg.ts <= MaxClockSkew + LambdaTimeout
    BY DEF StoppedEaFallsSilent
  <1>1. CASE m \in metrics
    <2>1. m.call \in Calls /\ calls[m.call].pc # "idle"
      BY <1>1 DEF Inv, MetricInv, TypeInv, TypeOK, Metric
    <2> QED
      BY <1>1, <2>1, Persists DEF Inv, Safe, StoppedEaFallsSilent
  <1>2. CASE m \notin metrics
    <2>1. m = [call |-> c, at |-> clock] /\ calls[c].pc = "handle"
          /\ clock - calls[c].started <= LambdaTimeout
      BY <1>2, MetricOrigin DEF At
    <2>2. calls[c].started <= calls[c].now /\ calls[c].now - calls[c].msg.ts <= MaxClockSkew
      BY <2>1 DEF Inv, CallInv, InWindow
    <2>3. calls'[c].msg = calls[c].msg /\ calls[c].msg.ts \in Int
      BY <2>1, Persists, BodyParts DEF Inv
    <2>4. clock \in Int /\ calls[c].started \in Int /\ calls[c].now \in Int
          /\ MaxClockSkew \in Int /\ LambdaTimeout \in Int
      BY SignedRequestAssumption DEF Inv, TypeInv, TypeOK
    <2> QED
      BY <2>1, <2>2, <2>3, <2>4
  <1> QED
    BY <1>1, <1>2

LEMMA OneCallStep ==
    ASSUME Inv, TypeInv', NEW c \in Calls, Moves(c), UNCHANGED clock, CallInv',
           EventsOutcome(c), HeartbeatOutcome(c), MetricsOutcome(c)
    PROVE  Inv'
  BY StoredOnceStep, HeartbeatStep, MetricInvStep, CountedOnceStep, SilenceStep
  DEF Inv, Safe

-----------------------------------------------------------------------------
(* The theorems *)

LEMMA InitInv == Init => Inv
  <1> SUFFICES ASSUME Init
               PROVE  Inv
    OBVIOUS
  <1>1. TypeInv
    BY InitType
  <1>2. CallInv
    <2>1. ASSUME NEW c \in Calls
          PROVE  calls[c].pc = "idle" /\ calls[c].started <= clock /\ replies[c] = None
      BY DEF Init, SignedInit
    <2> QED
      BY <2>1 DEF CallInv
  <1>3. MetricInv /\ Safe
    BY DEF Init, SignedInit, MetricInv, Safe, EventsStoredOnce, LatestHeartbeatIsNewest,
           CountedOnce, StoppedEaFallsSilent, Told
  <1> QED
    BY <1>1, <1>2, <1>3 DEF Inv

\* A step that leaves the invocations and the records alone, as time passes.
LEMMA FrameStep ==
    ASSUME Inv, TypeInv', clock' >= clock, UNCHANGED <<calls, replies, events, latest, metrics>>
    PROVE  Inv'
  <1> USE DEF Body, EventKey, HashOf, IsEvent, IsHeartbeat, Told, Stored
  <1>1. clock \in Int /\ clock' \in Int /\ MaxClockSkew \in Int
    BY SignedRequestAssumption DEF Inv, TypeInv, TypeOK
  <1>2. CallInv'
    BY <1>1 DEF Inv, CallInv, InWindow, TypeInv, TypeOK
  <1>3. MetricInv' /\ EventsStoredOnce' /\ CountedOnce' /\ StoppedEaFallsSilent'
    <2>1. MetricInv'
      BY Zenon DEF Inv, MetricInv
    <2>2. EventsStoredOnce'
      BY Zenon DEF Inv, Safe, EventsStoredOnce
    <2>3. CountedOnce'
      BY SMTT(30) DEF Inv, Safe, CountedOnce
    <2>4. StoppedEaFallsSilent'
      BY Zenon DEF Inv, Safe, StoppedEaFallsSilent
    <2> QED BY <2>1, <2>2, <2>3, <2>4
  <1>4. LatestHeartbeatIsNewest'
    <2>1. \A s \in Sources : latest[s] # None => latest[s].ts \in Int
      BY DEF Inv, TypeInv, TypeOK, Heartbeat
    <2> QED
      BY <1>1, <2>1 DEF Inv, Safe, LatestHeartbeatIsNewest
  <1> QED
    BY <1>2, <1>3, <1>4 DEF Inv, Safe

LEMMA StepInv == Inv /\ [Next]_vars => Inv'
  <1> SUFFICES ASSUME Inv, [Next]_vars
               PROVE  Inv'
    OBVIOUS
  <1>1. TypeInv'
    BY StepType DEF Inv
  <1>2. clock \in Nat
    BY DEF Inv, TypeInv, TypeOK
  <1>3. ASSUME NEW c \in Calls, NEW m \in Messages,
               Receive(c, m), UNCHANGED <<events, latest, metrics>>
        PROVE  Inv'
    BY <1>1, <1>3, ReceiveMoves, QuietOutcome, OneCallStep
  <1>4. ASSUME NEW c \in Calls, AuthStep(c), UNCHANGED <<events, latest, metrics>>
        PROVE  Inv'
    BY <1>1, <1>4, AuthStepMoves, QuietOutcome, OneCallStep
  <1>5. ASSUME NEW c \in Calls, HandleStep(c)
        PROVE  Inv'
    BY <1>1, <1>5, HandleStepMoves, OneCallStep
  <1>6. ASSUME NEW n \in Nonces, ExpireNonce(n), UNCHANGED <<events, latest, metrics>>
        PROVE  Inv'
    BY <1>1, <1>2, <1>6, FrameStep DEF ExpireNonce
  <1>7. CASE Tick
    BY <1>1, <1>2, <1>7, FrameStep DEF Tick
  <1>8. CASE UNCHANGED vars
    BY <1>1, <1>2, <1>8, FrameStep DEF vars, authVars
  <1> QED
    BY <1>3, <1>4, <1>5, <1>6, <1>7, <1>8 DEF Next

\* The inductive invariant holds in every reachable state.
LEMMA InvHolds == Spec => []Inv
  BY InitInv, StepInv, PTL DEF Spec

(***************************************************************************)
(* One event per key, and what was acknowledged is that event: the         *)
(* conditional put and the consistent read after a refused one.            *)
(***************************************************************************)
THEOREM AuditLogIsSound == Spec => []EventsStoredOnce
  <1>1. Inv => EventsStoredOnce
    BY DEF Inv, Safe
  <1> QED
    BY <1>1, InvHolds, PTL

(***************************************************************************)
(* A risk rejection and a heartbeat are counted once, because what was     *)
(* counted is on record and forbids a second write of its key.             *)
(***************************************************************************)
THEOREM MetricsCountOnce == Spec => []CountedOnce
  <1>1. Inv => CountedOnce
    BY DEF Inv, Safe
  <1> QED
    BY <1>1, InvHolds, PTL

(***************************************************************************)
(* The latest heartbeat is at least as new as any that was answered, and   *)
(* no further ahead of the servers than the skew.                          *)
(***************************************************************************)
THEOREM LatestIsNewest == Spec => []LatestHeartbeatIsNewest
  <1>1. Inv => LatestHeartbeatIsNewest
    BY DEF Inv, Safe
  <1> QED
    BY <1>1, InvHolds, PTL

(***************************************************************************)
(* A heartbeat that lingered on the network is refused: what is counted is *)
(* no older than the skew and the lifetime of an invocation.               *)
(***************************************************************************)
THEOREM StopAlarmFires == Spec => []StoppedEaFallsSilent
  <1>1. Inv => StoppedEaFallsSilent
    BY DEF Inv, Safe
  <1> QED
    BY <1>1, InvHolds, PTL

\* The latest heartbeat of a source is never replaced by an older one, nor removed.
THEOREM HeartbeatsAdvance ==
    Spec => [][\A s \in Sources : latest[s] # None =>
                  latest'[s] # None /\ latest'[s].ts >= latest[s].ts]_vars
  <1> DEFINE Advances == \A s \in Sources : latest[s] # None =>
                            latest'[s] # None /\ latest'[s].ts >= latest[s].ts
  <1>1. ASSUME Inv, [Next]_vars
        PROVE  [Advances]_vars
    <2>1. ASSUME UNCHANGED latest
          PROVE  Advances
      BY <1>1, <2>1 DEF Inv, TypeInv, TypeOK, Heartbeat
    <2>2. ASSUME NEW c \in Calls, HandleStep(c)
          PROVE  Advances
      BY <1>1, <2>2, HandleStepMoves, LatestGrows
    <2>3. \/ UNCHANGED latest
          \/ \E c \in Calls : HandleStep(c)
      BY <1>1 DEF Next, Tick, vars
    <2> QED
      BY <2>1, <2>2, <2>3
  <1> QED
    BY <1>1, InvHolds, PTL DEF Spec

-----------------------------------------------------------------------------
(* The reach of the documents' promise about event ids *)

\* An event on record is that of a message, key and hash.
EventsAreSent ==
    \A e \in events : \E m \in Messages :
        /\ m.body.api = "event"
        /\ e.key = [source |-> m.body.source, ts |-> m.bodyTs, id |-> m.body.id]
        /\ e.hash = BodyHash(m)

LEMMA StepSent == TypeInv /\ EventsAreSent /\ [Next]_vars => EventsAreSent'
  <1> SUFFICES ASSUME TypeInv, EventsAreSent, [Next]_vars
               PROVE  EventsAreSent'
    OBVIOUS
  <1>1. ASSUME NEW c \in Calls, StoreEvent(c), events' # events
        PROVE  EventsAreSent'
    <2>1. /\ calls[c].msg \in Messages /\ calls[c].msg.body.api = "event"
          /\ events' = events \cup {[key |-> EventKey(c), hash |-> HashOf(c)]}
      BY <1>1 DEF StoreEvent, At, TypeInv, Body
    <2>2. ASSUME NEW e \in events'
          PROVE  \E m \in Messages :
                    /\ m.body.api = "event"
                    /\ e.key = [source |-> m.body.source, ts |-> m.bodyTs, id |-> m.body.id]
                    /\ e.hash = BodyHash(m)
      <3>1. CASE e \in events
        BY <3>1 DEF EventsAreSent
      <3>2. CASE e = [key |-> EventKey(c), hash |-> HashOf(c)]
        BY <2>1, <3>2 DEF EventKey, HashOf, Body
      <3> QED
        BY <2>1, <3>1, <3>2
    <2> QED
      BY <2>2 DEF EventsAreSent
  <1>2. \/ UNCHANGED events
        \/ \E c \in Calls : StoreEvent(c)
    BY DEF Next, vars, authVars, HandleStep, CompareEvent, RecordHeartbeat, Tick
  <1> QED
    BY <1>1, <1>2 DEF EventsAreSent

(***************************************************************************)
(* The documents promise a 409 for an event id that comes back with        *)
(* another body.  The promise holds as long as an id never comes back      *)
(* under another timestamp: the run event_id_reuse needs two.              *)
(***************************************************************************)
THEOREM OneTimestampOneEvent ==
    ASSUME \A m, n \in Messages :
              /\ m.body.api = "event" /\ n.body.api = "event"
              /\ m.body.source = n.body.source /\ m.body.id = n.body.id
              => m.bodyTs = n.bodyTs
    PROVE  Spec => []EventIdNamesOneEvent
  <1>1. Init => EventsAreSent
    BY DEF Init, EventsAreSent
  <1>2. Inv => TypeInv
    BY DEF Inv
  <1>3. ASSUME Inv, EventsAreSent
        PROVE  EventIdNamesOneEvent
    <2> SUFFICES ASSUME NEW e \in events, NEW f \in events,
                        e.key.source = f.key.source, e.key.id = f.key.id
                 PROVE  e = f
      BY DEF EventIdNamesOneEvent
    <2>1. PICK m \in Messages :
             /\ m.body.api = "event"
             /\ e.key = [source |-> m.body.source, ts |-> m.bodyTs, id |-> m.body.id]
      BY <1>3 DEF EventsAreSent
    <2>2. PICK n \in Messages :
             /\ n.body.api = "event"
             /\ f.key = [source |-> n.body.source, ts |-> n.bodyTs, id |-> n.body.id]
      BY <1>3 DEF EventsAreSent
    <2>3. e.key = f.key
      BY <2>1, <2>2
    <2> QED
      BY <1>3, <2>3 DEF Inv, Safe, EventsStoredOnce
  <1> QED
    BY <1>1, <1>2, <1>3, StepSent, InvHolds, PTL DEF Spec

=============================================================================
