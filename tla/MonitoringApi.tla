---------------------------- MODULE MonitoringApi ----------------------------
(***************************************************************************)
(* POST /v1/trade-events and POST /v1/heartbeats: the audit events and the *)
(* signs of life of the trading EAs (telemetry_handler.lambda_handler,     *)
(* heartbeat_handler.lambda_handler).  Both share the table of nonces with *)
(* each other and are at most one write after the claim: an event is       *)
(* stored once per key, and one latest heartbeat is kept per source.       *)
(***************************************************************************)
EXTENDS SignedRequest

CONSTANTS
    Sources,     \* source_id: environment, key and EA
    EventIds     \* the event_id that an event's body carries is one of these

\* A heartbeat's own id is never used but to be echoed; rejected: a risk rejection.
EventBody == [api: {"event"}, source: Sources, id: EventIds, rejected: BOOLEAN]
HeartbeatBody == [api: {"heartbeat"}, source: Sources]

ASSUME MonitoringApiAssumption == Bodies \subseteq EventBody \cup HeartbeatBody

VARIABLES
    events,    \* the SOURCE#/EVENT# items
    latest,    \* the HEARTBEAT#/LATEST item of each source, or None
    metrics    \* history: the RiskRejectedCount and HeartbeatReceivedCount emitted

vars == <<authVars, events, latest, metrics>>

Body(c) == calls[c].msg.body
EventKey(c) == [source |-> Body(c).source, ts |-> calls[c].msg.bodyTs, id |-> Body(c).id]
HashOf(c) == BodyHash(calls[c].msg)

EventItem == [key: [source: Sources, ts: Int, id: EventIds], hash: Bodies \X Int]
Heartbeat == [ts: Int, hash: Bodies \X Int]
Metric == [call: Calls, at: Nat]

ASSUME NoneIsNoHeartbeat == None \notin Heartbeat

Reply == [status: Errors \cup {"ACCEPTED", "DUPLICATE", "STALE"}]
Steps == AuthSteps \cup {"handle", "compare"}

Init ==
    /\ SignedInit
    /\ events = {}
    /\ latest = [s \in Sources |-> None]
    /\ metrics = {}

-----------------------------------------------------------------------------

Stored(c) == {e \in events : e.key = EventKey(c)}

AcceptAsOk(c) == Finish(c, [status |-> "OK"])

Accept(c) == Finish(c, [status |-> "ACCEPTED"])

\* emit_emf runs in the handler's finally, with nothing in between that may fail.
Count(c) == metrics' = metrics \cup {[call |-> c, at |-> clock]}

StoreEventUnconditionally(c) ==
    /\ At(c, "handle")
    /\ Body(c).api = "event"
    /\ events' = (events \ Stored(c)) \cup {[key |-> EventKey(c), hash |-> HashOf(c)]}
    /\ Accept(c)
    /\ IF Body(c).rejected THEN Count(c) ELSE UNCHANGED metrics
    /\ UNCHANGED <<clock, nonces, latest>>

(***************************************************************************)
(* The conditional put of an event: stored, refused because an item has    *)
(* the key, stored with its acknowledgement lost (the AWS client gives up, *)
(* or retries and is refused by its own item), or failed without effect.   *)
(***************************************************************************)
StoreEvent(c) ==
    LET Write == events' = events \cup {[key |-> EventKey(c), hash |-> HashOf(c)]}
    IN  /\ At(c, "handle")
        /\ Body(c).api = "event"
        /\ calls[c].msg.bodyTs = calls[c].msg.ts
        /\ \/ /\ Stored(c) = {}
              /\ Write
              /\ Accept(c)
              /\ IF Body(c).rejected THEN Count(c) ELSE UNCHANGED metrics
           \/ /\ Stored(c) # {}
              /\ Goto(c, "compare")
              /\ UNCHANGED <<events, metrics, replies>>
           \/ /\ Stored(c) = {}
              /\ Write
              /\ \/ Goto(c, "compare") /\ UNCHANGED replies
                 \/ Refuse(c, "INTERNAL_ERROR")
              /\ UNCHANGED metrics
           \/ /\ Refuse(c, "INTERNAL_ERROR")
              /\ UNCHANGED <<events, metrics>>
        /\ UNCHANGED <<clock, nonces, latest>>

CompareEventLeniently(c) ==
    /\ At(c, "compare")
    /\ Finish(c, [status |-> "DUPLICATE"])
    /\ UNCHANGED <<clock, nonces, events, latest, metrics>>

\* The consistent read after a refused put: a resend is a duplicate, not a new event.
CompareEvent(c) ==
    /\ At(c, "compare")
    /\ \/ IF \E e \in Stored(c) : e.hash = HashOf(c)
          THEN Finish(c, [status |-> "DUPLICATE"])
          ELSE Refuse(c, "CONFLICT")
       \/ Refuse(c, "INTERNAL_ERROR")
    /\ UNCHANGED <<clock, nonces, events, latest, metrics>>

NewerOrEqual(old, ts) == old # None => old.ts <= ts

\* attribute_not_exists(pk) OR last_heartbeat_epoch < :epoch
Newer(old, ts) == old # None => old.ts < ts

(***************************************************************************)
(* The conditional put of the latest heartbeat, with the same failures.  A *)
(* lost acknowledgement makes the AWS client's retry find its own item,    *)
(* which is not older: STALE, and nothing is counted.                      *)
(***************************************************************************)
RecordHeartbeat(c) ==
    LET s == Body(c).source
        ts == calls[c].msg.bodyTs
        Write == latest' = [latest EXCEPT ![s] = [ts |-> ts, hash |-> HashOf(c)]]
    IN  /\ At(c, "handle")
        /\ Body(c).api = "heartbeat"
        /\ ts = calls[c].msg.ts
        /\ \/ /\ Newer(latest[s], ts)
              /\ Write
              /\ Accept(c)
              /\ Count(c)
           \/ /\ ~Newer(latest[s], ts)
              /\ Finish(c, [status |-> "STALE"])
              /\ UNCHANGED <<latest, metrics>>
           \/ /\ Newer(latest[s], ts)
              /\ Write
              /\ Finish(c, [status |-> "STALE"]) \/ Refuse(c, "INTERNAL_ERROR")
              /\ UNCHANGED metrics
           \/ /\ Refuse(c, "INTERNAL_ERROR")
              /\ UNCHANGED <<latest, metrics>>
        /\ UNCHANGED <<clock, nonces, events>>

Tick ==
    /\ clock < MaxClock
    /\ clock' = clock + 1
    /\ UNCHANGED <<nonces, calls, replies, events, latest, metrics>>

HandleStep(c) == StoreEvent(c) \/ CompareEvent(c) \/ RecordHeartbeat(c)

Next ==
    \/ \E c \in Calls, m \in Messages : Receive(c, m) /\ UNCHANGED <<events, latest, metrics>>
    \/ \E c \in Calls : AuthStep(c) /\ UNCHANGED <<events, latest, metrics>>
    \/ \E c \in Calls : HandleStep(c)
    \/ \E n \in Nonces : ExpireNonce(n) /\ UNCHANGED <<events, latest, metrics>>
    \/ Tick

Spec == Init /\ [][Next]_vars

-----------------------------------------------------------------------------
(* Properties *)

\* Every variable holds a value of the kind the code keeps there.
TypeOK ==
    /\ clock \in Nat
    /\ nonces \in [Nonces -> Int \cup {None}]
    /\ calls \in [Calls -> [pc: Steps, msg: Messages \cup {None}, started: Nat, now: Nat,
                            claimed: BOOLEAN]]
    /\ replies \in [Calls -> Reply \cup {None}]
    /\ events \subseteq EventItem
    /\ latest \in [Sources -> Heartbeat \cup {None}]
    /\ metrics \subseteq Metric

IsEvent(c) == calls[c].pc # "idle" /\ Body(c).api = "event"
IsHeartbeat(c) == calls[c].pc # "idle" /\ Body(c).api = "heartbeat"
Told(c, status) == replies[c] # None /\ replies[c].status = status

(***************************************************************************)
(* The audit log holds one event per key at most, an event that was        *)
(* acknowledged is in it word for word whatever its racing duplicates,     *)
(* crashes and lost acknowledgements, and ACCEPTED is told at most once    *)
(* per key (save_trade_event, telemetry lambda_handler).                   *)
(***************************************************************************)
EventsStoredOnce ==
    /\ \A e, f \in events : e.key = f.key => e = f
    /\ \A c \in Calls :
         IsEvent(c) /\ (Told(c, "ACCEPTED") \/ Told(c, "DUPLICATE")) =>
             [key |-> EventKey(c), hash |-> HashOf(c)] \in events
    /\ \A c, d \in Calls :
         /\ IsEvent(c) /\ Told(c, "ACCEPTED")
         /\ IsEvent(d) /\ Told(d, "ACCEPTED")
         /\ EventKey(c) = EventKey(d)
         => c = d

\* An event on record stays there as it is: the log is append-only.
EventsAppendOnly == [][events \subseteq events']_vars

(***************************************************************************)
(* The metrics that the alarms watch count a risk rejection once, and a    *)
(* heartbeat timestamp of one EA once, however often its message is        *)
(* duplicated or resent; and what was ACCEPTED was counted                 *)
(* (RiskRejectedCount, HeartbeatReceivedCount).                            *)
(***************************************************************************)
CountedOnce ==
    /\ \A m, n \in metrics :
         /\ Body(m.call).api = Body(n.call).api
         /\ Body(m.call).source = Body(n.call).source
         /\ calls[m.call].msg.bodyTs = calls[n.call].msg.bodyTs
         /\ IsEvent(m.call) => EventKey(m.call) = EventKey(n.call)
         => m = n
    /\ \A c \in Calls :
         Told(c, "ACCEPTED") /\ (IsEvent(c) => Body(c).rejected) =>
             \E m \in metrics : m.call = c

(***************************************************************************)
(* The latest heartbeat of a source is at least as new as every heartbeat  *)
(* that was answered, stamped by the EA itself inside an authenticated     *)
(* message, and never further ahead of the servers than the allowed skew:  *)
(* an EA whose clock was set back to right is STALE for that long at most  *)
(* (record_heartbeat).                                                     *)
(***************************************************************************)
LatestHeartbeatIsNewest ==
    /\ \A c \in Calls :
         IsHeartbeat(c) /\ (Told(c, "ACCEPTED") \/ Told(c, "STALE")) =>
             /\ latest[Body(c).source] # None
             /\ latest[Body(c).source].ts >= calls[c].msg.ts
    /\ \A s \in Sources : latest[s] # None =>
         /\ latest[s].ts <= clock + MaxClockSkew
         /\ \E c \in Calls : /\ IsHeartbeat(c) /\ calls[c].claimed
                             /\ Body(c).source = s
                             /\ latest[s] = [ts |-> calls[c].msg.ts, hash |-> HashOf(c)]

(***************************************************************************)
(* A heartbeat that is counted was stamped by the EA no longer ago than    *)
(* the allowed skew and the lifetime of an invocation: a stopped EA cannot *)
(* be kept alive in the metric by messages that linger in the network, so  *)
(* that the stop alarm, which treats missing data as breaching, fires.     *)
(***************************************************************************)
StoppedEaFallsSilent ==
    \A m \in metrics :
        IsHeartbeat(m.call) => m.at - calls[m.call].msg.ts <= MaxClockSkew + LambdaTimeout

(***************************************************************************)
(* docs/api-spec.md:52 and docs/operations.md:35 say that an event id that *)
(* comes back with another body is a 409: two accepted events of one       *)
(* source with the same id would have the same body.                       *)
(***************************************************************************)
EventIdNamesOneEvent ==
    \A e, f \in events :
        e.key.source = f.key.source /\ e.key.id = f.key.id => e.hash = f.hash

=============================================================================
