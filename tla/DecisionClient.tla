--------------------------- MODULE DecisionClient ---------------------------
(***************************************************************************)
(* The trading EA as a client of the decision API (CDecisionApiClient and  *)
(* CDecisionResponseParser::Validate).  For each trade candidate it draws  *)
(* a fresh request id and nonce, blocks in one WebRequest, and turns every *)
(* outcome but a valid ALLOW into a VETO.  It never retries.  Its clock is *)
(* off the servers' clock by a constant number of seconds.                 *)
(***************************************************************************)
EXTENDS DecisionApi

CONSTANTS
    EaTimeout,        \* decision_api_timeout_ms
    EaMaxClockSkew,   \* decision_max_clock_skew_seconds
    EaMaxTtl,         \* decision_max_ttl_seconds
    ClockOffsets      \* how far the EA's clock may be off

\* The deployment is refused otherwise (the gateway's own timeout lies before Lambda's).
TimeoutBudget ==
    /\ LlmTimeout + LlmReserve <= DecisionDeadline
    /\ DecisionDeadline < EaTimeout
    /\ EaTimeout < LambdaTimeout

ASSUME DecisionClientAssumption ==
    /\ EaTimeout \in Nat
    /\ EaMaxClockSkew \in Nat
    /\ EaMaxTtl \in Nat
    /\ ClockOffsets \subseteq Int
    /\ TimeoutBudget

VARIABLES
    offset,   \* the EA's clock minus the servers' clock
    ea,       \* the request the EA is blocked on, if any
    sent,     \* the messages the EA has put on the wire
    acted     \* history: the ALLOWs that the EA handed to its risk manager

eaVars == <<offset, ea, sent, acted>>
clientVars == <<vars, eaVars>>

EaNow == clock + offset

ClientInit ==
    /\ Init
    /\ offset \in ClockOffsets
    /\ ea = [pc |-> "idle", msg |-> None, sentAt |-> 0]
    /\ sent = {}
    /\ acted = {}

-----------------------------------------------------------------------------

Fresh(m) == \A s \in sent : /\ s.body.request # m.body.request
                            /\ s.nonce # m.nonce

\* Decide(): one signed request per candidate, stamped with the EA's clock.
EaAsk(m) ==
    /\ ea.pc = "idle"
    /\ m.wellFormed /\ m.signed
    /\ m.ts = EaNow /\ m.bodyTs = EaNow
    /\ Fresh(m)
    /\ clock + EaTimeout < MaxClock   \* bound: the model's time outlasts the request
    /\ ea' = [pc |-> "waiting", msg |-> m, sentAt |-> clock]
    /\ sent' = sent \cup {m}
    /\ UNCHANGED <<vars, offset, acted>>

ValidTimesIgnoringExpiry(created) ==
    EaNow - created \in -EaMaxClockSkew .. EaMaxClockSkew

\* |now - created_at| within the skew; not expired; a lifetime that is not too long.
ValidTimes(created) ==
    /\ EaNow - created \in -EaMaxClockSkew .. EaMaxClockSkew
    /\ created + ResponseTtl > EaNow
    /\ ResponseTtl <= EaMaxTtl

\* An ALLOW needs the ML pass and the LLM's ALLOW, or its recorded shadow VETO.
AllowIsComplete(r) ==
    /\ r.ml = "PASSED"
    /\ r.llm \in {"ALLOW", "VETO"}

Acceptable(reply, m) ==
    /\ reply.status = "OK"
    /\ reply.item.response.request = m.body.request
    /\ ValidTimes(reply.item.response.created)
    /\ reply.item.response.decision = "ALLOW"
    /\ AllowIsComplete(reply.item.response)

(***************************************************************************)
(* The answer of an invocation that got the EA's message.  The EA's own ML *)
(* thresholds may be stricter than the service's, so that a complete ALLOW *)
(* may still be a VETO.                                                    *)
(***************************************************************************)
EaHear(c) ==
    /\ ea.pc = "waiting"
    /\ calls[c].msg = ea.msg
    /\ replies[c] # None
    /\ clock - ea.sentAt <= EaTimeout
    /\ \/ /\ Acceptable(replies[c], ea.msg)
          /\ acted' = acted \cup {[msg |-> ea.msg, sentAt |-> ea.sentAt, at |-> clock,
                                   item |-> replies[c].item]}
       \/ UNCHANGED acted
    /\ ea' = [ea EXCEPT !.pc = "idle"]
    /\ UNCHANGED <<vars, offset, sent>>

\* WebRequest returns -1 because the connection broke.
EaBreak ==
    /\ ea.pc = "waiting"
    /\ ea' = [ea EXCEPT !.pc = "idle"]
    /\ UNCHANGED <<vars, offset, sent, acted>>

EaExpireSecondsForMillis ==
    /\ ea.pc = "waiting"
    /\ clock - ea.sentAt >= 1000 * EaTimeout
    /\ ea' = [ea EXCEPT !.pc = "idle"]
    /\ UNCHANGED <<vars, offset, sent, acted>>

\* WebRequest returns -1 because its timeout passed.
EaExpire ==
    /\ ea.pc = "waiting"
    /\ clock - ea.sentAt >= EaTimeout
    /\ ea' = [ea EXCEPT !.pc = "idle"]
    /\ UNCHANGED <<vars, offset, sent, acted>>

ClientStep ==
    \/ \E m \in Messages : EaAsk(m)
    \/ \E c \in Calls : EaHear(c)
    \/ EaBreak
    \/ EaExpire

ClientNext == ClientStep \/ ((ServerStep(sent) \/ Tick) /\ UNCHANGED eaVars)

\* An invocation takes its next step or is killed by Lambda at its timeout.
CallStep(c) == (AuthStep(c) /\ UNCHANGED <<decisions, work>>) \/ DecideStep(c)

(***************************************************************************)
(* Time passes, WebRequest's timeout fires, and an invocation that started *)
(* goes on or is killed.  That a message arrives, or an answer, is not     *)
(* assumed.                                                                *)
(***************************************************************************)
Fairness ==
    /\ WF_clientVars(Tick /\ UNCHANGED eaVars)
    /\ WF_clientVars(EaExpire)
    /\ \A c \in Calls : WF_clientVars(CallStep(c) /\ UNCHANGED eaVars)

ClientSpec == ClientInit /\ [][ClientNext]_clientVars /\ Fairness

-----------------------------------------------------------------------------
(* Properties *)

\* The EA's own state and the composed state keep their kinds.
ClientTypeOK ==
    /\ TypeOK
    /\ ea.msg \in Messages \cup {None}
    /\ ea.pc = "waiting" => ea.msg \in sent
    /\ sent \subseteq Messages
    /\ \A a \in acted : a.msg \in sent /\ a.item \in Item

(***************************************************************************)
(* Every ALLOW the EA acts on is on record in the audit table, word for    *)
(* word, for the very body the EA signed: no crash, duplicate, lost        *)
(* acknowledgement or late answer makes it trade on a decision that the    *)
(* service does not know, or that the service recorded as a VETO.          *)
(***************************************************************************)
ActedAllowIsOnRecord ==
    \A a \in acted :
        /\ decisions[a.msg.body.request] = a.item
        /\ a.item.hash = BodyHash(a.msg)
        /\ a.item.response.decision = "ALLOW"

(***************************************************************************)
(* The EA acts only on a decision made after it asked, within its own      *)
(* timeout, and before the decision's lifetime is over by more than the    *)
(* EA's clock is behind: an ALLOW of an earlier candidate or of an earlier *)
(* market is never used again (docs/architecture.md, failure policy).      *)
(***************************************************************************)
ActedAllowIsFresh ==
    \A a \in acted :
        LET created == a.item.response.created
            lag == IF offset < 0 THEN -offset ELSE 0
        IN  /\ created \in a.sentAt .. a.at
            /\ a.at <= a.sentAt + EaTimeout
            /\ a.at < created + ResponseTtl + lag

(***************************************************************************)
(* Every request of the EA ends in a decision, even when every invocation  *)
(* that got it dies without an answer or it never reaches one: the thread  *)
(* that also manages open positions is not blocked for ever.               *)
(***************************************************************************)
EaDecides == ea.pc = "waiting" ~> ea.pc = "idle"

=============================================================================
