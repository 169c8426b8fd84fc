------------------------- MODULE DecisionClientProofs -------------------------
(***************************************************************************)
(* Proofs about DecisionClient: the EA and the decision API composed, for  *)
(* any number of invocations and candidates, any offset of the EA's clock  *)
(* and any values of the timeouts.                                         *)
(***************************************************************************)
EXTENDS DecisionClient, DecisionApiProofs

-----------------------------------------------------------------------------
(* The inductive invariant *)

\* What the EA keeps is of its kind, and it only waits for what it sent.
EaTypes ==
    /\ offset \in Int
    /\ ea \in [pc: {"idle", "waiting"}, msg: Messages \cup {None}, sentAt: Nat]
    /\ ea.pc = "waiting" => ea.msg \in sent
    /\ sent \subseteq Messages
    /\ acted \subseteq [msg: sent, sentAt: Nat, at: Nat, item: Item]

\* A request id stands for one message, and one that was acted on is not waited for.
AskedOnce ==
    /\ \A s, t \in sent : s.body.request = t.body.request => s = t
    /\ ea.pc = "waiting" => \A a \in acted : a.msg # ea.msg
    /\ \A a, b \in acted : a.msg = b.msg => a = b

\* The service works on, and has recorded, nothing that the EA has not sent.
OnlyAsked ==
    /\ \A c \in Calls : calls[c].pc # "idle" => calls[c].msg \in sent
    /\ \A r \in RequestIds : decisions[r] # None => \E s \in sent : s.body.request = r

MadeSinceAsked(created) == created \in ea.sentAt .. clock

(***************************************************************************)
(* While the EA waits, whatever the service decides or has decided for its *)
(* request id was decided since it asked.                                  *)
(***************************************************************************)
DecidedSinceAsked ==
    ea.pc = "waiting" =>
        LET r == ea.msg.body.request
        IN  /\ ea.sentAt <= clock
            /\ \A c \in Calls : calls[c].pc \in Deciding /\ RequestId(c) = r =>
                                    MadeSinceAsked(work[c].created)
            /\ decisions[r] # None => MadeSinceAsked(decisions[r].response.created)

(***************************************************************************)
(* The two properties are not inductive: what the EA hears is on record    *)
(* because the service's answers are (AuditInv), and fresh because its     *)
(* request id was unknown to the service when it asked (OnlyAsked), so     *)
(* that every decision on it is younger (DecidedSinceAsked).               *)
(***************************************************************************)
ClientInv ==
    /\ TypeOK
    /\ AuditInv
    /\ EaTypes
    /\ AskedOnce
    /\ OnlyAsked
    /\ DecidedSinceAsked
    /\ ActedAllowIsOnRecord
    /\ ActedAllowIsFresh

-----------------------------------------------------------------------------
(* What the service's steps leave alone *)

\* The step of c neither touches another invocation nor gives c another message.
Alone(c) ==
    /\ \A d \in Calls \ {c} : calls'[d] = calls[d] /\ work'[d] = work[d]
    /\ calls'[c].msg = calls[c].msg
    /\ calls[c].pc # "idle"

\* Records are added, never changed.
Kept == \A r \in RequestIds : decisions[r] # None => decisions'[r] = decisions[r]

\* Before decide(), an invocation decides nothing.
LEMMA AuthStepAlone ==
    ASSUME NEW c \in Calls, TypeOK, AuthStep(c), UNCHANGED <<decisions, work>>
    PROVE  Alone(c) /\ UNCHANGED clock /\ calls'[c].pc \notin Deciding
  <1> USE DEF Alone, SameRequest, Deciding
  <1>1. CASE CheckWindow(c)
    BY <1>1, RefuseFrame, SMTT(30) DEF CheckWindow, At, TypeOK
  <1>2. CASE Authenticate(c)
    BY <1>2, RefuseFrame, GotoFrame DEF Authenticate, At
  <1>3. CASE ClaimNonce(c)
    <2>1. \/ calls' = [calls EXCEPT ![c].pc = "handle", ![c].claimed = TRUE]
          \/ \E code : Refuse(c, code)
      BY <1>3 DEF ClaimNonce
    <2> QED
      BY <1>3, <2>1, RefuseFrame DEF ClaimNonce, At, TypeOK
  <1>4. CASE RefuseTimestamp(c)
    BY <1>4, RefuseFrame DEF RefuseTimestamp, At
  <1>5. CASE Kill(c)
    BY <1>5, GotoFrame DEF Kill
  <1> QED
    BY <1>1, <1>2, <1>3, <1>4, <1>5 DEF AuthStep

(***************************************************************************)
(* A decision's time is the instant of Lookup, after the request came in,  *)
(* and no later step of decide() changes it.                               *)
(***************************************************************************)
CreatedAtLookup(c) ==
    calls'[c].pc \in Deciding =>
        \/ work'[c].created = clock
        \/ calls[c].pc \in Deciding /\ work'[c].created = work[c].created

\* What is put on record is the decision just made, under its own request id.
RecordsOwn(c) ==
    \A r \in RequestIds :
        \/ decisions'[r] = decisions[r]
        \/ /\ decisions[r] = None /\ r = RequestId(c) /\ calls[c].pc = "save"
           /\ decisions'[r] = [hash |-> HashOf(c), response |-> ResponseOf(c)]

LEMMA DecideStepAlone ==
    ASSUME NEW c \in Calls, TypeOK, DecideStep(c)
    PROVE  Alone(c) /\ UNCHANGED clock /\ CreatedAtLookup(c) /\ RecordsOwn(c)
  <1> USE DEF Alone, SameRequest, CreatedAtLookup, Deciding
  <1>1. calls[c].pc # "idle" /\ UNCHANGED clock
    BY DEF DecideStep, Lookup, Predict, CallLlm, LlmReturns, Save, Reread, At
  <1>2. CASE Lookup(c)
    <2>1. UNCHANGED decisions
      BY <1>2 DEF Lookup
    <2>2. CASE UNCHANGED work /\ (TellStored(c) \/ Refuse(c, "INTERNAL_ERROR"))
      BY <1>1, <2>1, <2>2, TellStoredFrame, RefuseFrame DEF RecordsOwn
    <2>3. CASE Goto(c, "ml") /\ work' = [work EXCEPT ![c].created = clock]
      BY <1>1, <2>1, <2>3, GotoFrame DEF RecordsOwn, TypeOK, Work
    <2> QED
      BY <1>2, <2>2, <2>3 DEF Lookup
  <1>3. CASE Predict(c)
    <2>1. PICK step : Goto(c, step)
      BY <1>3 DEF Predict
    <2>2. /\ \A d \in Calls \ {c} : work'[d] = work[d]
          /\ work'[c].created = work[c].created
      BY <1>3 DEF Predict, TypeOK, Work
    <2> QED
      BY <1>1, <1>3, <2>1, <2>2, GotoFrame DEF Predict, At, RecordsOwn
  <1>4. CASE CallLlm(c)
    <2>1. PICK step : Goto(c, step)
      BY <1>4 DEF CallLlm
    <2>2. /\ \A d \in Calls \ {c} : work'[d] = work[d]
          /\ work'[c].created = work[c].created
      BY <1>4 DEF CallLlm, TypeOK, Work
    <2> QED
      BY <1>1, <1>4, <2>1, <2>2, GotoFrame DEF CallLlm, At, RecordsOwn
  <1>5. CASE LlmReturns(c)
    <2>1. /\ \A d \in Calls \ {c} : work'[d] = work[d]
          /\ work'[c].created = work[c].created
      BY <1>5 DEF LlmReturns, TypeOK, Work
    <2> QED
      BY <1>1, <1>5, <2>1, GotoFrame DEF LlmReturns, At, RecordsOwn
  <1>6. CASE Save(c)
    <2>1. RecordsOwn(c)
      BY <1>6 DEF Save, At, RecordsOwn, TypeOK
    <2>2. \/ \E reply : Finish(c, reply)
          \/ Goto(c, "reread")
          \/ Refuse(c, "INTERNAL_ERROR")
      BY <1>6 DEF Save
    <2> QED
      BY <1>1, <1>6, <2>1, <2>2, FinishFrame, GotoFrame, RefuseFrame DEF Save, At
  <1>7. CASE Reread(c)
    BY <1>1, <1>7, TellStoredFrame, RefuseFrame DEF Reread, RecordsOwn
  <1> QED
    BY <1>2, <1>3, <1>4, <1>5, <1>6, <1>7 DEF DecideStep

-----------------------------------------------------------------------------
(* The service's steps *)

\* One invocation takes a step; the EA does nothing.
LEMMA CallStepInv ==
    ASSUME NEW c \in Calls, ClientInv, TypeOK', AuditInv', Alone(c), CreatedAtLookup(c),
           RecordsOwn(c), UNCHANGED clock, UNCHANGED eaVars
    PROVE  ClientInv'
  <1> USE DEF eaVars
  <1>1. EaTypes' /\ AskedOnce'
    BY DEF ClientInv, EaTypes, AskedOnce
  <1>2. calls[c].msg \in sent /\ calls[c].msg \in Messages
    BY DEF ClientInv, OnlyAsked, EaTypes, Alone
  <1>3. Kept
    BY DEF RecordsOwn, Kept
  <1>4. OnlyAsked'
    <2>1. ASSUME NEW d \in Calls, calls'[d].pc # "idle"
          PROVE  calls'[d].msg \in sent
      BY <1>2, <2>1 DEF Alone, ClientInv, OnlyAsked
    <2>2. ASSUME NEW r \in RequestIds, decisions'[r] # None
          PROVE  \E s \in sent : s.body.request = r
      BY <1>2, <2>2 DEF RecordsOwn, RequestId, ClientInv, OnlyAsked
    <2> QED
      BY <2>1, <2>2 DEF OnlyAsked
  <1>5. DecidedSinceAsked'
    <2> SUFFICES ASSUME ea.pc = "waiting"
                 PROVE  DecidedSinceAsked'
      BY DEF DecidedSinceAsked
    <2> DEFINE r == ea.msg.body.request
    <2>1. /\ r \in RequestIds /\ ea.sentAt \in Nat /\ clock \in Nat /\ ea.sentAt <= clock
          /\ ea' = ea
      BY MessageParts DEF ClientInv, EaTypes, TypeOK, DecidedSinceAsked
    <2>2. ASSUME NEW d \in Calls, calls'[d].pc \in Deciding, RequestId(d)' = r
          PROVE  work'[d].created \in ea.sentAt .. clock
      <3>1. RequestId(d)' = RequestId(d)
        BY DEF Alone, RequestId
      <3>2. CASE calls[d].pc \in Deciding /\ work'[d].created = work[d].created
        BY <2>2, <3>1, <3>2 DEF ClientInv, DecidedSinceAsked, MadeSinceAsked
      <3>3. CASE work'[d].created = clock
        BY <2>1, <3>3
      <3> QED
        BY <2>2, <3>2, <3>3 DEF Alone, CreatedAtLookup
    <2>3. ASSUME decisions'[r] # None
          PROVE  decisions'[r].response.created \in ea.sentAt .. clock
      <3>1. CASE decisions'[r] = decisions[r]
        BY <2>3, <3>1 DEF ClientInv, DecidedSinceAsked, MadeSinceAsked
      <3>2. CASE /\ r = RequestId(c) /\ calls[c].pc = "save"
                 /\ decisions'[r] = [hash |-> HashOf(c), response |-> ResponseOf(c)]
        <4>1. decisions'[r].response.created = work[c].created
          BY <3>2 DEF ResponseOf
        <4> QED
          BY <3>2, <4>1 DEF ClientInv, DecidedSinceAsked, MadeSinceAsked, Deciding
      <3> QED
        BY <2>1, <3>1, <3>2 DEF RecordsOwn
    <2> QED
      BY <2>1, <2>2, <2>3 DEF DecidedSinceAsked, MadeSinceAsked
  <1>6. ActedAllowIsOnRecord'
    <2> SUFFICES ASSUME NEW a \in acted
                 PROVE  decisions'[a.msg.body.request] = decisions[a.msg.body.request]
      BY DEF ClientInv, ActedAllowIsOnRecord
    <2>1. a.msg \in Messages /\ a.item \in Item
      BY DEF ClientInv, EaTypes
    <2>2. decisions[a.msg.body.request] = a.item /\ a.item # None
      BY <2>1, NoneIsNoItem DEF ClientInv, ActedAllowIsOnRecord
    <2> QED
      BY <1>3, <2>1, <2>2, MessageParts DEF Kept
  <1>7. ActedAllowIsFresh'
    BY DEF ClientInv, ActedAllowIsFresh
  <1> QED
    BY <1>1, <1>4, <1>5, <1>6, <1>7 DEF ClientInv

\* A message arrives that the EA has sent.
LEMMA ReceiveInv ==
    ASSUME NEW c \in Calls, NEW m \in sent, ClientInv, TypeOK', AuditInv', Receive(c, m),
           UNCHANGED <<decisions, work>>, UNCHANGED eaVars
    PROVE  ClientInv'
  <1> USE DEF eaVars
  <1>1. /\ \A d \in Calls \ {c} : calls'[d] = calls[d]
        /\ calls'[c].msg = m /\ calls'[c].pc \in {"window", "done"}
        /\ UNCHANGED clock
    BY DEF Receive, ClientInv, TypeOK
  <1>2. EaTypes' /\ AskedOnce' /\ ActedAllowIsOnRecord' /\ ActedAllowIsFresh'
    BY DEF ClientInv, EaTypes, AskedOnce, ActedAllowIsOnRecord, ActedAllowIsFresh
  <1>3. OnlyAsked'
    <2>1. ASSUME NEW d \in Calls, calls'[d].pc # "idle"
          PROVE  calls'[d].msg \in sent
      BY <1>1, <2>1 DEF ClientInv, OnlyAsked
    <2> QED
      BY <2>1 DEF ClientInv, OnlyAsked
  <1>4. DecidedSinceAsked'
    <2>1. ASSUME NEW d \in Calls, calls'[d].pc \in Deciding
          PROVE  calls[d].pc \in Deciding /\ RequestId(d)' = RequestId(d)
      BY <1>1, <2>1 DEF Deciding, RequestId
    <2> QED
      BY <1>1, <2>1 DEF ClientInv, DecidedSinceAsked, MadeSinceAsked
  <1> QED
    BY <1>2, <1>3, <1>4 DEF ClientInv

\* Time passes.
LEMMA TickInv ==
    ASSUME ClientInv, TypeOK', AuditInv', Tick, UNCHANGED eaVars
    PROVE  ClientInv'
  <1> USE DEF eaVars
  <1>1. clock \in Nat /\ clock' = clock + 1 /\ UNCHANGED <<calls, decisions, work>>
    BY DEF Tick, ClientInv, TypeOK
  <1>2. EaTypes' /\ AskedOnce' /\ ActedAllowIsOnRecord' /\ ActedAllowIsFresh'
    BY <1>1 DEF ClientInv, EaTypes, AskedOnce, ActedAllowIsOnRecord, ActedAllowIsFresh
  <1>3. OnlyAsked'
    BY <1>1 DEF ClientInv, OnlyAsked
  <1>4. ea.sentAt \in Nat
    BY DEF ClientInv, EaTypes
  <1>5. \A t : MadeSinceAsked(t) => MadeSinceAsked(t)'
    BY <1>1, <1>4 DEF MadeSinceAsked
  <1>6. ea.pc = "waiting" /\ ea.sentAt <= clock => ea.sentAt <= clock + 1
    BY <1>1, <1>4
  <1>7. DecidedSinceAsked'
    BY <1>1, <1>5, <1>6 DEF ClientInv, DecidedSinceAsked, MadeSinceAsked, RequestId
  <1> QED
    BY <1>2, <1>3, <1>7 DEF ClientInv

-----------------------------------------------------------------------------
(* The EA's steps *)

\* A fresh request id is one that the service knows nothing about.
LEMMA EaAskInv ==
    ASSUME NEW m \in Messages, ClientInv, EaAsk(m)
    PROVE  ClientInv'
  <1> DEFINE r == m.body.request
  <1>1. /\ UNCHANGED <<clock, nonces, calls, replies, decisions, work, offset, acted>>
        /\ ea' = [pc |-> "waiting", msg |-> m, sentAt |-> clock] /\ sent' = sent \cup {m}
        /\ clock \in Nat /\ r \in RequestIds /\ m # None
    BY MessageParts DEF EaAsk, vars, authVars, ClientInv, TypeOK
  <1>2. \A s \in sent : s.body.request # r
    BY DEF EaAsk, Fresh
  <1>3. decisions[r] = None
    BY <1>1, <1>2 DEF ClientInv, OnlyAsked
  <1>4. ASSUME NEW c \in Calls, calls[c].pc \in Deciding
        PROVE  RequestId(c) # r
    BY <1>2, <1>4 DEF ClientInv, OnlyAsked, Deciding, RequestId
  <1>5. TypeOK' /\ AuditInv'
    BY <1>1 DEF ClientInv, TypeOK, AuditInv, Audited, RequestId, HashOf
  <1>6. EaTypes' /\ AskedOnce'
    BY <1>1, <1>2 DEF ClientInv, EaTypes, AskedOnce
  <1>7. OnlyAsked'
    BY <1>1 DEF ClientInv, OnlyAsked
  <1>8. DecidedSinceAsked'
    BY <1>1, <1>3, <1>4 DEF DecidedSinceAsked, RequestId
  <1>9. ActedAllowIsOnRecord' /\ ActedAllowIsFresh'
    BY <1>1 DEF ClientInv, ActedAllowIsOnRecord, ActedAllowIsFresh
  <1> QED
    BY <1>5, <1>6, <1>7, <1>8, <1>9 DEF ClientInv

\* What the EA stops waiting for needs no care any more.
LEMMA IdleInv ==
    ASSUME ClientInv, ea' = [ea EXCEPT !.pc = "idle"], UNCHANGED <<vars, offset, sent>>,
           EaTypes', AskedOnce', ActedAllowIsOnRecord', ActedAllowIsFresh'
    PROVE  ClientInv'
  <1>1. UNCHANGED <<clock, nonces, calls, replies, decisions, work>>
    BY DEF vars, authVars
  <1>2. TypeOK' /\ AuditInv'
    BY <1>1 DEF ClientInv, TypeOK, AuditInv, Audited, RequestId, HashOf
  <1>3. OnlyAsked'
    BY <1>1 DEF ClientInv, OnlyAsked
  <1>4. ea'.pc = "idle"
    BY DEF ClientInv, EaTypes
  <1>5. DecidedSinceAsked'
    BY <1>4 DEF DecidedSinceAsked
  <1> QED
    BY <1>2, <1>3, <1>5 DEF ClientInv

\* WebRequest fails: the EA acts on nothing.
LEMMA EaGiveUpInv ==
    ASSUME ClientInv, EaBreak \/ EaExpire
    PROVE  ClientInv'
  <1>1. /\ ea' = [ea EXCEPT !.pc = "idle"] /\ UNCHANGED <<vars, offset, sent, acted>>
        /\ UNCHANGED decisions
    BY DEF EaBreak, EaExpire, vars
  <1>2. EaTypes' /\ AskedOnce' /\ ActedAllowIsOnRecord' /\ ActedAllowIsFresh'
    BY <1>1 DEF ClientInv, EaTypes, AskedOnce, ActedAllowIsOnRecord, ActedAllowIsFresh
  <1> QED
    BY <1>1, <1>2, IdleInv

\* An answer is in time and, if it is an ALLOW, on record and younger than the question.
LEMMA EaHearInv ==
    ASSUME NEW c \in Calls, ClientInv, EaHear(c)
    PROVE  ClientInv'
  <1> DEFINE reply == replies[c]
             act == [msg |-> ea.msg, sentAt |-> ea.sentAt, at |-> clock, item |-> reply.item]
             r == ea.msg.body.request
             created == reply.item.response.created
  <1>1. /\ ea' = [ea EXCEPT !.pc = "idle"] /\ UNCHANGED <<vars, offset, sent>>
        /\ UNCHANGED <<clock, decisions>>
        /\ ea.pc = "waiting" /\ calls[c].msg = ea.msg /\ reply # None
        /\ clock - ea.sentAt <= EaTimeout
    BY DEF EaHear, vars, authVars
  <1>2. /\ ea.msg \in sent /\ ea.msg \in Messages /\ ea.sentAt \in Nat /\ clock \in Nat
        /\ offset \in Int /\ r \in RequestIds
    BY <1>1, MessageParts DEF ClientInv, EaTypes, TypeOK
  <1>3. CASE UNCHANGED acted
    <2>1. EaTypes' /\ AskedOnce' /\ ActedAllowIsOnRecord' /\ ActedAllowIsFresh'
      BY <1>1, <1>3 DEF ClientInv, EaTypes, AskedOnce, ActedAllowIsOnRecord, ActedAllowIsFresh
    <2> QED
      BY <1>1, <2>1, IdleInv
  <1>4. CASE Acceptable(reply, ea.msg) /\ acted' = acted \cup {act}
    <2>1. /\ reply.status = "OK" /\ ValidTimes(created)
          /\ reply.item.response.decision = "ALLOW"
      BY <1>4 DEF Acceptable
    <2>2. /\ reply.item # None /\ reply.item = decisions[r] /\ reply.item.hash = BodyHash(ea.msg)
      BY <1>1, <2>1 DEF ClientInv, AuditInv, Audited, RequestId, HashOf
    <2>3. reply.item \in Item
      BY <1>2, <2>2 DEF ClientInv, TypeOK
    <2>4. created \in ea.sentAt .. clock
      BY <1>1, <1>2, <2>2 DEF ClientInv, DecidedSinceAsked, MadeSinceAsked
    <2>5. EaTypes' /\ AskedOnce'
      BY <1>1, <1>2, <1>4, <2>3 DEF ClientInv, EaTypes, AskedOnce
    <2>6. ActedAllowIsOnRecord'
      BY <1>1, <1>4, <2>1, <2>2 DEF ClientInv, ActedAllowIsOnRecord
    <2>7. clock <= ea.sentAt + EaTimeout
      BY <1>1, <1>2, DecisionClientAssumption
    <2>8. clock < created + ResponseTtl + (IF offset < 0 THEN -offset ELSE 0)
      <3>1. created + ResponseTtl > clock + offset /\ created \in Int /\ ResponseTtl \in Int
        BY <1>2, <2>1, <2>4, DecisionApiAssumption DEF ValidTimes, EaNow
      <3> QED
        BY <1>2, <3>1
    <2>9. ActedAllowIsFresh'
      BY <1>1, <1>4, <2>4, <2>7, <2>8 DEF ClientInv, ActedAllowIsFresh
    <2> QED
      BY <1>1, <2>5, <2>6, <2>9, IdleInv
  <1> QED
    BY <1>3, <1>4 DEF EaHear

-----------------------------------------------------------------------------
(* The theorems *)

LEMMA ClientInitInv == ClientInit => ClientInv
  <1> SUFFICES ASSUME ClientInit
               PROVE  ClientInv
    OBVIOUS
  <1>1. TypeOK /\ AuditInv
    BY InitType, InitAuditInv DEF ClientInit
  <1>2. EaTypes /\ AskedOnce
    BY DecisionClientAssumption DEF ClientInit, EaTypes, AskedOnce
  <1>3. OnlyAsked
    BY DEF ClientInit, Init, SignedInit, OnlyAsked
  <1>4. DecidedSinceAsked /\ ActedAllowIsOnRecord /\ ActedAllowIsFresh
    BY DEF ClientInit, DecidedSinceAsked, ActedAllowIsOnRecord, ActedAllowIsFresh
  <1> QED
    BY <1>1, <1>2, <1>3, <1>4 DEF ClientInv

\* To the service a step of the composed system is a step of its own or none.
LEMMA ClientStepIsApiStep ==
    ASSUME ClientInv, [ClientNext]_clientVars
    PROVE  [Next]_vars
  <1>1. ClientStep => UNCHANGED vars
    BY DEF ClientStep, EaAsk, EaHear, EaBreak, EaExpire, vars, authVars
  <1>2. ServerStep(sent) => ServerStep(Messages)
    BY DEF ServerStep, ClientInv, EaTypes
  <1> QED
    BY <1>1, <1>2 DEF ClientNext, Next, clientVars

LEMMA ClientStepInv == ClientInv /\ [ClientNext]_clientVars => ClientInv'
  <1> SUFFICES ASSUME ClientInv, [ClientNext]_clientVars
               PROVE  ClientInv'
    OBVIOUS
  <1>1. TypeOK' /\ AuditInv'
    BY ClientStepIsApiStep, StepType, StepAuditInv DEF ClientInv
  <1>2. TypeOK
    BY DEF ClientInv
  <1>3. CASE ClientStep
    BY <1>3, EaAskInv, EaHearInv, EaGiveUpInv DEF ClientStep
  <1>4. CASE ServerStep(sent) /\ UNCHANGED eaVars
    <2>1. ASSUME NEW c \in Calls, NEW m \in sent, Receive(c, m), UNCHANGED <<decisions, work>>
          PROVE  ClientInv'
      BY <1>1, <1>4, <2>1, ReceiveInv
    <2>2. ASSUME NEW c \in Calls, AuthStep(c), UNCHANGED <<decisions, work>>
          PROVE  ClientInv'
      <3>1. CreatedAtLookup(c) /\ RecordsOwn(c)
        BY <1>2, <2>2, AuthStepAlone DEF CreatedAtLookup, RecordsOwn
      <3> QED
        BY <1>1, <1>2, <1>4, <2>2, <3>1, AuthStepAlone, CallStepInv
    <2>3. ASSUME NEW c \in Calls, DecideStep(c)
          PROVE  ClientInv'
      BY <1>1, <1>2, <1>4, <2>3, DecideStepAlone, CallStepInv
    <2>4. ASSUME NEW n \in Nonces, ExpireNonce(n), UNCHANGED <<decisions, work>>
          PROVE  ClientInv'
      <3>1. UNCHANGED <<clock, calls, replies, decisions, work, offset, ea, sent, acted>>
        BY <1>4, <2>4 DEF ExpireNonce, eaVars
      <3> QED
        BY <1>1, <3>1 DEF ClientInv, EaTypes, AskedOnce, OnlyAsked, DecidedSinceAsked,
                          MadeSinceAsked, RequestId, ActedAllowIsOnRecord, ActedAllowIsFresh
    <2> QED
      BY <1>4, <2>1, <2>2, <2>3, <2>4 DEF ServerStep
  <1>5. CASE Tick /\ UNCHANGED eaVars
    BY <1>1, <1>5, TickInv
  <1>6. CASE UNCHANGED clientVars
    <2>1. UNCHANGED <<clock, calls, replies, decisions, work, offset, ea, sent, acted>>
      BY <1>6 DEF clientVars, vars, authVars, eaVars
    <2> QED
      BY <1>1, <2>1 DEF ClientInv, EaTypes, AskedOnce, OnlyAsked, DecidedSinceAsked,
                        MadeSinceAsked, RequestId, ActedAllowIsOnRecord, ActedAllowIsFresh
  <1> QED
    BY <1>3, <1>4, <1>5, <1>6 DEF ClientNext

LEMMA ClientInvHolds == ClientSpec => []ClientInv
  BY ClientInitInv, ClientStepInv, PTL DEF ClientSpec

(***************************************************************************)
(* The API serving the EA is the API serving anybody: whatever is proved   *)
(* of Spec (no replay, audited answers, traceable decisions, verdicts in   *)
(* time, the register) holds of the composed system as well.               *)
(***************************************************************************)
THEOREM EaIsAnyClient == ClientSpec => Spec
  <1>1. ClientInit => Init
    BY DEF ClientInit
  <1>2. ClientInv /\ [ClientNext]_clientVars => [Next]_vars
    BY ClientStepIsApiStep
  <1> QED
    BY <1>1, <1>2, ClientInvHolds, PTL DEF ClientSpec, Spec

\* In every reachable state the EA's own variables hold values of their kinds.
THEOREM ClientTypeCorrect == ClientSpec => []ClientTypeOK
  <1>1. ClientInv => ClientTypeOK
    BY DEF ClientInv, EaTypes, ClientTypeOK
  <1> QED
    BY <1>1, ClientInvHolds, PTL

(***************************************************************************)
(* The EA never trades on a decision that the audit table does not hold,   *)
(* word for word, as an ALLOW for the very body it signed.                 *)
(***************************************************************************)
THEOREM ActedOnRecord == ClientSpec => []ActedAllowIsOnRecord
  <1>1. ClientInv => ActedAllowIsOnRecord
    BY DEF ClientInv
  <1> QED
    BY <1>1, ClientInvHolds, PTL

(***************************************************************************)
(* Every ALLOW that the EA acts on was decided after it asked, within its  *)
(* timeout, and is not older than its lifetime by more than the EA's clock *)
(* is behind.                                                              *)
(***************************************************************************)
THEOREM ActedFresh == ClientSpec => []ActedAllowIsFresh
  <1>1. ClientInv => ActedAllowIsFresh
    BY DEF ClientInv
  <1> QED
    BY <1>1, ClientInvHolds, PTL

(***************************************************************************)
(* The EA trades at most once on a candidate: a late or second answer to a *)
(* request it has acted on finds it waiting for another one, or for none.  *)
(***************************************************************************)
OneTradePerCandidate ==
    \A a, b \in acted : a.msg.body.request = b.msg.body.request => a = b

\* However often a message is delivered and answered, the EA acts on it once.
THEOREM ActedOnce == ClientSpec => []OneTradePerCandidate
  <1>1. ClientInv => OneTradePerCandidate
    BY DEF ClientInv, EaTypes, AskedOnce, OneTradePerCandidate
  <1> QED
    BY <1>1, ClientInvHolds, PTL

-----------------------------------------------------------------------------
(* From the EA's trade back to the filters *)

\* Invocation c authenticated the message of `a` and passed it through both filters in time.
Approved(a, c) ==
    /\ calls[c].msg = a.msg /\ calls[c].claimed
    /\ calls[c].now - a.msg.ts \in -MaxClockSkew .. MaxClockSkew
    /\ work[c].created = a.item.response.created
    /\ work[c].ml = "PASSED"
    /\ work[c].llm = "ALLOW" \/ (work[c].llm = "VETO" /\ ShadowMode)
    /\ work[c].ended - work[c].called \in 0 .. LlmTimeout
    /\ work[c].ended + LlmReserve <= calls[c].started + DecisionDeadline + KeyFetchMax

LEMMA ActedIsApproved ==
    ASSUME ClientInv, TraceInv, TimelyInv, NEW a \in acted
    PROVE  \E c \in Calls : Approved(a, c)
  <1> DEFINE r == a.msg.body.request
  <1>1. /\ a.msg \in sent /\ a.msg \in Messages /\ r \in RequestIds
        /\ a.item \in Item /\ a.item # None
        /\ decisions[r] = a.item /\ a.item.response.decision = "ALLOW"
    BY MessageParts, NoneIsNoItem DEF ClientInv, EaTypes, ActedAllowIsOnRecord
  <1>2. PICK c \in Calls : calls[c].pc \in {"reread", "done"} /\ Vouches(c, r)
    BY <1>1 DEF TraceInv
  <1>3. calls[c].msg \in sent /\ calls[c].msg.body.request = r
    BY <1>2 DEF ClientInv, OnlyAsked, Vouches, RequestId
  <1>4. calls[c].msg = a.msg
    BY <1>1, <1>3 DEF ClientInv, AskedOnce
  <1>5. /\ a.item.response.created = work[c].created
        /\ FinalDecision(work[c]) = "ALLOW"
    BY <1>1, <1>2 DEF Vouches, ResponseOf
  <1>6. /\ work[c].ml = "PASSED" /\ work[c].ended - work[c].called \in 0 .. LlmTimeout
        /\ work[c].llm = "ALLOW" \/ (work[c].llm = "VETO" /\ ShadowMode)
    <2>1. work[c].ml = "PASSED" /\ work[c].ended - work[c].called \in 0 .. LlmTimeout
      BY <1>2, <1>5 DEF Vouches, Granted
    <2>2. work[c].llm = "ALLOW" \/ (work[c].llm = "VETO" /\ ShadowMode)
      BY <1>5 DEF FinalDecision
    <2> QED
      BY <2>1, <2>2
  <1>7. InTime(c)
    BY <1>6 DEF TimelyInv, Timely, Verdicts
  <1> QED
    BY <1>2, <1>4, <1>5, <1>6, <1>7 DEF Approved, Vouches, InTime

(***************************************************************************)
(* The whole way: behind every ALLOW the EA acts on stands an invocation   *)
(* that authenticated the EA's very message within the clock window and    *)
(* claimed its nonce, in which the ML model passed, and whose LLM allowed  *)
(* the trade (or vetoed it in shadow mode only) within the provider's      *)
(* timeout and in time for the deadline.                                   *)
(***************************************************************************)
THEOREM ActedApproved == ClientSpec => [](\A a \in acted : \E c \in Calls : Approved(a, c))
  <1>1. Spec => [](TraceInv /\ TimelyInv)
    BY InitType, StepType, InitTraced, StepTraced, InitTimely, StepTimely, PTL DEF Spec
  <1>2. ClientInv /\ TraceInv /\ TimelyInv => \A a \in acted : \E c \in Calls : Approved(a, c)
    BY ActedIsApproved
  <1> QED
    BY <1>1, <1>2, EaIsAnyClient, ClientInvHolds, PTL

=============================================================================
