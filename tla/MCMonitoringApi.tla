--------------------------- MODULE MCMonitoringApi ---------------------------
(***************************************************************************)
(* A small instance of MonitoringApi: one EA that sends a risk rejection,  *)
(* resends it, reuses its event id for another body at the same and at a   *)
(* later time, and sends heartbeats with old, equal and newer timestamps.  *)
(***************************************************************************)
EXTENDS MonitoringApi, TLC

CONSTANTS c1, c2, c3, ea, e1, n1, n2

Rejection == [api |-> "event", source |-> ea, id |-> e1, rejected |-> TRUE]
OtherEvent == [api |-> "event", source |-> ea, id |-> e1, rejected |-> FALSE]
SignOfLife == [api |-> "heartbeat", source |-> ea]

MCBodies == {Rejection, OtherEvent, SignOfLife}

Msg(body, ts, nonce) ==
    [body |-> body, bodyTs |-> ts, ts |-> ts, nonce |-> nonce,
     wellFormed |-> TRUE, signed |-> TRUE]

EventMessages ==
    {Msg(Rejection, 1, n1), Msg(Rejection, 1, n2), Msg(OtherEvent, 1, n2),
     Msg(OtherEvent, 2, n2)}

HeartbeatMessages ==
    {Msg(SignOfLife, 0, n1), Msg(SignOfLife, 0, n2), Msg(SignOfLife, 2, n2)}

MixedMessages == EventMessages \cup HeartbeatMessages

Symmetry == Permutations(Calls)

=============================================================================
