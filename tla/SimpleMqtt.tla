----------------------------- MODULE SimpleMqtt -----------------------------
(***************************************************************************)
(* The MQTT side of the Simple firmware: mqtt_client.c, its callbacks, and *)
(* what lies beyond it (NCS mqtt_helper, the TLS connection, the broker),  *)
(* which is external and modelled from how mqtt_client.c and main.c use it.*)
(*                                                                         *)
(* The application thread of SimpleApp calls Publish, Connect and          *)
(* Disconnect; the callbacks below run in mqtt_helper's thread and may run *)
(* between any two steps of the application thread.                        *)
(***************************************************************************)
EXTENDS Integers

CONSTANTS
    Readings,       \* names of measurements
    MsgIds,         \* message ids are 1..MsgIds, reused in turn (0 is none)
    SeqModulo,      \* AITSM_SPARKPLUG_SEQ_MODULO, 256 in the code
    MaxFaults       \* bound: how many faults the environment commits

ASSUME MqttConstants ==
    /\ MsgIds \in Nat \ {0}
    /\ SeqModulo \in Nat \ {0, 1}
    /\ MaxFaults \in Nat

VARIABLES
    app_events,         \* bits posted to the application and not yet read
    pending_message_id, \* the publish that waits for its PUBACK, 0 if none
    message_id,         \* the id mqtt_helper handed out last
    helper,             \* the connection as mqtt_helper knows it
    up,                 \* messages on the way to the broker
    acks,               \* ids of PUBACKs on the way to the device
    stored,             \* the readings the broker has received
    host_seq,           \* last seq the broker saw in this session, or NoSeq
    host_bd,            \* bdSeq of the last NBIRTH the broker saw, or NoSeq
    faults              \* faults so far

mqttVars == <<app_events, pending_message_id, message_id, helper, up, acks,
              stored, host_seq, host_bd, faults>>

Seqs == 0 .. SeqModulo - 1
NoSeq == -1

\* aitsm_sparkplug_next_seq
NextSeq(n) == (n + 1) % SeqModulo

\* What the host reads in a payload. number is bdSeq in an NBIRTH (whose seq
\* is always 0) and seq in an NDATA; data is the set of readings in an NDATA.
Message == [kind : {"NBIRTH", "NDATA"}, id : 1 .. MsgIds, number : Seqs,
            data : SUBSET Readings]

Events == {"MEASUREMENT", "NETWORK", "CONNECTED", "DISCONNECTED", "PUBACK"}

MqttTypeOK ==
    /\ app_events \subseteq Events
    /\ pending_message_id \in 0 .. MsgIds
    /\ message_id \in 1 .. MsgIds
    /\ helper \in {"closed", "connecting", "open", "closing"}
    /\ up \subseteq Message
    /\ acks \subseteq 1 .. MsgIds
    /\ stored \subseteq Readings
    /\ host_seq \in Seqs \cup {NoSeq}
    /\ host_bd \in Seqs \cup {NoSeq}
    /\ faults \in 0 .. MaxFaults

MqttInit ==
    /\ app_events = {}
    /\ pending_message_id = 0
    /\ message_id = MsgIds
    /\ helper = "closed"
    /\ up = {}
    /\ acks = {}
    /\ stored = {}
    /\ host_seq = NoSeq
    /\ host_bd = NoSeq
    /\ faults = 0

\* mqtt_handler: post a bit that the application has not read yet.
Post(event) == app_events' = app_events \cup {event}

\* One fault of the environment; MaxFaults of them happen at most.
Fault == faults < MaxFaults /\ faults' = faults + 1

-----------------------------------------------------------------------------
(* The calls of the application thread. Each leaves app_events to the      *)
(* caller where the call itself posts nothing.                             *)

\* mqtt_helper_msg_id_get
NextMessageId == (message_id % MsgIds) + 1

\* aitsm_mqtt_publish up to the compare-and-swap: TRUE-branch claims the
\* pending slot for a new id; when the slot is taken the call gives -EBUSY.
ClaimPending ==
    /\ pending_message_id = 0
    /\ message_id' = NextMessageId
    /\ pending_message_id' = NextMessageId

PublishBusy ==
    /\ pending_message_id # 0
    /\ message_id' = NextMessageId
    /\ UNCHANGED pending_message_id

\* mqtt_helper_publish wrote the message to the socket.
HelperPublish(m) ==
    /\ helper = "open"
    /\ up' = up \cup {m}
    /\ UNCHANGED <<pending_message_id, faults>>

\* mqtt_helper_publish failed, because there is no connection or on its own;
\* the slot is given back.
HelperPublishFails ==
    /\ \/ helper # "open" /\ UNCHANGED faults
       \/ helper = "open" /\ Fault
    /\ pending_message_id' = 0
    /\ UNCHANGED up

\* mqtt_helper_connect returned 0: the request is sent.
HelperConnect ==
    /\ helper = "closed"
    /\ helper' = "connecting"
    /\ UNCHANGED faults

HelperConnectFails ==
    /\ \/ helper # "closed" /\ UNCHANGED faults
       \/ helper = "closed" /\ Fault
    /\ UNCHANGED helper

\* aitsm_mqtt_disconnect: 0, and on_disconnect follows, when there is a
\* connection; an error, and nothing follows, when there is none. The caller
\* posts DISCONNECTED itself in the second case.
Disconnect ==
    \/ /\ helper = "open"
       /\ helper' = "closing"
       /\ UNCHANGED app_events
    \/ /\ helper # "open"
       /\ Post("DISCONNECTED")
       /\ UNCHANGED helper

-----------------------------------------------------------------------------
(* The callbacks, in mqtt_helper's thread.                                 *)

\* on_connack with MQTT_CONNECTION_ACCEPTED. The broker starts a session and
\* drops whatever is left of the previous connection of this client id.
OnConnack ==
    /\ helper = "connecting"
    /\ helper' = "open"
    /\ up' = {}
    /\ acks' = {}
    /\ host_seq' = NoSeq
    /\ Post("CONNECTED")
    /\ UNCHANGED <<pending_message_id, message_id, stored, host_bd, faults>>

\* on_connack with a refusal: nothing is reported yet; mqtt_helper closes the
\* socket and calls on_disconnect afterwards.
OnConnackRefused ==
    /\ helper = "connecting"
    /\ Fault
    /\ helper' = "closing"
    /\ UNCHANGED <<app_events, pending_message_id, message_id, up, acks,
                   stored, host_seq, host_bd>>

OnDisconnect ==
    /\ helper = "closing"
    /\ helper' = "closed"
    /\ acks' = {}
    /\ pending_message_id' = 0
    /\ Post("DISCONNECTED")
    /\ UNCHANGED <<message_id, up, stored, host_seq, host_bd, faults>>

\* on_puback: only the id that is waited for is reported, once.
OnPuback(id) ==
    /\ helper \in {"open", "closing"}
    /\ id \in acks
    /\ acks' = acks \ {id}
    /\ IF pending_message_id = id
       THEN pending_message_id' = 0 /\ Post("PUBACK")
       ELSE UNCHANGED <<pending_message_id, app_events>>
    /\ UNCHANGED <<message_id, helper, up, stored, host_seq, host_bd, faults>>

-----------------------------------------------------------------------------
(* The connection and the broker (external).                               *)

\* The broker receives a message and acknowledges it if the connection is
\* still there. Bytes sent before the connection closed may still arrive.
BrokerReceive(m) ==
    /\ m \in up
    /\ up' = up \ {m}
    /\ acks' = IF helper = "open" THEN acks \cup {m.id} ELSE acks
    /\ stored' = stored \cup m.data
    /\ host_seq' = IF m.kind = "NBIRTH" THEN 0 ELSE m.number
    /\ host_bd' = IF m.kind = "NBIRTH" THEN m.number ELSE host_bd
    /\ UNCHANGED <<app_events, pending_message_id, message_id, helper, faults>>

\* The socket is lost and mqtt_helper notices.
ConnectionLost ==
    /\ helper \in {"connecting", "open"}
    /\ Fault
    /\ helper' = "closing"
    /\ UNCHANGED <<app_events, pending_message_id, message_id, up, acks,
                   stored, host_seq, host_bd>>

\* The connection is dead without anyone reporting it: what was on the way
\* never arrives. A PUBACK with result # 0 is ignored by on_puback and has the
\* same effect.
TrafficLost ==
    /\ helper = "open"
    /\ up # {} \/ acks # {}
    /\ Fault
    /\ up' = {}
    /\ acks' = {}
    /\ UNCHANGED <<app_events, pending_message_id, message_id, helper, stored,
                   host_seq, host_bd>>

Callbacks ==
    \/ OnConnack
    \/ OnConnackRefused
    \/ OnDisconnect
    \/ \E id \in 1 .. MsgIds : OnPuback(id)

Broker ==
    \/ \E m \in up : BrokerReceive(m)
    \/ ConnectionLost
    \/ TrafficLost
=============================================================================
