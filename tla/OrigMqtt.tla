------------------------------ MODULE OrigMqtt ------------------------------
(***************************************************************************)
(* The MQTT side of the Original firmware: mqtt_client.c with its worker   *)
(* thread (mqtt_workqueue) and the callbacks in mqtt_helper's thread, and  *)
(* what lies beyond it (mqtt_helper, the connection, the broker), which is *)
(* external and modelled from how mqtt_client.c uses it.                   *)
(*                                                                         *)
(* The counter generation is only ever incremented and compared for        *)
(* equality with values read from it earlier. The model keeps the set of   *)
(* those earlier values that are still equal to it.                        *)
(***************************************************************************)
EXTENDS Integers, Sequences, SequencesExt

CONSTANTS
    Readings,       \* names of measurements
    MsgIds,         \* message ids are 1..MsgIds, reused in turn (0 is none)
    Tokens,         \* publish tokens are 1..Tokens, reused in turn (0 is none)
    SeqModulo,      \* AITSM_SPARKPLUG_SEQ_MODULO, 256 in the code
    QueueLength,    \* AITSM_APP_EVENT_QUEUE_LENGTH, 16 in the code
    MaxFaults       \* bound: how many faults the environment commits

ASSUME OrigMqttConstants ==
    /\ MsgIds \in Nat \ {0}
    /\ Tokens \in Nat \ {0}
    /\ SeqModulo \in Nat \ {0, 1}
    /\ QueueLength \in Nat \ {0}
    /\ MaxFaults \in Nat

VARIABLES
    app_events,             \* the event queue of app_controller.c
    lte_available, helper_connected, connect_pending,
    current,                \* the copies of generation that still equal it
    active_publish_id, active_publish_token,
    publish_pending,
    publish,                \* publish_payload, publish_topic and publish_token
    next_publish_token,
    puback_armed,           \* puback_timeout is scheduled
    mqtt_workqueue,         \* the works submitted to the worker
    worker,                 \* what the worker is doing
    job,                    \* its local message_id and token
    callback,               \* the event a callback has still to post
    message_id,             \* the id mqtt_helper handed out last
    helper,                 \* the connection as mqtt_helper knows it
    up, acks,               \* messages and PUBACKs on their way, in order
    stored, host_seq, host_bd, faults   \* as in SimpleMqtt

connectionFlags == <<lte_available, helper_connected, connect_pending>>
publishState == <<active_publish_id, active_publish_token, publish_pending,
                  publish, next_publish_token, puback_armed>>
workerVars == <<mqtt_workqueue, worker, job>>
helperVars == <<callback, message_id, helper>>
brokerVars == <<up, acks, stored, host_seq, host_bd>>
mqttVars == <<app_events, connectionFlags, current, publishState, workerVars,
              helperVars, brokerVars, faults>>

Seqs == 0 .. SeqModulo - 1
NoSeq == -1
NextSeq(n) == (n + 1) % SeqModulo

\* What the worker is given to publish; number is the bdSeq of an NBIRTH and the
\* seq of an NDATA.
Payload == [token : 0 .. Tokens, kind : {"NBIRTH", "NDATA"}, number : Seqs,
            data : SUBSET Readings]
Message == [id : 1 .. MsgIds, kind : {"NBIRTH", "NDATA"}, number : Seqs,
            data : SUBSET Readings]
Works == {"connect", "publish", "disconnect", "timeout"}
Generations == {"connect", "publish", "active", "job"}

Event(type) == [type |-> type, token |-> 0, ok |-> FALSE]
Result(token, ok) == [type |-> "PUBLISH_RESULT", token |-> token, ok |-> ok]
NoEvent == Event("NONE")
EventTypes == {"LTE_SEARCHING", "LTE_CONNECTED", "LTE_DISCONNECTED",
               "MQTT_CONNECTED", "MQTT_DISCONNECTED", "MQTT_ERROR"}
Events == [type : EventTypes, token : {0}, ok : {FALSE}]
          \cup [type : {"PUBLISH_RESULT"}, token : 1 .. Tokens, ok : BOOLEAN]

MqttTypeOK ==
    /\ app_events \in Seq(Events) /\ Len(app_events) <= QueueLength
    /\ lte_available \in BOOLEAN /\ helper_connected \in BOOLEAN
    /\ connect_pending \in BOOLEAN /\ publish_pending \in BOOLEAN
    /\ puback_armed \in BOOLEAN
    /\ current \subseteq Generations
    /\ active_publish_id \in 0 .. MsgIds /\ active_publish_token \in 0 .. Tokens
    /\ publish \in Payload
    /\ next_publish_token \in 0 .. Tokens
    /\ mqtt_workqueue \in Seq(Works) /\ IsInjective(mqtt_workqueue)
    /\ worker \in {"idle", "connecting", "sending", "written"}
    /\ job \in [id : 0 .. MsgIds, token : 0 .. Tokens]
    /\ callback \in Events \cup {NoEvent}
    /\ message_id \in 1 .. MsgIds
    /\ helper \in {"closed", "connecting", "open", "closing"}
    /\ up \in Seq(Message) /\ acks \in Seq(1 .. MsgIds) /\ stored \subseteq Readings
    /\ host_seq \in Seqs \cup {NoSeq} /\ host_bd \in Seqs \cup {NoSeq}
    /\ faults \in 0 .. MaxFaults

MqttInit ==
    /\ app_events = <<>>
    /\ lte_available = FALSE /\ helper_connected = FALSE /\ connect_pending = FALSE
    /\ current = Generations        \* every copy is 0, as is generation
    /\ active_publish_id = 0 /\ active_publish_token = 0
    /\ publish_pending = FALSE
    /\ publish = [token |-> 0, kind |-> "NBIRTH", number |-> 0, data |-> {}]
    /\ next_publish_token = 0
    /\ puback_armed = FALSE
    /\ mqtt_workqueue = <<>> /\ worker = "idle" /\ job = [id |-> 0, token |-> 0]
    /\ callback = NoEvent /\ message_id = MsgIds /\ helper = "closed"
    /\ up = <<>> /\ acks = <<>> /\ stored = {} /\ host_seq = NoSeq /\ host_bd = NoSeq
    /\ faults = 0

\* post_event: an event that finds the queue full is lost.
Enqueue(queue, event) ==
    IF Len(queue) < QueueLength THEN Append(queue, event) ELSE queue
Post(event) == app_events' = Enqueue(app_events, event)

\* k_work_submit_to_queue: a work that waits already keeps its place.
Submit(queue, work) == IF Contains(queue, work) THEN queue ELSE Append(queue, work)

\* One fault of the environment; MaxFaults of them happen at most.
Fault == faults < MaxFaults /\ faults' = faults + 1

-----------------------------------------------------------------------------
(* The calls of the other modules. They do not block.                      *)

\* The PUBACK is not waited for any more; k_work_cancel_delayable also takes the
\* timeout out of the worker's queue.
ForgetPublishKeepsTimer == active_publish_id' = 0 /\ UNCHANGED puback_armed
ForgetPublish == active_publish_id' = 0 /\ puback_armed' = FALSE
NoTimeout == RemoveFirst(mqtt_workqueue, "timeout")

NewGeneration == current' = {}

\* aitsm_mqtt_disconnect
MqttDisconnect ==
    /\ NewGeneration /\ ForgetPublish
    /\ mqtt_workqueue' = Submit(NoTimeout, "disconnect")

\* aitsm_mqtt_set_lte_available(false)
MqttLteLost ==
    /\ lte_available' = FALSE
    /\ IF lte_available THEN MqttDisconnect
       ELSE UNCHANGED <<current, active_publish_id, puback_armed, mqtt_workqueue>>

\* The conditions of aitsm_mqtt_connect after the one on LTE.
ConnectAlready == helper_connected \/ connect_pending

\* aitsm_mqtt_connect, accepted.
MqttConnect ==
    /\ connect_pending' = TRUE
    /\ mqtt_workqueue' = Submit(mqtt_workqueue, "connect")

PublishRefusedOnlyPending == ~lte_available \/ ~helper_connected \/ publish_pending \* variant
\* aitsm_mqtt_publish_payload gives -ENOTCONN or -EBUSY.
PublishRefused ==
    \/ ~lte_available \/ ~helper_connected
    \/ publish_pending \/ active_publish_id # 0

NextTokenStays == IF next_publish_token = 0 THEN 1 ELSE next_publish_token \* variant
NextToken == (next_publish_token % Tokens) + 1

\* aitsm_mqtt_publish_payload, accepted: the payload is copied.
MqttPublish(kind, number, data) ==
    /\ publish_pending' = TRUE
    /\ publish' = [token |-> NextToken, kind |-> kind, number |-> number, data |-> data]
    /\ next_publish_token' = NextToken
    /\ current' = current \cup {"publish"}
    /\ mqtt_workqueue' = Submit(mqtt_workqueue, "publish")

-----------------------------------------------------------------------------
(* The worker. It takes one work at a time; a call into mqtt_helper lasts  *)
(* from one step to the next.                                              *)

Take1(work) ==
    /\ worker = "idle"
    /\ mqtt_workqueue # <<>> /\ Head(mqtt_workqueue) = work
    /\ mqtt_workqueue' = Tail(mqtt_workqueue)

ConnectWork ==
    /\ Take1("connect")
    /\ IF lte_available
       THEN /\ worker' = "connecting"
            /\ current' = current \cup {"connect"}
            /\ UNCHANGED connect_pending
       ELSE connect_pending' = FALSE /\ UNCHANGED <<worker, current>>
    /\ UNCHANGED <<app_events, lte_available, helper_connected, publishState, job,
                   helperVars, brokerVars, faults>>

\* mqtt_helper_connect returns 0: the request is sent.
ConnectReturns ==
    /\ worker = "connecting" /\ worker' = "idle"
    /\ helper = "closed" /\ helper' = "connecting"
    /\ UNCHANGED <<app_events, connectionFlags, current, publishState,
                   mqtt_workqueue, job, callback, message_id, brokerVars, faults>>

\* It returns an error, on its own or because a connection is still there.
ConnectFails ==
    /\ worker = "connecting" /\ worker' = "idle"
    /\ IF helper = "closed" THEN Fault ELSE UNCHANGED faults
    /\ connect_pending' = FALSE
    /\ IF lte_available /\ "connect" \in current
       THEN Post(Event("MQTT_ERROR")) ELSE UNCHANGED app_events
    /\ UNCHANGED <<lte_available, helper_connected, current, publishState,
                   mqtt_workqueue, job, helperVars, brokerVars>>

\* mqtt_helper_disconnect fails when the connection is going already; when it is
\* there, a failure is a fault.
DisconnectWork ==
    /\ Take1("disconnect")
    /\ IF helper_connected /\ helper = "open"
       THEN \/ helper' = "closing" /\ UNCHANGED faults
            \/ Fault /\ UNCHANGED helper
       ELSE UNCHANGED <<helper, faults>>
    /\ UNCHANGED <<app_events, connectionFlags, current, publishState, worker, job,
                   callback, message_id, brokerVars>>

\* mqtt_helper_msg_id_get
NextMessageId == (message_id % MsgIds) + 1

PublishWanted == lte_available /\ helper_connected /\ "publish" \in current

\* mqtt_publish_work_handler up to send_copied_payload. A payload of an earlier
\* generation is dropped, without a result.
PublishWork ==
    /\ Take1("publish")
    /\ IF PublishWanted
       THEN /\ message_id' = NextMessageId
            /\ active_publish_id' = NextMessageId
            /\ active_publish_token' = publish.token
            /\ current' = current \cup {"active", "job"}
            /\ job' = [id |-> NextMessageId, token |-> publish.token]
            /\ worker' = "sending"
            /\ UNCHANGED publish_pending
       ELSE /\ publish_pending' = FALSE
            /\ UNCHANGED <<message_id, active_publish_id, active_publish_token,
                           current, job, worker>>
    /\ UNCHANGED <<app_events, connectionFlags, publish, next_publish_token,
                   puback_armed, callback, helper, brokerVars, faults>>

\* mqtt_puback_timeout_handler up to send_copied_payload: the payload that is
\* still there is sent again under the same id.
TimeoutWork ==
    /\ Take1("timeout")
    /\ IF /\ ~publish_pending
          /\ active_publish_id # 0 /\ lte_available /\ helper_connected
          /\ "active" \in current
       THEN /\ publish_pending' = TRUE
            /\ current' = current \cup {"job"}
            /\ job' = [id |-> active_publish_id, token |-> active_publish_token]
            /\ worker' = "sending"
       ELSE UNCHANGED <<publish_pending, current, job, worker>>
    /\ UNCHANGED <<app_events, connectionFlags, active_publish_id,
                   active_publish_token, publish, next_publish_token, puback_armed,
                   helperVars, brokerVars, faults>>

\* mqtt_helper_publish wrote the payload to the socket.
Write ==
    /\ worker = "sending" /\ worker' = "written"
    /\ helper = "open"
    /\ up' = Append(up, [id |-> job.id, kind |-> publish.kind,
                         number |-> publish.number, data |-> publish.data])
    /\ UNCHANGED <<app_events, connectionFlags, current, publishState,
                   mqtt_workqueue, job, helperVars, acks, stored, host_seq, host_bd,
                   faults>>

\* The publish of the job is still the one that waits for a PUBACK.
JobIsActive == "job" \in current /\ active_publish_id = job.id

\* publish_sent with err = 0; the PUBACK may have come before.
PublishSent ==
    /\ worker = "written" /\ worker' = "idle"
    /\ publish_pending' = FALSE
    /\ puback_armed' = (puback_armed \/ JobIsActive)
    /\ UNCHANGED <<app_events, connectionFlags, current, active_publish_id,
                   active_publish_token, publish, next_publish_token,
                   mqtt_workqueue, job, helperVars, brokerVars, faults>>

\* mqtt_helper_publish failed, because there is no connection or on its own;
\* publish_sent reports it unless the session is over.
PublishFails ==
    /\ worker = "sending" /\ worker' = "idle"
    /\ IF helper = "open" THEN Fault ELSE UNCHANGED faults
    /\ publish_pending' = FALSE
    /\ IF JobIsActive
       THEN /\ ForgetPublish /\ mqtt_workqueue' = NoTimeout
            /\ Post(Result(job.token, FALSE))
       ELSE UNCHANGED <<active_publish_id, puback_armed, mqtt_workqueue, app_events>>
    /\ UNCHANGED <<connectionFlags, current, active_publish_token, publish,
                   next_publish_token, job, helperVars, brokerVars>>

\* A PUBACK, or the end of the connection, is under way.
AnswerOnTheWay == up # <<>> \/ acks # <<>> \/ helper # "open"

\* 30 to 300 s have passed since the write. When the answer is merely late, that
\* counts as a fault.
PubackTimeout ==
    /\ puback_armed /\ puback_armed' = FALSE
    /\ IF AnswerOnTheWay THEN Fault ELSE UNCHANGED faults
    /\ mqtt_workqueue' = Submit(mqtt_workqueue, "timeout")
    /\ UNCHANGED <<app_events, connectionFlags, current, active_publish_id,
                   active_publish_token, publish_pending, publish,
                   next_publish_token, worker, job, helperVars, brokerVars>>

-----------------------------------------------------------------------------
(* The callbacks. mqtt_helper's thread changes the state first and posts   *)
(* its event afterwards; the other threads may come in between.            *)

\* The condition of on_connack for a connection that nobody wants any more.
StaleConnack == ~lte_available \/ "connect" \notin current

\* on_connack, accepted. The broker starts a session and drops what is left of
\* the previous connection of this client id.
OnConnack ==
    /\ callback = NoEvent
    /\ helper = "connecting" /\ helper' = "open"
    /\ connect_pending' = FALSE
    /\ helper_connected' = TRUE
    /\ up' = <<>> /\ acks' = <<>> /\ host_seq' = NoSeq
    /\ IF StaleConnack
       THEN MqttDisconnect /\ UNCHANGED callback
       ELSE /\ callback' = Event("MQTT_CONNECTED")
            /\ UNCHANGED <<current, active_publish_id, puback_armed, mqtt_workqueue>>
    /\ UNCHANGED <<app_events, lte_available, active_publish_token, publish_pending,
                   publish, next_publish_token, worker, job, message_id, stored,
                   host_bd, faults>>

\* on_connack, refused; mqtt_helper closes the socket and on_disconnect follows.
OnConnackRefused ==
    /\ callback = NoEvent
    /\ helper = "connecting" /\ helper' = "closing"
    /\ Fault
    /\ connect_pending' = FALSE
    /\ callback' = IF StaleConnack THEN NoEvent ELSE Event("MQTT_ERROR")
    /\ UNCHANGED <<app_events, lte_available, helper_connected, current,
                   publishState, workerVars, message_id, brokerVars>>

OnDisconnect ==
    /\ callback = NoEvent
    /\ helper = "closing" /\ helper' = "closed"
    /\ helper_connected' = FALSE
    /\ connect_pending' = FALSE
    /\ NewGeneration /\ ForgetPublish /\ mqtt_workqueue' = NoTimeout
    /\ acks' = <<>>
    /\ callback' = Event("MQTT_DISCONNECTED")
    /\ UNCHANGED <<app_events, lte_available, active_publish_token,
                   publish_pending, publish, next_publish_token, worker, job,
                   message_id, up, stored, host_seq, host_bd, faults>>

\* The condition of on_puback for a PUBACK that somebody waits for.
PubackExpected(id) ==
    lte_available /\ "active" \in current /\ active_publish_id = id

\* on_puback; the broker may report a failure (result # 0), which is a fault.
OnPuback ==
    /\ callback = NoEvent
    /\ helper \in {"open", "closing"}
    /\ acks # <<>> /\ acks' = Tail(acks)
    /\ IF PubackExpected(Head(acks))
       THEN /\ ForgetPublish /\ mqtt_workqueue' = NoTimeout
            /\ \/ callback' = Result(active_publish_token, TRUE) /\ UNCHANGED faults
               \/ callback' = Result(active_publish_token, FALSE) /\ Fault
       ELSE UNCHANGED <<active_publish_id, puback_armed, mqtt_workqueue, callback, faults>>
    /\ UNCHANGED <<app_events, connectionFlags, current, active_publish_token,
                   publish_pending, publish, next_publish_token, worker, job,
                   message_id, helper, up, stored, host_seq, host_bd>>

OnError ==
    /\ callback = NoEvent
    /\ helper = "open" /\ Fault
    /\ callback' = Event("MQTT_ERROR")
    /\ UNCHANGED <<app_events, connectionFlags, current, publishState, workerVars,
                   message_id, helper, brokerVars>>

CallbackPosts ==
    /\ callback # NoEvent /\ callback' = NoEvent
    /\ Post(callback)
    /\ UNCHANGED <<connectionFlags, current, publishState, workerVars, message_id,
                   helper, brokerVars, faults>>

-----------------------------------------------------------------------------
(* The connection and the broker (external).                               *)

\* The broker receives a message and acknowledges it if the connection is still
\* there. Bytes sent before the connection closed may still arrive.
BrokerReceive ==
    /\ up # <<>> /\ up' = Tail(up)
    /\ LET m == Head(up) IN
        /\ acks' = IF helper = "open" THEN Append(acks, m.id) ELSE acks
        /\ stored' = stored \cup m.data
        /\ host_seq' = IF m.kind = "NBIRTH" THEN 0 ELSE m.number
        /\ host_bd' = IF m.kind = "NBIRTH" THEN m.number ELSE host_bd
    /\ UNCHANGED <<app_events, connectionFlags, current, publishState, workerVars,
                   helperVars, faults>>

\* The socket is lost and mqtt_helper notices.
ConnectionLost ==
    /\ helper \in {"connecting", "open"} /\ helper' = "closing"
    /\ Fault
    /\ UNCHANGED <<app_events, connectionFlags, current, publishState, workerVars,
                   callback, message_id, brokerVars>>

\* What was on the way never arrives, and nobody reports it.
TrafficLost ==
    /\ helper = "open" /\ (up # <<>> \/ acks # <<>>)
    /\ Fault
    /\ up' = <<>> /\ acks' = <<>>
    /\ UNCHANGED <<app_events, connectionFlags, current, publishState, workerVars,
                   helperVars, stored, host_seq, host_bd>>

Worker ==
    \/ ConnectWork \/ ConnectReturns \/ ConnectFails \/ DisconnectWork
    \/ PublishWork \/ TimeoutWork \/ Write \/ PublishSent \/ PublishFails

HelperThread ==
    \/ OnConnack \/ OnConnackRefused \/ OnDisconnect \/ OnPuback \/ OnError
    \/ CallbackPosts

Broker == BrokerReceive \/ ConnectionLost \/ TrafficLost

MqttStep == Worker \/ PubackTimeout \/ HelperThread \/ Broker
=============================================================================
