------------------------------ MODULE OrigApp ------------------------------
(***************************************************************************)
(* The Original firmware put together: app_controller.c with the reconnect *)
(* state machine of OrigReconnect, fed by network.c (LTE) and by the       *)
(* callbacks and the worker of OrigMqtt through the bounded event queue,   *)
(* and the measurement service of OrigMeasurement.                         *)
(*                                                                         *)
(* Handlers on the system workqueue (a cooperative thread) are single      *)
(* steps, one per event. Time is left out: a delayed work that is          *)
(* scheduled may run at any moment.                                        *)
(***************************************************************************)
EXTENDS OrigMeasurement, OrigReconnect

VARIABLES
    reconnect,          \* the state of the reconnect state machine
    reconnect_work,     \* reconnect_work is scheduled
    led,                \* the last stable status given to led_status_set
    modem               \* the registration status last reported by the modem

vars == <<mqttVars, serviceVars, reconnect, reconnect_work, led, modem>>

Statuses == {"SEARCHING", "LTE_CONNECTED", "MQTT_CONNECTED", "DISCONNECTED", "ERROR"}
Registrations == {"LTE_SEARCHING", "LTE_CONNECTED", "LTE_DISCONNECTED"}

TypeOK ==
    /\ MqttTypeOK /\ ServiceTypeOK
    /\ reconnect \in ReconnectState /\ reconnect_work \in BOOLEAN
    /\ led \in Statuses /\ modem \in Registrations

\* After main() and network_init, before the modem reports anything.
Init ==
    /\ MqttInit /\ ServiceInit
    /\ reconnect = ReconnectInit /\ reconnect_work = FALSE
    /\ led = "SEARCHING" /\ modem = "LTE_SEARCHING"

\* lte_event_handler: the modem reports a registration status, perhaps again.
\* Losing the network is a fault, and so is every repeated report.
LteEvent(status) ==
    /\ IF modem # "LTE_CONNECTED" /\ status = "LTE_CONNECTED"
       THEN UNCHANGED faults ELSE Fault
    /\ modem' = status
    /\ Post(Event(status))
    /\ UNCHANGED <<connectionFlags, current, publishState, workerVars, helperVars,
                   brokerVars, serviceVars, reconnect, reconnect_work, led>>

-----------------------------------------------------------------------------
(* apply_reconnect, by the kind of action it may have to take.             *)

\* SCHEDULE, CANCEL or NONE.
Apply(answer) ==
    /\ reconnect' = answer.state
    /\ reconnect_work' = CASE answer.action = "SCHEDULE" -> TRUE
                           [] answer.action = "CANCEL" -> FALSE
                           [] OTHER -> reconnect_work

\* CONNECT or NONE; rest is the queue without the event that is being handled.
\* A refusal of aitsm_mqtt_connect comes back as an event.
ApplyConnectSilently(answer, rest) ==       \* variant: the refusal is ignored
    /\ reconnect' = answer.state
    /\ app_events' = rest
    /\ IF answer.action # "CONNECT" \/ ConnectAlready
       THEN UNCHANGED <<connect_pending, mqtt_workqueue>> ELSE MqttConnect
ApplyConnect(answer, rest) ==
    /\ reconnect' = answer.state
    /\ IF answer.action # "CONNECT" \/ ConnectAlready
       THEN UNCHANGED <<connect_pending, mqtt_workqueue>> ELSE MqttConnect
    /\ app_events' = IF answer.action = "CONNECT" /\ ConnectAlready
                     THEN Enqueue(rest, Event("MQTT_ERROR")) ELSE rest

-----------------------------------------------------------------------------
(* handle_event, one action per event.                                     *)

Handles(type) == app_events # <<>> /\ Head(app_events).type = type
Rest == Tail(app_events)

\* lte_lost, then the LED.
HandleLteLost ==
    /\ \/ Handles("LTE_SEARCHING") /\ led' = "SEARCHING"
       \/ Handles("LTE_DISCONNECTED") /\ led' = "DISCONNECTED"
    /\ app_events' = Rest
    /\ MqttLteLost /\ ServiceDisconnected /\ Apply(HandleLteDown(reconnect))
    /\ UNCHANGED <<helper_connected, connect_pending, active_publish_token,
                   publish_pending, publish, next_publish_token, worker, job,
                   helperVars, brokerVars, faults, modem>>

HandleLteConnected ==
    /\ Handles("LTE_CONNECTED")
    /\ lte_available' = TRUE
    /\ led' = IF reconnect.phase = "CONNECTED" THEN led ELSE "LTE_CONNECTED"
    /\ ApplyConnect(HandleLteUp(reconnect), Rest)
    /\ UNCHANGED <<helper_connected, current, publishState, worker, job, helperVars,
                   brokerVars, faults, serviceVars, reconnect_work, modem>>

\* Variant: MQTT_CONNECTED is believed whatever happened to LTE meanwhile.
MqttConnectedIsStaleNever == FALSE
MqttConnectedIsStale == ~reconnect.lte_available

HandleMqttConnected ==
    /\ Handles("MQTT_CONNECTED")
    /\ app_events' = Rest
    /\ IF MqttConnectedIsStale
       THEN MqttDisconnect /\ UNCHANGED <<reconnect, reconnect_work, serviceVars, led>>
       ELSE /\ Apply(HandleMqttUp(reconnect))
            /\ ServiceConnected /\ led' = "MQTT_CONNECTED"
            /\ UNCHANGED <<current, active_publish_id, puback_armed, mqtt_workqueue>>
    /\ UNCHANGED <<connectionFlags, active_publish_token, publish_pending, publish,
                   next_publish_token, worker, job, helperVars, brokerVars, faults,
                   modem>>

HandleMqttDisconnected ==
    /\ Handles("MQTT_DISCONNECTED")
    /\ app_events' = Rest
    /\ led' = CASE ~reconnect.lte_available -> "DISCONNECTED"
                [] reconnect.lte_available /\ reconnect.phase # "WAITING" -> "LTE_CONNECTED"
                [] OTHER -> led
    /\ ServiceDisconnected /\ Apply(HandleFailure(reconnect))
    /\ UNCHANGED <<connectionFlags, current, publishState, workerVars, helperVars,
                   brokerVars, faults, modem>>

HandleMqttError ==
    /\ Handles("MQTT_ERROR")
    /\ app_events' = Rest
    /\ IF reconnect.lte_available
       THEN led' = "ERROR" /\ MqttDisconnect
       ELSE UNCHANGED <<led, current, active_publish_id, puback_armed, mqtt_workqueue>>
    /\ ServiceDisconnected /\ Apply(HandleFailure(reconnect))
    /\ UNCHANGED <<connectionFlags, active_publish_token, publish_pending, publish,
                   next_publish_token, worker, job, helperVars, brokerVars, faults,
                   modem>>

\* The flash that follows is in OrigLed.
HandlePublishResult ==
    /\ Handles("PUBLISH_RESULT")
    /\ app_events' = Rest
    /\ PublishResult(Head(app_events).token, Head(app_events).ok)
    /\ UNCHANGED <<connectionFlags, current, publishState, workerVars, helperVars,
                   brokerVars, faults, reconnect, reconnect_work, led, modem>>

\* The last attempt, or the report of how it ended, is still under way.
Unsettled ==
    \/ worker # "idle" \/ mqtt_workqueue # <<>>
    \/ helper \in {"connecting", "closing"}
    \/ callback # NoEvent \/ app_events # <<>>

\* reconnect_work_handler. That the 5 to 60 s are over before the last attempt is
\* settled counts as a fault.
ReconnectWork ==
    /\ reconnect_work /\ reconnect_work' = FALSE
    /\ IF Unsettled THEN Fault ELSE UNCHANGED faults
    /\ ApplyConnect(HandleTimer(reconnect), app_events)
    /\ UNCHANGED <<lte_available, helper_connected, current, publishState, worker,
                   job, helperVars, brokerVars, serviceVars, led, modem>>

EventWork ==
    \/ HandleLteLost \/ HandleLteConnected \/ HandleMqttConnected
    \/ HandleMqttDisconnected \/ HandleMqttError \/ HandlePublishResult

ServiceWork ==
    /\ PublishWorkHandler \/ \E r \in Readings : MeasurementWork(r)
    /\ UNCHANGED <<reconnect, reconnect_work, led, modem>>

Modem == \E status \in Registrations : LteEvent(status)

Mqtt == MqttStep /\ UNCHANGED <<serviceVars, reconnect, reconnect_work, led, modem>>

Next == EventWork \/ ReconnectWork \/ ServiceWork \/ Modem \/ Mqtt

Spec == Init /\ [][Next]_vars

-----------------------------------------------------------------------------
(* Safety.                                                                 *)

Queued(e) == Contains(app_events, e) \/ callback = e

\* A name is given only when nothing is left of what had it before: no result with
\* the token of a new publish is on its way, no message or PUBACK with its id. The
\* results that tell the truth rest on it: tokens are reused after 2^32 publishes,
\* ids after 2^16, and what is left over is no more than the events of the queue and
\* the traffic of one connection (mqtt_client.c:135-147, 292, measurement_service.c:222).
NamesFresh ==
    /\ publish_in_flight' /\ ~publish_in_flight =>
          \A ok \in BOOLEAN : ~Queued(Result(pending_publish_token', ok))
    /\ active_publish_id' # 0 /\ active_publish_id = 0 =>
          /\ ~Contains(acks, active_publish_id')
          /\ \A i \in 1 .. Len(up) : up[i].id # active_publish_id'
NamesAreFresh == [][NamesFresh]_vars

\* A result that will be believed tells the truth: while a publish is in flight,
\* a positive result with its token, anywhere on its way to the service, means
\* that the broker has the NBIRTH of this session, or every reading that the
\* result will remove from the buffer (measurement_service.c:222-243).
ResultMeansStored ==
    publish_in_flight /\ Queued(Result(pending_publish_token, TRUE)) =>
        IF birth_in_flight THEN host_seq = 0
        ELSE /\ pending_measurement_count \in 1 .. Len(buffer)
             /\ Oldest(pending_measurement_count) \subseteq stored

\* What the broker receives in a session is an NBIRTH, perhaps repeated, then
\* NDATAs whose seq goes up by one, each perhaps repeated; nothing that was left
\* over from the session before.
SparkplugOrder ==
    LET Seen(i) == IF i = 0 THEN host_seq
                   ELSE IF up[i].kind = "NBIRTH" THEN 0 ELSE up[i].number
    IN  \A i \in 1 .. Len(up) :
            IF up[i].kind = "NBIRTH" THEN Seen(i - 1) \in {NoSeq, 0}
            ELSE /\ Seen(i - 1) # NoSeq
                 /\ up[i].number \in {Seen(i - 1), NextSeq(Seen(i - 1))}

\* The NBIRTH of a new session has another bdSeq than the one before. Needs fewer
\* than SeqModulo reports of a lost connection in between, as bdSeq wraps.
BirthsDiffer ==
    host_seq = NoSeq =>
        \A i \in 1 .. Len(up) : up[i].kind = "NBIRTH" => up[i].number # host_bd

\* The worker's copy of the payload stays as it is as long as a write or a
\* PUBACK is outstanding (mqtt_client.c:43-48, docs/puback-genforsoeg.md:5-8).
PayloadKept ==
    [][active_publish_id # 0 \/ worker \in {"sending", "written"} => publish' = publish]_vars

\* The connection is on its way down, or word of that is on its way to the
\* controller.
GoingDown ==
    \/ helper = "closing"
    \/ helper_connected /\ Contains(mqtt_workqueue, "disconnect")
    \/ \E type \in EventTypes \ {"MQTT_CONNECTED", "LTE_CONNECTED"} : Queued(Event(type))

\* No publish is forgotten. Whatever the measurement service believes to be in
\* flight is in the hands of the worker or waits for a PUBACK with the timer
\* running, or its result or the end of the connection is on its way: the payload
\* that mqtt_publish_work_handler drops without a result, and a timer that fires
\* without effect, never leave it waiting for ever (mqtt_client.c:220-225, 240).
InFlightIsAnswered ==
    publish_in_flight =>
        \/ GoingDown
        \/ \E ok \in BOOLEAN : Queued(Result(pending_publish_token, ok))
        \/ /\ publish_pending /\ publish.token = pending_publish_token
           /\ \/ Contains(mqtt_workqueue, "publish") /\ "publish" \in current
              \/ worker \in {"sending", "written"} /\ JobIsActive
        \/ /\ active_publish_id # 0 /\ "active" \in current
           /\ active_publish_token = pending_publish_token
           /\ puback_armed \/ Contains(mqtt_workqueue, "timeout")

\* The controller is never left without a next event: while LTE is up, a WAITING
\* one has its timer and only a WAITING one has; a CONNECTING one has an attempt
\* under way, or the report of its end; a CONNECTED one has the connection, or
\* the report of its end (app_controller.c:18-45, mqtt_client.c:91-127).
ControllerIsServed ==
    /\ reconnect_work <=> reconnect.lte_available /\ reconnect.phase = "WAITING"
    /\ reconnect.phase = "CONNECTING" =>
        \/ Contains(mqtt_workqueue, "connect") \/ worker = "connecting"
        \/ helper = "connecting" \/ Queued(Event("MQTT_CONNECTED")) \/ GoingDown
    /\ reconnect.phase = "CONNECTED" => helper_connected \/ GoingDown

\* The service publishes only what the controller believes to be connected, and a
\* full buffer never waits for nothing: it is being sent, or about to be.
ServiceIsServed ==
    /\ mqtt_connected <=> reconnect.phase = "CONNECTED"
    /\ mqtt_connected /\ (birth_pending \/ Len(buffer) = Capacity) =>
          publish_work \/ publish_in_flight

\* The LED tells the truth about the connection: cyan exactly while the
\* controller is connected, red or blue whenever LTE is down.
LedTellsTruth ==
    /\ led = "MQTT_CONNECTED" <=> reconnect.phase = "CONNECTED"
    /\ ~reconnect.lte_available => led \in {"SEARCHING", "DISCONNECTED"}

\* The firmware implements the same abstract outbox as the Simple one.
Outbox == INSTANCE Outbox
ImplementsOutbox == Outbox!Spec

-----------------------------------------------------------------------------
(* Liveness.                                                               *)

(***************************************************************************)
(* Fairness. Both workqueues and mqtt_helper's thread run in the end, the  *)
(* clock goes on, the modem registers again and the broker answers when no *)
(* fault interferes; faults are never forced.                              *)
(***************************************************************************)
Fairness ==
    /\ WF_vars(EventWork)
    /\ WF_vars(ReconnectWork /\ ~Unsettled)
    /\ WF_vars(ServiceWork /\ publish_work)
    /\ WF_vars(ServiceWork /\ ~publish_work)
    /\ WF_vars(LteEvent("LTE_CONNECTED") /\ modem # "LTE_CONNECTED")
    /\ WF_vars(Mqtt /\ Worker)
    /\ WF_vars(Mqtt /\ PubackTimeout /\ ~AnswerOnTheWay)
    /\ WF_vars(Mqtt /\ HelperThread)
    /\ WF_vars(Mqtt /\ BrokerReceive)

FairSpec == Spec /\ Fairness

\* After the last fault the device is connected and announced for good.
Recovers ==
    <>[](reconnect.phase = "CONNECTED" /\ helper = "open" /\ mqtt_connected /\ ~birth_pending)

\* A full buffer is delivered in the end.
Delivers == Len(buffer) = Capacity ~> Len(buffer) < Capacity
=============================================================================
