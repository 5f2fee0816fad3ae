------------------------------ MODULE SimpleApp ------------------------------
(***************************************************************************)
(* The Simple firmware: the application thread of main.c with its batch    *)
(* buffer (batch.c), the measurement thread (main.c, sensor.c), the LTE    *)
(* callback (network.c) and the MQTT side of SimpleMqtt.                   *)
(*                                                                         *)
(* One turn of the loop in main() is the sequence of pc values             *)
(*   led, sleep, wait, collect, ack, timeout, update, (connect,            *)
(*   connecting,) publish, (send, sent,)                                   *)
(* with a step boundary wherever another thread can act on, or see, what   *)
(* the application thread touches. Time is left out: a deadline is a flag  *)
(* that becomes TRUE when the clock passes it.                             *)
(***************************************************************************)
EXTENDS SimpleMqtt, Sequences

CONSTANTS
    QueueLength,    \* MEASUREMENT_QUEUE_LENGTH, 8 in the code
    BatchCapacity,  \* CONFIG_AITSM_BATCH_CAPACITY, 28
    BatchSize       \* CONFIG_AITSM_BATCH_SIZE, 20

ASSUME AppConstants ==
    /\ QueueLength \in Nat \ {0}
    /\ BatchCapacity \in Nat
    /\ BatchSize \in 1 .. BatchCapacity

VARIABLES
    pc,                 \* where the application thread is
    events,             \* the bits k_event_wait_safe returned in this turn
    wakeup,             \* the deadline next_wakeup chose for this sleep
    mqtt_state, birth_acknowledged, bd_seq, seq, awaiting_puback, sent_count,
    puback_overdue,     \* k_uptime_get() >= puback_deadline_ms
    reconnect_due,      \* k_uptime_get() >= reconnect_at_ms
    batch,              \* buffer[0 .. count-1] of batch.c
    led,
    measurement_queue,
    sampler,            \* the measurement thread
    registered,         \* network.c
    lte                 \* the LTE callback: has it still to post NETWORK?

sessionVars == <<mqtt_state, birth_acknowledged, bd_seq, seq,
                 awaiting_puback, sent_count, puback_overdue>>
loopVars == <<events, wakeup, led>>
otherThreads == <<sampler, registered, lte>>
vars == <<mqttVars, pc, loopVars, sessionVars, reconnect_due, batch,
          measurement_queue, otherThreads>>

Range1(s) == {s[i] : i \in 1 .. Len(s)}

States == {"IDLE", "CONNECTING", "CONNECTED", "DISCONNECTING"}
Colors == {"OFF", "WHITE", "GREEN", "BLUE", "YELLOW"}
Steps == {"led", "sleep", "wait", "collect", "ack", "timeout", "update",
          "connect", "connecting", "publish", "send", "sent"}

TypeOK ==
    /\ MqttTypeOK
    /\ pc \in Steps
    /\ events \subseteq Events
    /\ wakeup \in {"puback", "reconnect", "forever"}
    /\ mqtt_state \in States
    /\ birth_acknowledged \in BOOLEAN
    /\ bd_seq \in Seqs
    /\ seq \in Seqs
    /\ awaiting_puback \in BOOLEAN
    /\ sent_count \in 0 .. BatchCapacity
    /\ puback_overdue \in BOOLEAN
    /\ reconnect_due \in BOOLEAN
    /\ batch \in Seq(Readings) /\ Len(batch) <= BatchCapacity
    /\ led \in Colors
    /\ measurement_queue \in Seq(Readings)
    /\ Len(measurement_queue) <= QueueLength
    /\ sampler \in {"time", "read", "post"}
    /\ registered \in BOOLEAN
    /\ lte \in {"idle", "post"}

\* After the init calls at the top of main() succeeded. The measurement thread
\* runs from boot and waits for the time; reconnect_at_ms is 0, long past.
Init ==
    /\ MqttInit
    /\ pc = "led"
    /\ events = {}
    /\ wakeup = "forever"
    /\ mqtt_state = "IDLE"
    /\ birth_acknowledged = FALSE
    /\ bd_seq = 0
    /\ seq = 0
    /\ awaiting_puback = FALSE
    /\ sent_count = 0
    /\ puback_overdue = FALSE
    /\ reconnect_due = TRUE
    /\ batch = <<>>
    /\ led = "OFF"
    /\ measurement_queue = <<>>
    /\ sampler = "time"
    /\ registered = FALSE
    /\ lte = "idle"

-----------------------------------------------------------------------------
(* The measurement thread and the LTE callback.                            *)

\* Names that still stand for a measurement somewhere on the device or on the
\* way. Any other name can be given to the next measurement.
InUse == Range1(measurement_queue) \cup Range1(batch)
         \cup UNION {m.data : m \in up}

\* aitsm_sensor_wait_for_time
TimeReady ==
    /\ sampler = "time"
    /\ sampler' = "read"
    /\ UNCHANGED <<mqttVars, pc, loopVars, sessionVars, reconnect_due, batch,
                   measurement_queue, registered, lte>>

\* A measurement is taken and put in the queue. A sensor that fails and a queue
\* that is full (the measurement is dropped) change nothing and are no step.
\* MEASUREMENT_PRIORITY is below that of the main thread, so no measurement is
\* taken while the application thread empties the queue.
Measure(r) ==
    /\ sampler = "read" /\ pc # "collect"
    /\ Len(measurement_queue) < QueueLength
    /\ r \notin InUse
    /\ measurement_queue' = Append(measurement_queue, r)
    /\ stored' = stored \ {r}
    /\ sampler' = "post"
    /\ UNCHANGED <<app_events, pending_message_id, message_id, helper, up, acks,
                   host_seq, host_bd, faults, pc, loopVars, sessionVars,
                   reconnect_due, batch, registered, lte>>

PostMeasurement ==
    /\ sampler = "post"
    /\ sampler' = "read"
    /\ Post("MEASUREMENT")
    /\ UNCHANGED <<pending_message_id, message_id, helper, up, acks, stored,
                   host_seq, host_bd, faults, pc, loopVars, sessionVars,
                   reconnect_due, batch, measurement_queue, registered, lte>>

\* lte_event_handler sets the flag; its call of network_handler follows.
Registered ==
    /\ lte = "idle" /\ ~registered
    /\ registered' = TRUE
    /\ lte' = "post"
    /\ UNCHANGED <<mqttVars, pc, loopVars, sessionVars, reconnect_due, batch,
                   measurement_queue, sampler>>

NetworkLost ==
    /\ lte = "idle" /\ registered
    /\ Fault
    /\ registered' = FALSE
    /\ lte' = "post"
    /\ UNCHANGED <<app_events, pending_message_id, message_id, helper, up, acks,
                   stored, host_seq, host_bd, pc, loopVars, sessionVars,
                   reconnect_due, batch, measurement_queue, sampler>>

\* The modem reports a status that changes nothing (SEARCHING, or a move from home
\* to roaming); the application is woken all the same.
StatusRepeated ==
    /\ lte = "idle"
    /\ lte' = "post"
    /\ UNCHANGED <<mqttVars, pc, loopVars, sessionVars, reconnect_due, batch,
                   measurement_queue, sampler, registered>>

NetworkHandler ==
    /\ lte = "post"
    /\ lte' = "idle"
    /\ Post("NETWORK")
    /\ UNCHANGED <<pending_message_id, message_id, helper, up, acks, stored,
                   host_seq, host_bd, faults, pc, loopVars, sessionVars,
                   reconnect_due, batch, measurement_queue, sampler, registered>>

-----------------------------------------------------------------------------
(* The clock.                                                              *)

\* Is there still something that can end the wait for the PUBACK?
AnswerOnTheWay ==
    \/ up # {} \/ acks # {}
    \/ helper = "closing"
    \/ {"PUBACK", "DISCONNECTED"} \cap (app_events \cup events) # {}

\* 120 s have passed since the publish. When the answer is merely late, that
\* counts as a fault.
PubackDeadline ==
    /\ awaiting_puback /\ ~puback_overdue
    /\ IF AnswerOnTheWay THEN Fault ELSE UNCHANGED faults
    /\ puback_overdue' = TRUE
    /\ UNCHANGED <<app_events, pending_message_id, message_id, helper, up, acks,
                   stored, host_seq, host_bd, pc, loopVars, mqtt_state,
                   birth_acknowledged, bd_seq, seq, awaiting_puback, sent_count,
                   reconnect_due, batch, measurement_queue, otherThreads>>

\* The 5 to 60 s before the next attempt have passed. Timing assumption: within
\* that time on_disconnect has followed the closing of the socket and has woken
\* the application thread.
ReconnectDue ==
    /\ mqtt_state = "IDLE" /\ ~reconnect_due
    /\ helper # "closing" /\ "DISCONNECTED" \notin app_events
    /\ reconnect_due' = TRUE
    /\ UNCHANGED <<mqttVars, pc, loopVars, sessionVars, batch,
                   measurement_queue, otherThreads>>

-----------------------------------------------------------------------------
(* The application thread.                                                 *)

At(step) == pc = step
Goto(step) == pc' = step

LedColor == CASE awaiting_puback -> "WHITE"
              [] ~awaiting_puback /\ mqtt_state = "CONNECTED" -> "GREEN"
              [] ~awaiting_puback /\ mqtt_state # "CONNECTED" /\ registered -> "BLUE"
              [] OTHER -> "YELLOW"

UpdateLed ==
    /\ At("led") /\ Goto("sleep")
    /\ led' = LedColor
    /\ UNCHANGED <<mqttVars, events, wakeup, sessionVars, reconnect_due, batch,
                   measurement_queue, otherThreads>>

NextWakeup ==
    IF awaiting_puback THEN "puback"
    ELSE IF mqtt_state = "IDLE" /\ registered THEN "reconnect"
    ELSE "forever"

\* Variant: k_event_wait with reset, which clears the bits before it waits.
ChooseWakeupResetsEvents ==
    /\ At("sleep") /\ Goto("wait")
    /\ wakeup' = NextWakeup
    /\ app_events' = {}
    /\ UNCHANGED <<pending_message_id, message_id, helper, up, acks, stored,
                   host_seq, host_bd, faults, events, led, sessionVars,
                   reconnect_due, batch, measurement_queue, otherThreads>>

ChooseWakeup ==
    /\ At("sleep") /\ Goto("wait")
    /\ wakeup' = NextWakeup
    /\ UNCHANGED <<mqttVars, events, led, sessionVars, reconnect_due, batch,
                   measurement_queue, otherThreads>>

\* k_event_wait_safe: the posted bits are read and cleared in one step.
WakeUp ==
    /\ At("wait") /\ Goto("collect")
    /\ \/ app_events # {}
       \/ wakeup = "puback" /\ puback_overdue
       \/ wakeup = "reconnect" /\ reconnect_due
    /\ events' = app_events
    /\ app_events' = {}
    /\ wakeup' = "forever"      \* dead until the next sleep
    /\ UNCHANGED <<pending_message_id, message_id, helper, up, acks, stored,
                   host_seq, host_bd, faults, led, sessionVars,
                   reconnect_due, batch, measurement_queue, otherThreads>>

\* Variants of the definitions below, each with one mistake; the checks of the
\* properties are validated against them.
BatchAddOffByOne(r) == IF Len(batch) <= BatchCapacity THEN Append(batch, r) ELSE batch
BatchAddOverwrites(r) == IF Len(batch) < BatchCapacity THEN Append(batch, r)
                         ELSE Append(Tail(batch), r)

\* aitsm_batch_add: the newest reading is skipped when the buffer is full.
BatchAdd(r) == IF Len(batch) < BatchCapacity THEN Append(batch, r) ELSE batch

\* aitsm_batch_remove: what was added meanwhile moves to the front.
BatchRemove(n) ==
    LET removed == IF n < Len(batch) THEN n ELSE Len(batch)
    IN  SubSeq(batch, removed + 1, Len(batch))

BatchReady == Len(batch) >= BatchSize

\* One pass of the loop in collect_measurements.
CollectMeasurement ==
    /\ At("collect")
    /\ measurement_queue # <<>>
    /\ batch' = BatchAdd(Head(measurement_queue))
    /\ measurement_queue' = Tail(measurement_queue)
    /\ UNCHANGED <<mqttVars, pc, loopVars, sessionVars, reconnect_due, otherThreads>>

QueueEmpty ==
    /\ At("collect") /\ Goto("ack")
    /\ measurement_queue = <<>>
    /\ UNCHANGED <<mqttVars, loopVars, sessionVars, reconnect_due, batch,
                   measurement_queue, otherThreads>>

\* Variant: seq goes on from the session before.
AcknowledgeKeepsSeq ==
    /\ awaiting_puback' = FALSE
    /\ IF ~birth_acknowledged
       THEN birth_acknowledged' = TRUE /\ UNCHANGED <<seq, batch>>
       ELSE /\ batch' = BatchRemove(sent_count)
            /\ seq' = NextSeq(seq)
            /\ UNCHANGED birth_acknowledged

\* The first PUBACK of a session is that of the NBIRTH; any later one is that
\* of the NDATA, and only then is the batch removed.
Acknowledge ==
    /\ awaiting_puback' = FALSE
    /\ IF ~birth_acknowledged
       THEN /\ birth_acknowledged' = TRUE
            /\ seq' = 1
            /\ UNCHANGED batch
       ELSE /\ batch' = BatchRemove(sent_count)
            /\ seq' = NextSeq(seq)
            /\ UNCHANGED birth_acknowledged

HandlePuback ==
    /\ At("ack") /\ Goto("timeout")
    /\ IF "PUBACK" \in events /\ awaiting_puback
       THEN Acknowledge
       ELSE UNCHANGED <<awaiting_puback, birth_acknowledged, seq, batch>>
    /\ UNCHANGED <<mqttVars, loopVars, mqtt_state, bd_seq, sent_count,
                   puback_overdue, reconnect_due, measurement_queue, otherThreads>>

\* Variant: the deadline is never looked at.
NoPubackTimeout ==
    /\ At("timeout") /\ Goto("update")
    /\ UNCHANGED <<mqttVars, loopVars, sessionVars, reconnect_due, batch,
                   measurement_queue, otherThreads>>

CheckPubackTimeout ==
    /\ At("timeout") /\ Goto("update")
    /\ IF awaiting_puback /\ puback_overdue
       THEN /\ awaiting_puback' = FALSE
            /\ mqtt_state' = "DISCONNECTING"
            /\ Disconnect
       ELSE UNCHANGED <<awaiting_puback, mqtt_state, helper, app_events>>
    /\ UNCHANGED <<pending_message_id, message_id, up, acks, stored, host_seq,
                   host_bd, faults, loopVars, birth_acknowledged, bd_seq, seq,
                   sent_count, puback_overdue, reconnect_due, batch,
                   measurement_queue, otherThreads>>

\* Variant: no delay before the next attempt.
ReconnectAtOnce == mqtt_state' = "IDLE" /\ UNCHANGED reconnect_due

\* schedule_reconnect
ScheduleReconnect == mqtt_state' = "IDLE" /\ reconnect_due' = FALSE

ConnectionEstablished == "CONNECTED" \in events /\ mqtt_state = "CONNECTING"
ConnectionEndedOnlyIfConnected ==
    "DISCONNECTED" \in events /\ mqtt_state = "CONNECTED"
ConnectionEnded == "DISCONNECTED" \in events /\ mqtt_state # "IDLE"
ReconnectNow == mqtt_state = "IDLE" /\ registered /\ reconnect_due

\* Variant: bdSeq stays.
EndSessionSameBdSeq ==
    /\ awaiting_puback' = FALSE
    /\ birth_acknowledged' = FALSE
    /\ UNCHANGED bd_seq
    /\ ScheduleReconnect

\* Unacknowledged readings stay in the batch; the next session is a new one.
EndSession ==
    /\ awaiting_puback' = FALSE
    /\ birth_acknowledged' = FALSE
    /\ bd_seq' = NextSeq(bd_seq)
    /\ ScheduleReconnect

\* update_connection up to the call of aitsm_mqtt_connect. CONNECTED is looked
\* at before DISCONNECTED, so a connection that came and went ends as IDLE; an
\* IDLE that has just begun is never due.
UpdateConnection ==
    /\ At("update")
    /\ \/ /\ ConnectionEnded
          /\ EndSession
          /\ Goto("publish")
       \/ /\ ~ConnectionEnded
          /\ mqtt_state' = IF ConnectionEstablished THEN "CONNECTED" ELSE mqtt_state
          /\ IF ReconnectNow THEN Goto("connect") ELSE Goto("publish")
          /\ UNCHANGED <<awaiting_puback, birth_acknowledged, bd_seq, reconnect_due>>
    /\ events' = {}    \* dead from here to the next wake-up
    /\ UNCHANGED <<mqttVars, wakeup, led, seq, sent_count, puback_overdue, batch,
                   measurement_queue, otherThreads>>

\* aitsm_mqtt_connect; it blocks, so callbacks and measurements run before the
\* result is stored in mqtt_state.
Connect ==
    /\ At("connect")
    /\ \/ HelperConnect /\ Goto("connecting")
          /\ UNCHANGED <<mqtt_state, reconnect_due>>
       \/ HelperConnectFails /\ Goto("publish") /\ ScheduleReconnect
    /\ UNCHANGED <<app_events, pending_message_id, message_id, up, acks, stored,
                   host_seq, host_bd, loopVars, birth_acknowledged, bd_seq, seq,
                   awaiting_puback, sent_count, puback_overdue, batch,
                   measurement_queue, otherThreads>>

ConnectReturns ==
    /\ At("connecting") /\ Goto("publish")
    /\ mqtt_state' = "CONNECTING"
    /\ UNCHANGED <<mqttVars, loopVars, birth_acknowledged, bd_seq, seq,
                   awaiting_puback, sent_count, puback_overdue, reconnect_due,
                   batch, measurement_queue, otherThreads>>

\* The conditions at the top of publish_next.
SendsBirth == mqtt_state = "CONNECTED" /\ ~awaiting_puback /\ ~birth_acknowledged
SendsDataWhileWaiting ==
    mqtt_state = "CONNECTED" /\ birth_acknowledged /\ BatchReady
SendsData ==
    /\ mqtt_state = "CONNECTED" /\ ~awaiting_puback /\ birth_acknowledged
    /\ BatchReady

NothingToPublish ==
    /\ At("publish") /\ Goto("led")
    /\ ~SendsBirth /\ ~SendsData
    /\ UNCHANGED <<mqttVars, loopVars, sessionVars, reconnect_due, batch,
                   measurement_queue, otherThreads>>

\* publish_next and the first half of aitsm_mqtt_publish. sent_count is set
\* before the outcome is known.
PublishNext ==
    /\ At("publish")
    /\ SendsBirth \/ SendsData
    /\ sent_count' = IF SendsData THEN Len(batch) ELSE sent_count
    /\ \/ ClaimPending /\ Goto("send")
       \/ PublishBusy /\ Goto("led")
    /\ UNCHANGED <<app_events, helper, up, acks, stored, host_seq, host_bd,
                   faults, loopVars, mqtt_state, birth_acknowledged, bd_seq, seq,
                   awaiting_puback, puback_overdue, reconnect_due, batch,
                   measurement_queue, otherThreads>>

\* The readings of the NDATA: the sent_count oldest of the buffer.
SentReadings == {batch[i] : i \in 1 .. sent_count}

\* aitsm_sparkplug_encode_nbirth and _ndata: the payload the broker will read.
Payload ==
    IF birth_acknowledged
    THEN [kind |-> "NDATA", id |-> message_id, number |-> seq, data |-> SentReadings]
    ELSE [kind |-> "NBIRTH", id |-> message_id, number |-> bd_seq, data |-> {}]

\* mqtt_helper_publish inside aitsm_mqtt_publish. The broker can have answered
\* before publish() notes that it waits.
Send ==
    /\ At("send")
    /\ \/ HelperPublish(Payload) /\ Goto("sent")
       \/ HelperPublishFails /\ Goto("led")
    /\ UNCHANGED <<app_events, message_id, helper, acks, stored, host_seq,
                   host_bd, loopVars, sessionVars, reconnect_due, batch,
                   measurement_queue, otherThreads>>

Sent ==
    /\ At("sent") /\ Goto("led")
    /\ awaiting_puback' = TRUE
    /\ puback_overdue' = FALSE
    /\ UNCHANGED <<mqttVars, loopVars, mqtt_state, birth_acknowledged, bd_seq, seq,
                   sent_count, reconnect_due, batch, measurement_queue, otherThreads>>

AppThread ==
    \/ UpdateLed \/ ChooseWakeup \/ WakeUp
    \/ CollectMeasurement \/ QueueEmpty
    \/ HandlePuback \/ CheckPubackTimeout \/ UpdateConnection
    \/ Connect \/ ConnectReturns
    \/ NothingToPublish \/ PublishNext \/ Send \/ Sent

Sampler == TimeReady \/ (\E r \in Readings : Measure(r)) \/ PostMeasurement

Lte == Registered \/ NetworkLost \/ StatusRepeated \/ NetworkHandler

Clock == PubackDeadline \/ ReconnectDue

\* A step of mqtt_helper or of the broker leaves the application alone.
MqttThread ==
    /\ Callbacks \/ Broker
    /\ UNCHANGED <<pc, loopVars, sessionVars, reconnect_due, batch,
                   measurement_queue, otherThreads>>

Next == AppThread \/ Sampler \/ Lte \/ Clock \/ MqttThread

Spec == Init /\ [][Next]_vars

(***************************************************************************)
(* Fairness. Every Zephyr thread that can run is scheduled in the end, the *)
(* clock goes on, and mqtt_helper, the network and the broker do what they *)
(* do when no fault interferes; the faults themselves are never forced.    *)
(***************************************************************************)
Fairness ==
    /\ WF_vars(AppThread)
    /\ WF_vars(TimeReady) /\ WF_vars(\E r \in Readings : Measure(r)) /\ WF_vars(PostMeasurement)
    /\ SF_vars(Registered) /\ WF_vars(NetworkHandler)
    /\ WF_vars(PubackDeadline /\ ~AnswerOnTheWay) /\ WF_vars(ReconnectDue)
    /\ WF_vars(MqttThread /\ OnConnack) /\ WF_vars(MqttThread /\ OnDisconnect)
    /\ WF_vars(MqttThread /\ \E id \in 1 .. MsgIds : OnPuback(id))
    /\ WF_vars(MqttThread /\ \E m \in up : BrokerReceive(m))

FairSpec == Spec /\ Fairness

-----------------------------------------------------------------------------
(* Safety.                                                                 *)

\* A reading leaves the batch buffer only when the broker has it: whatever
\* PUBACKs, timeouts and reconnects come between, aitsm_batch_remove takes away
\* nothing that was not in the acknowledged NDATA (main.c:159-160).
ReleasedOnlyStored ==
    [][Range1(batch) \ Range1(batch') \subseteq stored]_vars

\* While an NDATA is unacknowledged, the sent_count oldest readings of the
\* buffer are exactly the ones in it, and once its PUBACK is on the way to the
\* application the broker has all of them. A PUBACK of an earlier message can
\* thus never be taken for that of the current one (main.c:144-163).
PubackMeansStored ==
    awaiting_puback /\ birth_acknowledged =>
        /\ sent_count <= Len(batch)
        /\ \A m \in up : m.data = SentReadings
        /\ pending_message_id \in acks \/ "PUBACK" \in app_events \cup events =>
              SentReadings \subseteq stored

\* What the broker receives in a session is an NBIRTH with seq 0 and then NDATAs
\* whose seq goes up by one without a hole (docs/sparkplug.md:41-53), whatever
\* was lost or left over from the session before.
SparkplugOrder ==
    \A m \in up :
        IF m.kind = "NBIRTH" THEN host_seq = NoSeq
        ELSE host_seq # NoSeq /\ m.number = NextSeq(host_seq)

\* Two successive NBIRTHs that reach the broker carry different bdSeq, so the
\* host sees that a new session began. Needs fewer than SeqModulo closed
\* connections in between, as bdSeq wraps (main.c:205).
BirthsDiffer == \A m \in up : m.kind = "NBIRTH" => m.number # host_bd

\* aitsm_mqtt_publish never finds an old message in pending_message_id: -EBUSY,
\* which would block the connection until it is closed, does not occur
\* (mqtt_client.c:142).
NeverBusy == (SendsBirth \/ SendsData) /\ At("publish") => pending_message_id = 0

\* When the application believes it is idle, mqtt_helper has no live
\* connection, so that the next aitsm_mqtt_connect is not refused for ever; and
\* a CONNECTED application has one, or the event that says otherwise is under way.
StatesAgree ==
    /\ mqtt_state = "IDLE" /\ pc # "connecting" => helper \in {"closed", "closing"}
    /\ mqtt_state \in {"CONNECTED", "CONNECTING", "DISCONNECTING"} /\ helper = "closed" =>
          "DISCONNECTED" \in app_events \cup events

\* The application thread never sleeps over something that it has to act on:
\* with no event pending and no callback about to post one, the queue is empty,
\* the LED is right and the sleep ends at the deadline that matters
\* (main.c:297-306, 337-347).
NoLostWakeup ==
    At("wait") /\ app_events = {} /\ lte = "idle" /\ sampler # "post" =>
        /\ measurement_queue = <<>>
        /\ led = LedColor
        /\ wakeup = NextWakeup

-----------------------------------------------------------------------------
(* Why it works: an inductive invariant, in parts.                         *)

Told(event) == event \in app_events \cup events

\* events is a local variable of one turn, and handle_puback has dealt with a
\* PUBACK in it before the rest of the turn.
EventsAreLocal ==
    /\ pc \notin {"collect", "ack", "timeout", "update"} => events = {}
    /\ pc \in {"timeout", "update"} /\ "PUBACK" \in events => ~awaiting_puback

\* A connection attempt is under way: aitsm_mqtt_connect was called and its
\* outcome has not been read.
Attempting == mqtt_state = "CONNECTING" \/ pc = "connecting"

\* What mqtt_helper may be doing, given what the application believes and has
\* been told.
HelperFollows ==
    /\ helper = "connecting" => Attempting /\ ~Told("CONNECTED")
    /\ Told("DISCONNECTED") => helper \in {"closed", "closing"}
    /\ "DISCONNECTED" \in events => "CONNECTED" \notin app_events
    /\ helper = "closed" =>
          /\ acks = {}
          /\ pc # "send" => pending_message_id = 0
          /\ "PUBACK" \in app_events => "DISCONNECTED" \in app_events
          /\ mqtt_state # "IDLE" \/ pc = "connecting" => Told("DISCONNECTED")
    /\ mqtt_state = "IDLE" /\ pc # "connecting" =>
          /\ helper \in {"closed", "closing"}
          /\ "CONNECTED" \notin app_events
          /\ reconnect_due => helper = "closed" /\ "DISCONNECTED" \notin app_events

\* Where the application thread is tells what it believes.
ControlFits ==
    /\ pc = "connect" => mqtt_state = "IDLE" /\ reconnect_due
    /\ pc = "connecting" => mqtt_state = "IDLE"
    /\ pc \in {"send", "sent"} => mqtt_state = "CONNECTED" /\ ~awaiting_puback
    /\ pc = "send" /\ birth_acknowledged => sent_count = Len(batch)
    /\ awaiting_puback => mqtt_state = "CONNECTED"
    /\ mqtt_state \in {"IDLE", "CONNECTING"} => ~birth_acknowledged

\* Nothing of an older session is left when a new one begins.
CleanStart ==
    Attempting =>
        /\ pending_message_id = 0 /\ acks = {} /\ "PUBACK" \notin app_events
        /\ helper = "open" \/ Told("CONNECTED") => up = {} /\ host_seq = NoSeq

\* Between two publishes nothing is on the way, and the broker has seen exactly
\* what the application has been acknowledged.
Quiet ==
    mqtt_state = "CONNECTED" /\ ~awaiting_puback /\ pc # "sent" =>
        /\ up = {} /\ acks = {} /\ "PUBACK" \notin app_events
        /\ pc # "send" => pending_message_id = 0
        /\ IF birth_acknowledged THEN host_seq # NoSeq /\ seq = NextSeq(host_seq)
                                 ELSE host_seq = NoSeq

Outstanding == awaiting_puback \/ pc = "sent"

\* The outstanding message is in one place only: on its way, acknowledged by a
\* PUBACK on its way, or reported. From the broker on, it is known there.
InOnePlace ==
    /\ \A m, n \in up : m = n
    /\ Outstanding =>
        /\ birth_acknowledged => sent_count <= Len(batch)
        /\ \A m \in up : m = Payload
        /\ \A a, b \in acks : a = b
        /\ up # {} => acks = {} /\ ~Told("PUBACK")
        /\ acks # {} => ~Told("PUBACK")
        /\ Told("PUBACK") => pending_message_id = 0
        /\ ~("PUBACK" \in app_events /\ "PUBACK" \in events)
        /\ acks # {} \/ Told("PUBACK") =>
              IF birth_acknowledged
              THEN host_seq = seq /\ SentReadings \subseteq stored
              ELSE host_seq = 0

\* A name stands for one measurement at a time: what is in the queue is nowhere
\* else, and what is on the way to the broker is still at the front of the buffer,
\* in whatever session it was sent.
NamesAreFresh ==
    /\ \A i, j \in 1 .. Len(measurement_queue) :
          measurement_queue[i] = measurement_queue[j] => i = j
    /\ Range1(measurement_queue) \cap (Range1(batch) \cup stored) = {}
    /\ \A m \in up : \E n \in 0 .. Len(batch) : m.data = {batch[i] : i \in 1 .. n}

\* The conjunction is inductive. That no event, id or message outlives the
\* session it belongs to (main.c:194-218, mqtt_client.c:46-61) is what makes the
\* PUBACK bit, which carries no id, unambiguous.
Inductive ==
    /\ TypeOK
    /\ EventsAreLocal
    /\ HelperFollows
    /\ ControlFits
    /\ CleanStart
    /\ Quiet
    /\ InOnePlace
    /\ SparkplugOrder
    /\ NamesAreFresh

-----------------------------------------------------------------------------
(* The firmware implements the abstract outbox: its buffer is the batch.   *)

Outbox == INSTANCE Outbox WITH buffer <- batch, Capacity <- BatchCapacity

\* Every step of the firmware, its callbacks, the broker and the faults is a
\* step of Outbox or leaves buffer and stored alone: readings stay in order, only
\* the newest is skipped, and only what the broker has is released
\* (batch.c:19-51, main.c:122-163).
ImplementsOutbox == Outbox!Spec

-----------------------------------------------------------------------------
(* Liveness, under FairSpec.                                               *)

\* A full batch is delivered in the end: after finitely many faults of any kind
\* it reaches the broker and leaves the buffer.
Delivers == BatchReady ~> ~BatchReady

\* After the last fault the device is connected and announced for good; it never
\* stays behind in CONNECTING, DISCONNECTING or IDLE.
Recovers == <>[](mqtt_state = "CONNECTED" /\ birth_acknowledged)

==============================================================================
