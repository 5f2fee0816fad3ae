-------------------------- MODULE OrigMeasurement --------------------------
(***************************************************************************)
(* measurement_service.c and its buffer, data_transmission.c: what the     *)
(* Original firmware measures, when it publishes it, and when it lets go   *)
(* of it. Everything here runs on the system workqueue, one handler at a   *)
(* time; the controller of OrigApp calls the operators of the first part.  *)
(***************************************************************************)
EXTENDS OrigMqtt

CONSTANT Capacity       \* AITSM_MAX_MEASUREMENTS: 28, or 1 in single mode

ASSUME CapacityAssumption == Capacity \in Nat \ {0}

VARIABLES
    buffer,             \* measurement_buffer[0 .. measurement_count-1]
    next_seq,
    pending_measurement_count, pending_publish_token, publish_in_flight,
    mqtt_connected, birth_pending, birth_in_flight, bd_seq,
    publish_work        \* publish_work is scheduled

sessionFlags == <<mqtt_connected, birth_pending, birth_in_flight, publish_in_flight>>
pendingVars == <<pending_measurement_count, pending_publish_token>>
serviceVars == <<buffer, next_seq, pendingVars, sessionFlags, bd_seq, publish_work>>

ServiceTypeOK ==
    /\ buffer \in Seq(Readings) /\ Len(buffer) <= Capacity
    /\ next_seq \in Seqs /\ bd_seq \in Seqs
    /\ pending_measurement_count \in 0 .. Capacity
    /\ pending_publish_token \in 0 .. Tokens
    /\ publish_in_flight \in BOOLEAN /\ mqtt_connected \in BOOLEAN
    /\ birth_pending \in BOOLEAN /\ birth_in_flight \in BOOLEAN
    /\ publish_work \in BOOLEAN

\* aitsm_data_transmission_init, aitsm_measurement_service_init
ServiceInit ==
    /\ buffer = <<>> /\ next_seq = 1
    /\ pending_measurement_count = 0 /\ pending_publish_token = 0
    /\ publish_in_flight = FALSE /\ mqtt_connected = FALSE
    /\ birth_pending = FALSE /\ birth_in_flight = FALSE
    /\ bd_seq = 0 /\ publish_work = FALSE

Oldest(n) == {buffer[i] : i \in 1 .. n}
Held == Oldest(Len(buffer))

HasCapacityOffByOne == Len(buffer) <= Capacity      \* variant
HasCapacity == Len(buffer) < Capacity

\* aitsm_data_transmission_should_flush for a buffer of n readings: a full one
\* always, an empty one never; in between it depends on how old the first reading
\* is and on steps of the clock.
ShouldFlush(n) ==
    CASE n = 0 -> {FALSE}
      [] n >= Capacity -> {TRUE}
      [] OTHER -> BOOLEAN

\* aitsm_data_transmission_commit, for a count that the buffer has.
Commit(n) ==
    IF n \in 1 .. Len(buffer)
    THEN buffer' = SubSeq(buffer, n + 1, Len(buffer)) /\ next_seq' = NextSeq(next_seq)
    ELSE UNCHANGED <<buffer, next_seq>>

\* request_publish: k_work_schedule keeps a deadline that is set already.
Request(connected, in_flight) ==
    publish_work' = (publish_work \/ (connected /\ ~in_flight))

-----------------------------------------------------------------------------
(* The calls of the controller.                                            *)

\* aitsm_measurement_service_mqtt_connected
ServiceConnected ==
    /\ mqtt_connected' = TRUE
    /\ birth_pending' = TRUE
    /\ Request(TRUE, publish_in_flight)
    /\ UNCHANGED <<buffer, next_seq, pendingVars, publish_in_flight,
                   birth_in_flight, bd_seq>>

\* aitsm_measurement_service_mqtt_disconnected
ServiceDisconnectedInFlight ==                  \* variant: the publish goes on
    /\ mqtt_connected' = FALSE /\ birth_pending' = FALSE /\ publish_work' = FALSE
    /\ bd_seq' = NextSeq(bd_seq)
    /\ UNCHANGED <<buffer, next_seq, pendingVars, publish_in_flight, birth_in_flight>>
ServiceDisconnectedSameBdSeq ==                 \* variant: bdSeq stays
    /\ mqtt_connected' = FALSE /\ birth_pending' = FALSE
    /\ publish_in_flight' = FALSE /\ birth_in_flight' = FALSE
    /\ publish_work' = FALSE
    /\ UNCHANGED <<buffer, next_seq, pendingVars, bd_seq>>
ServiceDisconnected ==
    /\ mqtt_connected' = FALSE /\ birth_pending' = FALSE
    /\ publish_in_flight' = FALSE /\ birth_in_flight' = FALSE
    /\ publish_work' = FALSE
    /\ bd_seq' = NextSeq(bd_seq)
    /\ UNCHANGED <<buffer, next_seq, pendingVars>>

\* The result belongs to the publish that is in flight.
ResultExpectedAnyToken(token) == publish_in_flight              \* variant
ResultExpected(token) == publish_in_flight /\ token = pending_publish_token

BirthResult(ok) ==
    /\ birth_in_flight' = FALSE
    /\ birth_pending' = (birth_pending /\ ~ok)
    /\ next_seq' = IF ok THEN 1 ELSE next_seq       \* ..._start_session
    /\ Request(mqtt_connected, FALSE)
    /\ UNCHANGED <<buffer, pendingVars>>

DataResult(ok) ==
    /\ IF ok
       THEN /\ Commit(pending_measurement_count)
            /\ pending_measurement_count' = 0
            /\ \E flush \in ShouldFlush(Len(buffer')) :
                  Request(mqtt_connected /\ flush, FALSE)
       ELSE /\ Request(mqtt_connected, FALSE)
            /\ UNCHANGED <<buffer, next_seq, pending_measurement_count>>
    /\ UNCHANGED <<pending_publish_token, birth_pending, birth_in_flight>>

\* aitsm_measurement_service_publish_result
PublishResult(token, ok) ==
    IF ResultExpected(token)
    THEN /\ publish_in_flight' = FALSE
         /\ IF birth_in_flight THEN BirthResult(ok) ELSE DataResult(ok)
         /\ UNCHANGED <<mqtt_connected, bd_seq>>
    ELSE UNCHANGED serviceVars

-----------------------------------------------------------------------------
(* The two works of the service.                                           *)

\* Names that still stand for a reading on the device or on its way.
InUse ==
    Held \cup (UNION {up[i].data : i \in 1 .. Len(up)})
    \cup (IF publish_pending \/ active_publish_id # 0 THEN publish.data ELSE {})

\* measurement_work_handler. A slot without capacity and a sensor that fails
\* change nothing but counters and are no step.
MeasurementWork(r) ==
    /\ HasCapacity
    /\ r \notin InUse
    /\ buffer' = Append(buffer, r)
    /\ stored' = stored \ {r}
    /\ \E flush \in ShouldFlush(Len(buffer')) :
          IF pending_measurement_count # 0 \/ flush
          THEN Request(mqtt_connected, publish_in_flight)
          ELSE UNCHANGED publish_work
    /\ UNCHANGED <<app_events, connectionFlags, current, publishState, workerVars,
                   helperVars, up, acks, host_seq, host_bd, faults, next_seq,
                   pendingVars, sessionFlags, bd_seq>>

SendsBirthLast == birth_pending /\ buffer = <<>>    \* variant: data comes first
SendsBirth == birth_pending

\* publish_buffer got a payload through to the MQTT client.
Published ==
    /\ IF SendsBirth
       THEN /\ MqttPublish("NBIRTH", bd_seq, {})
            /\ birth_in_flight' = TRUE
            /\ UNCHANGED pending_measurement_count
       ELSE /\ MqttPublish("NDATA", next_seq, Held)
            /\ pending_measurement_count' = Len(buffer)
            /\ UNCHANGED birth_in_flight
    /\ pending_publish_token' = NextToken
    /\ publish_in_flight' = TRUE
    /\ publish_work' = FALSE

PublishUnchanged == UNCHANGED <<publish_pending, publish, next_publish_token, current,
    mqtt_workqueue, birth_in_flight, pendingVars, publish_in_flight>>

\* publish_work_handler. Whatever -ENOTCONN or -EBUSY refuses is tried again
\* after the measurement interval; an empty buffer ends the matter. A publish
\* while on_disconnect is due counts as a fault, as each retry takes 5 to 15 s.
PublishWorkHandler ==
    /\ publish_work
    /\ IF helper = "closing" THEN Fault ELSE UNCHANGED faults
    /\ IF ~mqtt_connected \/ publish_in_flight \/ (~SendsBirth /\ buffer = <<>>)
       THEN publish_work' = FALSE /\ PublishUnchanged
       ELSE IF PublishRefused THEN UNCHANGED publish_work /\ PublishUnchanged
       ELSE Published
    /\ UNCHANGED <<app_events, connectionFlags, active_publish_id,
                   active_publish_token, puback_armed, worker, job, helperVars,
                   brokerVars, buffer, next_seq, mqtt_connected, birth_pending,
                   bd_seq>>
=============================================================================
