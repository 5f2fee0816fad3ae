--------------------------- MODULE OrigApp_proofs ---------------------------
(* The safety of OrigApp for every value of its constants.                 *)
EXTENDS OrigApp_types

-----------------------------------------------------------------------------
(* Who changes what.                                                       *)

Measures == \E r \in Readings : MeasurementWork(r)

\* Only an accepted publish changes the payload and the token that is waited for.
LEMMA WhoChangesPublish ==
    ASSUME [Next]_vars
    PROVE  /\ UNCHANGED <<publish, pending_publish_token>> \/ PublishAccepted
           /\ UNCHANGED message_id \/ PublishWork
           /\ active_publish_id' \in {0, active_publish_id} \/ PublishWork
  <1> USE DEF pendingVars, serviceVars, publishState, workerVars, helperVars, ForgetPublish,
              MqttDisconnect, NewGeneration
  <1>1. CASE EventWork
    BY <1>1 DEF EventWork, HandleLteLost, MqttLteLost, HandleLteConnected,
       HandleMqttConnected, HandleMqttDisconnected, HandleMqttError, HandlePublishResult,
       ServiceConnected, ServiceDisconnected, PublishResult, BirthResult, DataResult
  <1>2. CASE PublishWorkHandler
    BY <1>2, PublishCases DEF PublishWorkHandler, PublishUnchanged
  <1>3. CASE ReconnectWork \/ Modem \/ Measures \/ UNCHANGED vars
    BY <1>3 DEF ReconnectWork, Modem, LteEvent, Measures, MeasurementWork, vars, mqttVars
  <1>4. CASE Mqtt /\ (Worker \/ PubackTimeout)
    BY <1>4 DEF Mqtt, Worker, ConnectWork, ConnectReturns, ConnectFails, DisconnectWork,
       PublishWork, TimeoutWork, Write, PublishSent, PublishFails, PubackTimeout
  <1>5. CASE Mqtt /\ (HelperThread \/ Broker)
    BY <1>5 DEF Mqtt, HelperThread, OnConnack, OnConnackRefused, OnDisconnect, OnPuback,
       OnError, CallbackPosts, Broker, BrokerReceive, ConnectionLost, TrafficLost
  <1> QED
    BY <1>1, <1>2, <1>3, <1>4, <1>5 DEF Next, Mqtt, MqttStep, ServiceWork, Measures

\* What becomes of the copies of the generation.
LEMMA WhoCopies ==
    ASSUME [Next]_vars
    PROVE  \/ current' \in {current, {}} \/ PublishWork
           \/ PublishAccepted /\ current' = current \cup {"publish"}
           \/ current' = current \cup {"connect"}
           \/ TimeoutWork /\ current' = current \cup {"job"}
  <1> USE DEF publishState, workerVars, helperVars, ForgetPublish, MqttDisconnect, NewGeneration
  <1>1. CASE EventWork
    BY <1>1 DEF EventWork, HandleLteLost, MqttLteLost, HandleLteConnected,
       HandleMqttConnected, HandleMqttDisconnected, HandleMqttError, HandlePublishResult,
       ServiceConnected, ServiceDisconnected, PublishResult, BirthResult, DataResult
  <1>2. CASE PublishWorkHandler
    BY <1>2, PublishCases DEF PublishWorkHandler, PublishAccepted, Published,
       PublishUnchanged, MqttPublish
  <1>3. CASE ReconnectWork \/ Modem \/ Measures \/ UNCHANGED vars
    BY <1>3 DEF ReconnectWork, Modem, LteEvent, Measures, MeasurementWork, vars, mqttVars
  <1>4. CASE Mqtt /\ (Worker \/ PubackTimeout)
    BY <1>4 DEF Mqtt, Worker, ConnectWork, ConnectReturns, ConnectFails, DisconnectWork,
       PublishWork, TimeoutWork, Write, PublishSent, PublishFails, PubackTimeout
  <1>5. CASE Mqtt /\ (HelperThread \/ Broker)
    BY <1>5 DEF Mqtt, HelperThread, OnConnack, OnConnackRefused, OnDisconnect, OnPuback,
       OnError, CallbackPosts, Broker, BrokerReceive, ConnectionLost, TrafficLost
  <1> QED
    BY <1>1, <1>2, <1>3, <1>4, <1>5 DEF Next, Mqtt, MqttStep, ServiceWork, Measures

\* Whose copies of the generation become current.
LEMMA WhoChangesCurrent ==
    ASSUME [Next]_vars
    PROVE  /\ "publish" \in current' => "publish" \in current \/ PublishAccepted
           /\ "active" \in current' => "active" \in current \/ PublishWork
  <1>1. PublishWork => current' \subseteq current \cup {"active", "job"}
    BY DEF PublishWork
  <1> QED
    BY <1>1, WhoCopies

\* The worker and the connection.
LEMMA WhoChangesWorker ==
    ASSUME [Next]_vars
    PROVE  /\ UNCHANGED worker \/ worker' = "idle" \/ ConnectWork \/ PublishWork
              \/ TimeoutWork \/ Write
           /\ UNCHANGED helper \/ ConnectReturns \/ DisconnectWork \/ OnConnack
              \/ OnConnackRefused \/ OnDisconnect \/ ConnectionLost
  <1> USE DEF workerVars, helperVars
  <1>1. CASE EventWork
    BY <1>1 DEF EventWork, HandleLteLost, MqttLteLost, HandleLteConnected,
       HandleMqttConnected, HandleMqttDisconnected, HandleMqttError, HandlePublishResult,
       ServiceConnected, ServiceDisconnected, PublishResult, BirthResult, DataResult
  <1>2. CASE PublishWorkHandler
    BY <1>2, PublishCases DEF PublishWorkHandler, PublishUnchanged
  <1>3. CASE ReconnectWork \/ Modem \/ Measures \/ UNCHANGED vars
    BY <1>3 DEF ReconnectWork, Modem, LteEvent, Measures, MeasurementWork, vars, mqttVars
  <1>4. CASE Mqtt /\ (Worker \/ PubackTimeout)
    BY <1>4 DEF Mqtt, Worker, ConnectWork, ConnectReturns, ConnectFails, DisconnectWork,
       PublishWork, TimeoutWork, Write, PublishSent, PublishFails, PubackTimeout
  <1>5. CASE Mqtt /\ (HelperThread \/ Broker)
    BY <1>5 DEF Mqtt, HelperThread, OnConnack, OnConnackRefused, OnDisconnect, OnPuback,
       OnError, CallbackPosts, Broker, BrokerReceive, ConnectionLost, TrafficLost
  <1> QED
    BY <1>1, <1>2, <1>3, <1>4, <1>5 DEF Next, Mqtt, MqttStep, ServiceWork, Measures

\* mqtt_connected of mqtt_client.c.
LEMMA WhoChangesConnected ==
    ASSUME [Next]_vars
    PROVE  UNCHANGED helper_connected \/ OnConnack \/ OnDisconnect
  <1> USE DEF connectionFlags
  <1>1. CASE EventWork
    BY <1>1 DEF EventWork, HandleLteLost, MqttLteLost, HandleLteConnected,
       HandleMqttConnected, HandleMqttDisconnected, HandleMqttError, HandlePublishResult,
       ServiceConnected, ServiceDisconnected, PublishResult, BirthResult, DataResult
  <1>2. CASE PublishWorkHandler
    BY <1>2, PublishCases DEF PublishWorkHandler, PublishUnchanged
  <1>3. CASE ReconnectWork \/ Modem \/ Measures \/ UNCHANGED vars
    BY <1>3 DEF ReconnectWork, Modem, LteEvent, Measures, MeasurementWork, vars, mqttVars
  <1>4. CASE Mqtt /\ (Worker \/ PubackTimeout)
    BY <1>4 DEF Mqtt, Worker, ConnectWork, ConnectReturns, ConnectFails, DisconnectWork,
       PublishWork, TimeoutWork, Write, PublishSent, PublishFails, PubackTimeout
  <1>5. CASE Mqtt /\ (HelperThread \/ Broker)
    BY <1>5 DEF Mqtt, HelperThread, OnConnack, OnConnackRefused, OnDisconnect, OnPuback,
       OnError, CallbackPosts, Broker, BrokerReceive, ConnectionLost, TrafficLost
  <1> QED
    BY <1>1, <1>2, <1>3, <1>4, <1>5 DEF Next, Mqtt, MqttStep, ServiceWork, Measures

\* What is on the way, and what the broker has.
LEMMA WhoChangesBroker ==
    ASSUME [Next]_vars
    PROVE  /\ UNCHANGED up \/ Write \/ BrokerReceive \/ OnConnack \/ TrafficLost
           /\ UNCHANGED acks \/ BrokerReceive \/ OnConnack \/ TrafficLost
              \/ OnDisconnect \/ OnPuback
           /\ UNCHANGED host_seq \/ BrokerReceive \/ OnConnack
           /\ UNCHANGED host_bd \/ BrokerReceive
           /\ UNCHANGED stored \/ BrokerReceive \/ Measures
  <1> USE DEF brokerVars
  <1>1. CASE EventWork
    BY <1>1 DEF EventWork, HandleLteLost, HandleLteConnected,
       HandleMqttConnected, HandleMqttDisconnected, HandleMqttError, HandlePublishResult
  <1>2. CASE ReconnectWork \/ Modem \/ ServiceWork \/ UNCHANGED vars
    BY <1>2 DEF ReconnectWork, Modem, LteEvent, ServiceWork, PublishWorkHandler, Measures,
       MeasurementWork, vars, mqttVars
  <1>3. CASE Mqtt /\ (Worker \/ PubackTimeout)
    BY <1>3 DEF Mqtt, Worker, ConnectWork, ConnectReturns, ConnectFails, DisconnectWork,
       PublishWork, TimeoutWork, Write, PublishSent, PublishFails, PubackTimeout
  <1>4. CASE Mqtt /\ (HelperThread \/ Broker)
    BY <1>4 DEF Mqtt, HelperThread, OnConnack, OnConnackRefused, OnDisconnect, OnPuback,
       OnError, CallbackPosts, Broker, BrokerReceive, ConnectionLost, TrafficLost
  <1> QED
    BY <1>1, <1>2, <1>3, <1>4 DEF Next, Mqtt, MqttStep

\* Who changes the state of the service and of the controller.
LEMMA WhoChangesService ==
    ASSUME [Next]_vars
    PROVE  /\ UNCHANGED next_seq \/ HandlePublishResult
           /\ UNCHANGED buffer \/ HandlePublishResult \/ Measures
           /\ UNCHANGED pending_measurement_count \/ HandlePublishResult \/ PublishAccepted
           /\ UNCHANGED <<mqtt_connected, birth_pending>> \/ EventWork
           /\ UNCHANGED <<publish_in_flight, birth_in_flight>> \/ EventWork \/ PublishAccepted
           /\ UNCHANGED publish_work \/ EventWork \/ PublishWorkHandler \/ Measures
           /\ UNCHANGED <<reconnect, reconnect_work, led>> \/ EventWork \/ ReconnectWork
  <1> USE DEF serviceVars, sessionFlags, pendingVars
  <1>1. CASE EventWork
    BY <1>1 DEF EventWork, HandleLteLost, HandleLteConnected, HandleMqttConnected,
       HandleMqttDisconnected, HandleMqttError, ServiceConnected, ServiceDisconnected
  <1>2. CASE ReconnectWork \/ Modem \/ ServiceWork \/ UNCHANGED vars
    <2>1. CASE PublishWorkHandler
      BY <1>2, <2>1, PublishCases DEF PublishWorkHandler, PublishUnchanged, ReconnectWork,
         Modem, LteEvent, ServiceWork, vars, mqttVars
    <2>2. CASE ~PublishWorkHandler
      BY <2>2, <1>2 DEF ReconnectWork, Modem, LteEvent, ServiceWork, Measures,
         MeasurementWork, vars, mqttVars
    <2> QED
      BY <2>1, <2>2
  <1>3. CASE Mqtt
    BY <1>3 DEF Mqtt
  <1> QED
    BY <1>1, <1>2, <1>3 DEF Next

-----------------------------------------------------------------------------
(* The connection.                                                         *)

\* The publish is accepted and nothing has made it obsolete.
Accepted == Waits("publish") /\ "publish" \in current
\* A PUBACK would be believed.
Waiting == active_publish_id # 0 /\ "active" \in current

\* No attempt to connect is under way.
NoAttempt == ~Waits("connect") /\ worker # "connecting" /\ helper # "connecting"

\* What is to be published or waits for a PUBACK belongs to the connection that is
\* there: no connect waits behind the publish, and none goes on beside it.
Connection ==
    /\ helper_connected => helper \in {"open", "closing"}
    /\ helper = "open" => helper_connected
    /\ Sending => helper # "connecting"
    /\ Accepted => helper_connected /\ ConnectsFirst(mqtt_workqueue)
    /\ Waiting => helper_connected /\ NoAttempt

\* Only the controller starts an attempt to connect.
LEMMA AttemptStep ==
    ASSUME TypeOK, [Next]_vars, NoAttempt, ~ConnectWanted
    PROVE  NoAttempt'
  <1>1. ~Waits("connect")'
    BY TypeParts, WhoSubmits DEF NoAttempt
  <1>2. ~ConnectWork
    BY TypeParts, QueueFacts DEF NoAttempt, ConnectWork, Take1
  <1>3. worker' # "connecting" /\ ~ConnectReturns
    BY <1>2, WhoChangesWorker DEF NoAttempt, PublishWork, TimeoutWork, Write, ConnectReturns
  <1>4. helper' # "connecting"
    BY <1>3, WhoChangesWorker DEF NoAttempt, DisconnectWork, OnConnack, OnConnackRefused,
       OnDisconnect, ConnectionLost
  <1> QED
    BY <1>1, <1>3, <1>4 DEF NoAttempt

\* A publish is accepted, or waits for a PUBACK, only after one of these steps.
LEMMA AliveStep ==
    ASSUME TypeOK, OnePublish, [Next]_vars
    PROVE  /\ Accepted' => Accepted \/ PublishAccepted
           /\ Waiting' => Waiting \/ (PublishWork /\ PublishWanted)
           /\ PublishWork /\ PublishWanted => Accepted /\ worker' = "sending"
           /\ worker' = "sending" => \/ worker = "sending"
                                     \/ PublishWork /\ PublishWanted
                                     \/ TimeoutWork /\ Waiting
  <1>1. Accepted' => Accepted \/ PublishAccepted
    BY TypeParts, WhoSubmits, WhoChangesCurrent DEF Accepted
  <1>2. CASE PublishWork
    <2>1. Waits("publish") /\ active_publish_id = 0
      BY <1>2, TypeParts, QueueFacts DEF PublishWork, Take1, OnePublish
    <2>2. ~PublishWanted => ~Waiting' /\ worker' = worker
      BY <1>2, <2>1 DEF PublishWork, Waiting
    <2>3. PublishWanted => Accepted /\ worker' = "sending"
      BY <1>2, <2>1 DEF PublishWork, PublishWanted, Accepted
    <2> QED
      BY <1>1, <1>2, <2>2, <2>3
  <1>3. CASE ~PublishWork
    <2>1. Waiting' => Waiting
      BY <1>3, WhoChangesPublish, WhoChangesCurrent DEF Waiting
    <2>2. TimeoutWork => UNCHANGED worker \/ Waiting
      BY DEF TimeoutWork, Waiting
    <2>3. worker' = "sending" => worker = "sending" \/ (TimeoutWork /\ Waiting)
      BY <1>3, <2>2, WhoChangesWorker DEF ConnectWork, Write
    <2> QED
      BY <1>1, <1>3, <2>1, <2>3
  <1> QED
    BY <1>2, <1>3

\* No connect gets behind the publish as long as none is wanted.
LEMMA FirstStep ==
    ASSUME TypeOK, [Next]_vars, ConnectsFirst(mqtt_workqueue), ~ConnectWanted
    PROVE  ConnectsFirst(mqtt_workqueue)'
  <1>0. IsQueue(mqtt_workqueue) /\ IsQueue(NoTimeout) /\ ConnectsFirst(NoTimeout)
    BY TypeParts, NoTimeoutEffect
  <1>1. \A work \in Works \ {"connect"} :
            /\ ConnectsFirst(Submit(mqtt_workqueue, work))
            /\ ConnectsFirst(Submit(NoTimeout, work))
    BY <1>0, SubmitEffect
  <1>2. mqtt_workqueue # <<>> => ConnectsFirst(Tail(mqtt_workqueue))
    BY <1>0, TakeEffect
  <1>3. ConnectsFirst(mqtt_workqueue')
    BY <1>0, <1>1, <1>2, QueueChanges, WorkNames
  <1> QED
    BY <1>3 DEF ConnectsFirst

\* on_connack, on_disconnect and the worker keep the publish to its connection.
LEMMA ConnectionStep ==
    ASSUME TypeOK, OnePublish, Connection, [Next]_vars
    PROVE  Connection'
  <1> USE DEF Connection
  <1>1. helper_connected' => helper' \in {"open", "closing"}
    BY WhoChangesConnected, WhoChangesWorker DEF OnConnack, OnDisconnect, ConnectReturns,
       DisconnectWork, OnConnackRefused, ConnectionLost
  <1>2. helper' = "open" => helper_connected'
    BY WhoChangesConnected, WhoChangesWorker DEF OnConnack, OnDisconnect, ConnectReturns,
       DisconnectWork, OnConnackRefused, ConnectionLost
  <1>3. Sending' => helper' # "connecting"
    <2> SUFFICES ASSUME Sending', helper' = "connecting" PROVE FALSE
      OBVIOUS
    <2>1. CASE UNCHANGED helper
      <3>1. ~helper_connected
        BY <2>1
      <3>2. ~TimeoutWork \/ UNCHANGED worker
        BY <3>1 DEF TimeoutWork
      <3>3. ~PublishWork \/ UNCHANGED worker
        BY <3>1 DEF PublishWork, PublishWanted
      <3> QED
        BY <2>1, <3>2, <3>3, WhoChangesWorker DEF Sending, ConnectWork, Write
    <2>2. CASE ~UNCHANGED helper
      <3>1. ConnectReturns
        BY <2>2, WhoChangesWorker DEF OnConnack, OnDisconnect, DisconnectWork,
           OnConnackRefused, ConnectionLost
      <3> QED
        BY <3>1 DEF ConnectReturns, Sending
    <2> QED
      BY <2>1, <2>2
  <1>4. Accepted' => helper_connected' /\ ConnectsFirst(mqtt_workqueue)'
    <2> SUFFICES ASSUME Accepted' PROVE helper_connected' /\ ConnectsFirst(mqtt_workqueue)'
      OBVIOUS
    <2>1. CASE PublishAccepted
      <3>1. ~Waits("publish") /\ helper_connected
        BY <2>1, TypeParts DEF PublishAccepted, PublishRefused, OnePublish, Flags
      <3>2. ConnectsFirst(mqtt_workqueue)
        BY <3>1 DEF ConnectsFirst, Waits, Contains
      <3>3. UNCHANGED helper_connected
        BY <2>1 DEF PublishAccepted, PublishWorkHandler, connectionFlags
      <3> QED
        BY <3>1, <3>2, <3>3, FirstStep DEF ConnectWanted
    <2>2. CASE Accepted
      <3>1. ~OnDisconnect
        BY DEF OnDisconnect, NewGeneration, Accepted
      <3>2. helper_connected'
        BY <2>2, <3>1, WhoChangesConnected DEF OnConnack
      <3> QED
        BY <2>2, <3>2, FirstStep DEF ConnectWanted
    <2> QED
      BY <2>1, <2>2, AliveStep
  <1>5. Waiting' => helper_connected' /\ NoAttempt'
    <2> SUFFICES ASSUME Waiting' PROVE helper_connected' /\ NoAttempt'
      OBVIOUS
    <2>1. CASE PublishWork /\ PublishWanted
      <3>1. Accepted /\ worker' = "sending"
        BY <2>1, AliveStep
      <3>2. ~Waits("connect")'
        BY <2>1, <3>1, TypeParts, TakeEffect DEF PublishWork, Take1, Waits
      <3>3. UNCHANGED <<helper, helper_connected>> /\ helper \in {"open", "closing"}
        BY <2>1, <3>1 DEF PublishWork, connectionFlags
      <3> QED
        BY <3>1, <3>2, <3>3 DEF NoAttempt
    <2>2. CASE Waiting
      <3>1. ~OnDisconnect
        BY DEF OnDisconnect, NewGeneration, Waiting
      <3>2. helper_connected'
        BY <2>2, <3>1, WhoChangesConnected DEF OnConnack
      <3> QED
        BY <2>2, <3>2, AttemptStep DEF ConnectWanted
    <2> QED
      BY <2>1, <2>2, AliveStep
  <1> QED
    BY <1>1, <1>2, <1>3, <1>4, <1>5

-----------------------------------------------------------------------------
(* The controller.                                                         *)

\* The phase of the reconnect state machine says whether LTE is up, whether its
\* timer runs, and what the measurement service and the LED were told last.
Controller ==
    /\ reconnect_work <=> reconnect.phase = "WAITING"
    /\ reconnect.lte_available <=> reconnect.phase # "OFFLINE"
    /\ mqtt_connected <=> reconnect.phase = "CONNECTED"
    /\ birth_pending => mqtt_connected
    /\ publish_in_flight => mqtt_connected
    /\ birth_in_flight => publish_in_flight /\ birth_pending
    /\ led = "MQTT_CONNECTED" <=> reconnect.phase = "CONNECTED"
    /\ ~reconnect.lte_available => led \in {"SEARCHING", "DISCONNECTED"}

\* aitsm_reconnect_handle (mqtt_reconnect.c:16-61).
LEMMA Answers ==
    ASSUME NEW s \in ReconnectState
    PROVE  /\ IF s.lte_available THEN HandleLteUp(s).state = s
              ELSE /\ HandleLteUp(s).state.lte_available
                   /\ HandleLteUp(s).state.phase = "CONNECTING"
           /\ ~HandleLteDown(s).state.lte_available
           /\ HandleLteDown(s).state.phase = "OFFLINE"
           /\ HandleLteDown(s).action = IF s.lte_available THEN "CANCEL" ELSE "NONE"
           /\ s.lte_available =>
                 /\ HandleMqttUp(s).action = "CANCEL"
                 /\ HandleMqttUp(s).state.lte_available
                 /\ HandleMqttUp(s).state.phase = "CONNECTED"
           /\ IF s.lte_available /\ s.phase # "WAITING"
              THEN /\ HandleFailure(s).action = "SCHEDULE"
                   /\ HandleFailure(s).state.lte_available
                   /\ HandleFailure(s).state.phase = "WAITING"
              ELSE HandleFailure(s) = Answer(s, "NONE")
           /\ IF s.lte_available /\ s.phase = "WAITING"
              THEN /\ HandleTimer(s).state.lte_available
                   /\ HandleTimer(s).state.phase = "CONNECTING"
              ELSE HandleTimer(s).state = s
  <1> USE DEF Answer, ReconnectState
  <1>1. CASE s.lte_available
    BY <1>1 DEF HandleLteUp, HandleLteDown, HandleMqttUp, HandleFailure, HandleTimer,
       ReconnectInit
  <1>2. CASE ~s.lte_available
    BY <1>2 DEF HandleLteUp, HandleLteDown, HandleMqttUp, HandleFailure, HandleTimer,
       ReconnectInit
  <1> QED
    BY <1>1, <1>2

\* A result has the type, the token and the outcome that its event has.
LEMMA ResultCases ==
    ASSUME TypeOK, HandlePublishResult
    PROVE  \/ UNCHANGED serviceVars
           \/ /\ publish_in_flight /\ ~publish_in_flight'
              /\ Head(app_events) = Result(pending_publish_token, Head(app_events).ok)
              /\ ~birth_in_flight'
              /\ UNCHANGED <<pending_publish_token, mqtt_connected, bd_seq>>
              /\ birth_in_flight =>
                    /\ birth_pending' <=> birth_pending /\ ~Head(app_events).ok
                    /\ next_seq' = IF Head(app_events).ok THEN 1 ELSE next_seq
                    /\ UNCHANGED <<buffer, pending_measurement_count>>
                    /\ publish_work' <=> publish_work \/ mqtt_connected
              /\ ~birth_in_flight =>
                    /\ UNCHANGED birth_pending
                    /\ IF Head(app_events).ok THEN Commit(pending_measurement_count)
                       ELSE UNCHANGED <<buffer, next_seq, pending_measurement_count>>
                    /\ \/ publish_work' <=> publish_work \/ mqtt_connected
                       \/ \E flush \in ShouldFlush(Len(buffer')) :
                             publish_work' <=> publish_work \/ (mqtt_connected /\ flush)
  <1> DEFINE e == Head(app_events)
  <1>1. e \in Events /\ e.type = "PUBLISH_RESULT"
    BY TypeParts, RestType DEF HandlePublishResult, Handles
  <1>2. e = Result(e.token, e.ok) /\ e.ok \in BOOLEAN
    BY <1>1 DEF Events, Result, EventTypes
  <1>3. CASE ~ResultExpected(e.token)
    BY <1>3 DEF HandlePublishResult, PublishResult
  <1>4. CASE ResultExpected(e.token)
    <2> HIDE DEF e
    <2>1. /\ publish_in_flight /\ publish_in_flight' = FALSE
          /\ e = Result(pending_publish_token, e.ok)
          /\ UNCHANGED <<mqtt_connected, bd_seq>>
          /\ IF birth_in_flight THEN BirthResult(e.ok) ELSE DataResult(e.ok)
      BY <1>2, <1>4 DEF HandlePublishResult, PublishResult, ResultExpected, e
    <2>2. CASE birth_in_flight
      BY <2>1, <2>2, <1>2 DEF BirthResult, pendingVars, Request, e
    <2>3. CASE ~birth_in_flight
      BY <2>1, <2>3, <1>2 DEF DataResult, Request, e
    <2> QED
      BY <2>2, <2>3
  <1> QED
    BY <1>3, <1>4

\* handle_event and the reconnect work keep service, LED and timer in line.
LEMMA ControllerStep ==
    ASSUME TypeOK, Controller, [Next]_vars
    PROVE  Controller'
  <1> USE DEF Controller, pendingVars, sessionFlags, serviceVars
  <1>0. reconnect \in ReconnectState /\ Flags
    BY TypeParts DEF AppTypeOK
  <1> USE DEF Flags
  <1>1. CASE HandleLteLost
    BY <1>0, <1>1, Answers DEF HandleLteLost, ServiceDisconnected, Apply
  <1>2. CASE HandleLteConnected
    BY <1>0, <1>2, Answers DEF HandleLteConnected, ApplyConnect, ReconnectState
  <1>3. CASE HandleMqttConnected
    <2>1. CASE MqttConnectedIsStale
      BY <1>3, <2>1 DEF HandleMqttConnected
    <2>2. CASE ~MqttConnectedIsStale
      <3>1. /\ reconnect' = HandleMqttUp(reconnect).state /\ reconnect.lte_available
            /\ HandleMqttUp(reconnect).action = "CANCEL" => reconnect_work' = FALSE
            /\ mqtt_connected' = TRUE /\ birth_pending' = TRUE /\ led' = "MQTT_CONNECTED"
            /\ UNCHANGED <<publish_in_flight, birth_in_flight>>
        BY <1>3, <2>2 DEF HandleMqttConnected, MqttConnectedIsStale, ServiceConnected, Apply
      <3> QED
        BY <1>0, <3>1, Answers
    <2> QED
      BY <2>1, <2>2
  <1>4. CASE HandleMqttDisconnected
    BY <1>0, <1>4, Answers DEF HandleMqttDisconnected, ServiceDisconnected, Apply, Answer,
       ReconnectState, Phases
  <1>5. CASE HandleMqttError
    BY <1>0, <1>5, Answers DEF HandleMqttError, ServiceDisconnected, Apply, Answer,
       ReconnectState, Phases
  <1>6. CASE HandlePublishResult
    <2>1. UNCHANGED <<reconnect, reconnect_work, led>>
      BY <1>6 DEF HandlePublishResult
    <2> QED
      BY <1>0, <1>6, <2>1, ResultCases
  <1>7. CASE ReconnectWork
    <2>1. UNCHANGED <<serviceVars, led>> /\ reconnect_work' = FALSE
          /\ reconnect' = HandleTimer(reconnect).state
      BY <1>7 DEF ReconnectWork, ApplyConnect
    <2> QED
      BY <1>0, <1>7, <2>1, Answers DEF ReconnectWork
  <1>8. CASE PublishAccepted /\ ~EventWork /\ ~ReconnectWork
    <2>1. UNCHANGED <<reconnect, reconnect_work, led, mqtt_connected, birth_pending>>
      BY <1>8, WhoChangesService
    <2>2. /\ mqtt_connected /\ publish_in_flight' = TRUE
          /\ ~publish_in_flight
          /\ birth_in_flight' = birth_in_flight \/ birth_pending
      BY <1>8 DEF PublishAccepted, Published, SendsBirth
    <2>3. birth_in_flight' => birth_pending
      BY <1>0, <1>8, <2>2 DEF PublishAccepted, Published, SendsBirth
    <2> QED
      BY <1>0, <2>1, <2>2, <2>3
  <1>9. CASE ~EventWork /\ ~ReconnectWork /\ ~PublishAccepted
    <2>1. UNCHANGED <<reconnect, reconnect_work, led, mqtt_connected, birth_pending,
                      publish_in_flight, birth_in_flight>>
      BY <1>9, WhoChangesService
    <2> QED
      BY <2>1
  <1> QED
    BY <1>1, <1>2, <1>3, <1>4, <1>5, <1>6, <1>7, <1>8, <1>9 DEF EventWork

LEMMA InitController == Init => Controller
  BY DEF Init, ServiceInit, ReconnectInit, Controller

\* The LED is cyan exactly while the controller is connected, red or blue whenever
\* LTE is down (app_controller.c:70-135).
THEOREM LedIsTruthful == Spec => []LedTellsTruth
  <1>1. Controller /\ TypeOK /\ [Next]_vars => Controller'
    BY ControllerStep
  <1>2. Controller => LedTellsTruth
    BY DEF Controller, LedTellsTruth
  <1> QED
    BY InitController, <1>1, <1>2, TypesHold, PTL DEF Spec

-----------------------------------------------------------------------------
(* The events on their way to the controller.                              *)

\* The event of a new connection, and the result that will be believed.
News == Event("MQTT_CONNECTED")
NoNews == ~Queued(News)
Good == Result(publish.token, TRUE)

\* No news of a connection is behind the result r.
NoNewsAfter(q, r) == \A i, j \in 1 .. Len(q) : i <= j /\ q[i] = r => q[j] # News

\* post_event puts the event last, or drops it.
LEMMA EnqueueFacts ==
    ASSUME NEW q \in Seq(Events), NEW e
    PROVE  /\ \A x : Contains(Enqueue(q, e), x) => x = e \/ Contains(q, x)
           /\ \A r : NoNewsAfter(q, r) /\ e # News => NoNewsAfter(Enqueue(q, e), r)
           /\ \A r : ~Contains(q, r) /\ r # e => NoNewsAfter(Enqueue(q, e), r)
  <1> DEFINE new == Enqueue(q, e)
  <1>1. \A i \in 1 .. Len(new) :
            \/ i \in 1 .. Len(q) /\ new[i] = q[i]
            \/ i = Len(q) + 1 /\ new[i] = e
    BY DEF Enqueue
  <1>2. Len(new) \in Nat /\ Len(q) \in Nat
    BY DEF Enqueue
  <1> HIDE DEF new
  <1>3. \A x : Contains(new, x) => x = e \/ Contains(q, x)
    BY <1>1 DEF Contains
  <1>4. \A r : NoNewsAfter(q, r) /\ e # News => NoNewsAfter(new, r)
    BY <1>1, <1>2 DEF NoNewsAfter
  <1>5. \A r : ~Contains(q, r) /\ r # e => NoNewsAfter(new, r)
    BY <1>3 DEF NoNewsAfter, Contains
  <1> QED
    BY <1>3, <1>4, <1>5 DEF new

\* event_work_handler takes the first event.
LEMMA RestFacts ==
    ASSUME app_events \in Seq(Events), app_events # <<>>
    PROVE  /\ Rest \in Seq(Events)
           /\ \A x : Contains(Rest, x) => Contains(app_events, x)
           /\ \A r : NoNewsAfter(app_events, r) => NoNewsAfter(Rest, r)
           /\ \A r : NoNewsAfter(app_events, r) /\ Head(app_events) = r => ~Contains(Rest, News)
           /\ Contains(app_events, Head(app_events))
  <1>1. Len(app_events) \in Nat /\ Len(app_events) > 0 /\ Head(app_events) = app_events[1]
    OBVIOUS
  <1>2. Rest \in Seq(Events) /\ Len(Rest) = Len(app_events) - 1
    BY <1>1 DEF Rest
  <1>3. \A i \in 1 .. Len(Rest) : Rest[i] = app_events[i + 1] /\ i + 1 \in 1 .. Len(app_events)
    BY <1>1, <1>2 DEF Rest
  <1>4. \A x : Contains(Rest, x) => Contains(app_events, x)
    BY <1>3 DEF Contains
  <1>5. \A r : NoNewsAfter(app_events, r) => NoNewsAfter(Rest, r)
    BY <1>1, <1>2, <1>3 DEF NoNewsAfter
  <1>6. \A r : NoNewsAfter(app_events, r) /\ Head(app_events) = r => ~Contains(Rest, News)
    BY <1>1, <1>2, <1>3 DEF NoNewsAfter, Contains
  <1>7. Contains(app_events, Head(app_events))
    BY <1>1 DEF Contains
  <1> QED
    BY <1>2, <1>4, <1>5, <1>6, <1>7

\* Results with different tokens or outcomes, and the other events, differ.
LEMMA ResultNames ==
    ASSUME NEW token, NEW ok
    PROVE  /\ Result(token, ok) # News /\ Result(token, ok) # NoEvent
           /\ Result(token, ok) \notin Reports /\ News \notin Reports /\ News # NoEvent
           /\ \A token2, ok2 : Result(token2, ok2) = Result(token, ok) => token2 = token /\ ok2 = ok
  <1>1. \A e \in Reports : e.type \notin {"MQTT_CONNECTED", "PUBLISH_RESULT"}
    BY ReportsFacts
  <1> QED
    BY <1>1 DEF Result, News, NoEvent, Event

\* The event e is on its way after the step.
Later(e) == Contains(app_events', e) \/ callback' = e

\* Who puts an event on its way.
LEMMA WhoQueues ==
    ASSUME TypeOK, [Next]_vars, NEW e, e \notin Reports, e # NoEvent, Later(e)
    PROVE  \/ Queued(e)
           \/ OnConnack /\ e = News
           \/ /\ OnPuback /\ acks # <<>> /\ PubackExpected(Head(acks))
              /\ \E ok \in BOOLEAN : e = Result(active_publish_token, ok)
           \/ PublishFails /\ JobIsActive /\ e = Result(job.token, FALSE)
  <1>1. CASE callback' = e
    BY <1>1, CallbackChanges DEF Queued, News
  <1>2. CASE Contains(app_events', e)
    <2>1. app_events \in Seq(Events) /\ callback \in Events \cup {NoEvent}
      BY DEF TypeOK, MqttTypeOK
    <2>2. CASE app_events' = app_events
      BY <1>2, <2>2 DEF Queued
    <2>3. CASE app_events # <<>> /\ app_events' = Rest
      BY <1>2, <2>1, <2>3, RestFacts DEF Queued
    <2>4. ASSUME NEW x \in Reports, app_events # <<>>, app_events' = Enqueue(Rest, x)
          PROVE  Queued(e)
      <3>1. Contains(Rest, e)
        BY <1>2, <2>1, <2>4, RestFacts, EnqueueFacts, ReportsFacts
      <3> QED
        BY <3>1, <2>1, <2>4, RestFacts DEF Queued
    <2>5. ASSUME NEW x \in Reports, app_events' = Enqueue(app_events, x)
          PROVE  Queued(e)
      BY <1>2, <2>1, <2>5, EnqueueFacts, ReportsFacts DEF Queued
    <2>6. CASE CallbackPosts /\ app_events' = Enqueue(app_events, callback)
      <3>1. callback \in Events
        BY <2>1, <2>6 DEF CallbackPosts
      <3> QED
        BY <1>2, <2>1, <2>6, <3>1, EnqueueFacts DEF Queued
    <2>7. CASE /\ PublishFails /\ JobIsActive
               /\ app_events' = Enqueue(app_events, Result(job.token, FALSE))
      <3>1. Contains(app_events, e) \/ e = Result(job.token, FALSE)
        BY <1>2, <2>1, <2>7, EnqueueFacts
      <3> QED
        BY <2>7, <3>1 DEF Queued
    <2> QED
      BY <2>2, <2>3, <2>4, <2>5, <2>6, <2>7, EventsChange
  <1> QED
    BY <1>1, <1>2 DEF Later

-----------------------------------------------------------------------------
(* The publish in flight.                                                  *)

\* An NDATA is in flight; the session has had its NBIRTH.
DataInFlight == publish_in_flight /\ ~birth_in_flight
Announced == mqtt_connected /\ ~birth_pending

\* What the service believes to be in flight is what it gave to the MQTT client
\* last; an NDATA has the readings that its result will remove.
InFlight ==
    /\ publish_in_flight =>
        /\ pending_publish_token = publish.token
        /\ birth_in_flight <=> publish.kind = "NBIRTH"
    /\ DataInFlight =>
        /\ ~birth_pending
        /\ pending_measurement_count \in 1 .. Len(buffer)
        /\ publish.data = Oldest(pending_measurement_count)
        /\ publish.number = next_seq
    /\ Announced /\ publish.kind = "NBIRTH" => next_seq = 1

\* No connect is under way, and no news of a connection waits, that would come
\* between an acknowledged NBIRTH and its session.
Session ==
    /\ Announced => NoAttempt /\ NoNews
    /\ publish_in_flight /\ Queued(Good) => NoAttempt
    /\ publish_in_flight =>
        /\ NoNewsAfter(app_events, Good)
        /\ Contains(app_events, Good) => callback # News
    /\ Waits("publish") \/ active_publish_id # 0 =>
          \A ok \in BOOLEAN : ~Queued(Result(publish.token, ok))

\* publish_work_handler, a result and the loss of the connection keep what is in flight.
LEMMA InFlightStep ==
    ASSUME TypeOK, Controller, InFlight, Session, [Next]_vars
    PROVE  InFlight'
  <1> USE DEF InFlight, DataInFlight, Announced
  <1>0. Flags /\ AppTypeOK /\ publish \in Payload
    BY TypeParts DEF ClientTypeOK
  <1>1. CASE PublishAccepted
    <2>1. /\ ~publish_in_flight /\ mqtt_connected
          /\ UNCHANGED <<buffer, next_seq, mqtt_connected, birth_pending>>
          /\ pending_publish_token' = publish'.token
          /\ SendsBirth \/ Len(buffer) \in 1 .. Len(buffer)
      BY <1>0, <1>1 DEF PublishAccepted, PublishWorkHandler, Published, MqttPublish, AppTypeOK
    <2>2. CASE birth_pending
      BY <1>0, <1>1, <2>1, <2>2 DEF PublishAccepted, Published, SendsBirth, MqttPublish
    <2>3. CASE ~birth_pending
      <3>1. /\ publish'.kind = "NDATA" /\ publish'.number = next_seq
            /\ publish'.data = Oldest(Len(buffer)) /\ pending_measurement_count' = Len(buffer)
            /\ birth_in_flight' = birth_in_flight
        BY <1>1, <2>3 DEF PublishAccepted, Published, SendsBirth, MqttPublish, Held
      <3>2. ~birth_in_flight
        BY <2>1 DEF Controller
      <3> QED
        BY <1>0, <2>1, <2>3, <3>1, <3>2 DEF SendsBirth, Oldest
    <2> QED
      BY <2>2, <2>3
  <1>2. CASE HandlePublishResult
    <2>1. UNCHANGED publish
      BY <1>2 DEF HandlePublishResult, publishState
    <2>2. CASE UNCHANGED serviceVars
      BY <2>1, <2>2 DEF serviceVars, sessionFlags, pendingVars, Oldest
    <2>3. CASE ~UNCHANGED serviceVars
      <3>1. publish_in_flight /\ ~publish_in_flight' /\ UNCHANGED mqtt_connected
        BY <1>2, <2>3, ResultCases
      <3>2. birth_in_flight => (birth_pending' <=> birth_pending /\ ~Head(app_events).ok)
                               /\ next_seq' = IF Head(app_events).ok THEN 1 ELSE next_seq
        BY <1>2, <2>3, ResultCases
      <3> QED
        BY <2>1, <3>1, <3>2
    <2> QED
      BY <2>2, <2>3
  <1>3. CASE Measures
    <2>1. PICK r \in Readings : MeasurementWork(r)
      BY <1>3 DEF Measures
    <2>2. /\ buffer' = Append(buffer, r)
          /\ UNCHANGED <<publish, next_seq, pendingVars, sessionFlags>>
      BY <2>1 DEF MeasurementWork, publishState
    <2>3. /\ Len(buffer') = Len(buffer) + 1 /\ Len(buffer) \in Nat
          /\ \A i \in 1 .. Len(buffer) : buffer'[i] = buffer[i]
      BY <1>0, <2>2 DEF AppTypeOK
    <2>4. \A n \in 1 .. Len(buffer) : Oldest(n)' = Oldest(n)
      BY <2>3 DEF Oldest
    <2> QED
      BY <2>2, <2>3, <2>4 DEF pendingVars, sessionFlags
  <1>4. CASE HandleLteLost \/ HandleMqttDisconnected \/ HandleMqttError
    <2>1. publish_in_flight' = FALSE /\ mqtt_connected' = FALSE
      BY <1>4 DEF HandleLteLost, HandleMqttDisconnected, HandleMqttError, ServiceDisconnected
    <2> QED
      BY <2>1
  <1>5. CASE HandleLteConnected
    <2>1. UNCHANGED <<serviceVars, publish>>
      BY <1>5 DEF HandleLteConnected, publishState
    <2> QED
      BY <2>1 DEF serviceVars, sessionFlags, pendingVars, Oldest
  <1>6. CASE HandleMqttConnected
    <2>0. UNCHANGED publish
      BY <1>6 DEF HandleMqttConnected
    <2>1. CASE MqttConnectedIsStale
      BY <1>6, <2>0, <2>1 DEF HandleMqttConnected, serviceVars, sessionFlags, pendingVars, Oldest
    <2>2. CASE ~MqttConnectedIsStale
      <3>1. Queued(News)
        <4>1. Head(app_events) = News
          <5>1. Head(app_events) \in Events /\ Head(app_events).type = "MQTT_CONNECTED"
            BY <1>6, TypeParts, RestType DEF HandleMqttConnected, Handles
          <5> QED
            BY <5>1 DEF Events, News, Event
        <4> QED
          BY <4>1, <1>6, RestFacts DEF Queued, HandleMqttConnected, Handles, TypeOK, MqttTypeOK
      <3>2. ~DataInFlight
        BY <3>1 DEF Session, NoNews, Controller
      <3>3. /\ birth_pending' = TRUE
            /\ UNCHANGED <<publish_in_flight, birth_in_flight, pending_publish_token>>
        BY <1>6, <2>2 DEF HandleMqttConnected, ServiceConnected, pendingVars
      <3> QED
        BY <1>0, <2>0, <3>2, <3>3
    <2> QED
      BY <2>1, <2>2
  <1>7. CASE ~PublishAccepted /\ ~EventWork /\ ~Measures
    <2>1. UNCHANGED <<publish, pending_publish_token, buffer, next_seq, mqtt_connected,
                      birth_pending, publish_in_flight, birth_in_flight,
                      pending_measurement_count>>
      BY <1>7, WhoChangesPublish, WhoChangesService DEF EventWork
    <2> QED
      BY <2>1 DEF Oldest
  <1> QED
    BY <1>1, <1>2, <1>3, <1>4, <1>5, <1>6, <1>7 DEF EventWork

-----------------------------------------------------------------------------
(* A publish is accepted, answered, or given up.                           *)

\* What an accepted publish finds, and what it leaves.
LEMMA AcceptedFacts ==
    ASSUME TypeOK, PublishAccepted
    PROVE  /\ ~publish_in_flight /\ publish_in_flight' /\ mqtt_connected
           /\ ~publish_pending /\ active_publish_id = 0 /\ helper_connected
           /\ publish'.token = pending_publish_token'
           /\ birth_pending => publish'.kind = "NBIRTH" /\ publish'.data = {}
           /\ ~birth_pending => publish'.kind = "NDATA" /\ publish'.number = next_seq
                                /\ publish'.data = Held
           /\ birth_in_flight' \/ (UNCHANGED birth_in_flight /\ ~birth_pending)
           /\ UNCHANGED <<app_events, callback, helper, worker, message_id, job, brokerVars,
                          buffer, next_seq, mqtt_connected, birth_pending,
                          active_publish_id>>
  BY TypeParts DEF Flags, PublishAccepted, PublishWorkHandler, PublishRefused, Published,
     SendsBirth, MqttPublish, helperVars

\* No step but an accepted publish sets publish_in_flight.
LEMMA StaysInFlight ==
    ASSUME TypeOK, [Next]_vars, publish_in_flight', ~PublishAccepted
    PROVE  publish_in_flight /\ UNCHANGED publish /\ UNCHANGED pending_publish_token
           /\ UNCHANGED birth_in_flight
  <1> USE DEF serviceVars, sessionFlags
  <1>0. UNCHANGED <<publish, pending_publish_token>>
    BY WhoChangesPublish
  <1>1. CASE HandlePublishResult
    BY <1>0, <1>1, ResultCases
  <1>2. CASE HandleLteLost \/ HandleMqttDisconnected \/ HandleMqttError
    BY <1>2 DEF HandleLteLost, HandleMqttDisconnected, HandleMqttError, ServiceDisconnected
  <1>3. CASE HandleLteConnected
    BY <1>0, <1>3 DEF HandleLteConnected
  <1>4. CASE HandleMqttConnected
    BY <1>0, <1>4 DEF HandleMqttConnected, ServiceConnected
  <1>5. CASE ~EventWork
    BY <1>0, <1>5, WhoChangesService
  <1> QED
    BY <1>1, <1>2, <1>3, <1>4, <1>5 DEF EventWork

\* A PUBACK that is expected is for the publish accepted last.
LEMMA PubackFacts ==
    ASSUME TypeOK, OnePublish, acks # <<>>
    PROVE  /\ Head(acks) # 0 /\ Contains(acks, Head(acks))
           /\ PubackExpected(Head(acks)) =>
                 /\ Waiting /\ active_publish_token = publish.token
                 /\ Head(acks) = message_id
  <1>1. acks \in Seq(1 .. MsgIds) /\ Head(acks) \in 1 .. MsgIds
    BY HeadTailProperties DEF TypeOK, MqttTypeOK
  <1>2. Contains(acks, Head(acks))
    BY <1>1 DEF Contains
  <1>3. Head(acks) # 0
    BY <1>1
  <1> QED
    BY <1>2, <1>3 DEF PubackExpected, Waiting, OnePublish

\* No step lets a connect, or the news of one, slip in between an NBIRTH and its
\* result, or between the result and the next one.
LEMMA SessionStep ==
    ASSUME TypeOK, OnePublish, Connection, Controller, InFlight, Session,
           [Next]_vars, NamesFresh
    PROVE  Session'
  <1>0. /\ Flags /\ ClientTypeOK /\ IsQueue(mqtt_workqueue)
        /\ app_events \in Seq(Events) /\ callback \in Events \cup {NoEvent}
    BY TypeParts DEF IsEvents
  <1>1. mqtt_connected \/ Waiting => ~ConnectWanted
    BY DEF Controller, Connection, ConnectWanted
  <1>2. acks # <<>> /\ PubackExpected(Head(acks)) => Waiting /\ active_publish_token = publish.token
    BY PubackFacts
  <1>3. OnConnack => ~NoAttempt /\ ~OnPuback
    BY DEF OnConnack, NoAttempt, OnPuback
  <1>4. ASSUME PublishAccepted
        PROVE  /\ \A ok \in BOOLEAN : ~Queued(Result(publish.token, ok))'
               /\ ~Queued(Good)'
    <2>1. \A ok \in BOOLEAN : ~Queued(Result(publish'.token, ok))
      BY <1>4, AcceptedFacts DEF NamesFresh
    <2> QED
      BY <1>4, <2>1, AcceptedFacts DEF Queued, Good
  <1>5. ASSUME NEW ok, Later(Result(publish.token, ok))
        PROVE  \/ Queued(Result(publish.token, ok))
               \/ OnPuback /\ acks # <<>> /\ PubackExpected(Head(acks))
               \/ PublishFails /\ JobIsActive /\ ok = FALSE
    <2> DEFINE e == Result(publish.token, ok)
    <2>1. /\ e \notin Reports /\ e # NoEvent /\ e # News
          /\ \A token : e = Result(token, FALSE) => ok = FALSE
      BY ResultNames
    <2> HIDE DEF e
    <2>2. Later(e)
      BY <1>5 DEF e
    <2>3. \/ Queued(e)
          \/ OnPuback /\ acks # <<>> /\ PubackExpected(Head(acks))
          \/ PublishFails /\ JobIsActive /\ \E token : e = Result(token, FALSE)
      BY <2>1, <2>2, WhoQueues
    <2> QED
      BY <2>1, <2>3 DEF e
  <1>6. ~PublishAccepted =>
            /\ publish' = publish
            /\ \A ok : Queued(Result(publish.token, ok))' <=> Later(Result(publish.token, ok))
            /\ Queued(Good)' <=> Later(Good)
    BY WhoChangesPublish DEF Queued, Later, Good
  <1>7. Announced' => NoAttempt' /\ NoNews'
    <2>1. CASE Announced
      <3>1. NoAttempt' /\ ~OnConnack
        BY <2>1, <1>1, <1>3, AttemptStep DEF Session, Announced
      <3>2. ~Later(News)
        BY <2>1, <3>1, WhoQueues, ResultNames DEF Session, NoNews
      <3> QED
        BY <3>1, <3>2 DEF NoNews, Queued, Later, News
    <2>2. CASE ~Announced /\ Announced'
      <3>1. HandlePublishResult
        <4>1. EventWork
          BY <2>2, WhoChangesService DEF Announced
        <4>2. CASE HandleLteLost \/ HandleMqttDisconnected \/ HandleMqttError
          BY <2>2, <4>2 DEF HandleLteLost, HandleMqttDisconnected, HandleMqttError,
             ServiceDisconnected, Announced
        <4>3. CASE HandleLteConnected
          BY <2>2, <4>3 DEF HandleLteConnected, serviceVars, sessionFlags, Announced
        <4>4. CASE HandleMqttConnected
          BY <2>2, <4>4 DEF HandleMqttConnected, ServiceConnected, serviceVars,
             sessionFlags, Announced
        <4> QED
          BY <4>1, <4>2, <4>3, <4>4 DEF EventWork
      <3>2. publish_in_flight /\ birth_in_flight /\ Head(app_events) = Good
        BY <2>2, <3>1, <1>0, ResultCases
           DEF serviceVars, sessionFlags, Announced, InFlight, Good, Flags
      <3>3. Queued(Good) /\ ~Contains(Rest, News)
        BY <1>0, <3>1, <3>2, RestFacts DEF HandlePublishResult, Handles, Session, Queued
      <3>4. callback # News
        BY <1>0, <3>1, <3>2, RestFacts DEF HandlePublishResult, Handles, Session
      <3>5. UNCHANGED <<mqtt_workqueue, worker, helper, callback>> /\ app_events' = Rest
        BY <3>1 DEF HandlePublishResult, workerVars, helperVars
      <3> QED
        BY <3>2, <3>3, <3>4, <3>5 DEF Session, NoAttempt, Waits, NoNews, Queued, News
    <2> QED
      BY <2>1, <2>2
  <1>8. publish_in_flight' /\ Queued(Good)' => NoAttempt'
    <2> SUFFICES ASSUME publish_in_flight', Queued(Good)' PROVE NoAttempt'
      OBVIOUS
    <2>1. publish_in_flight /\ Later(Good)
      BY <1>4, <1>6, StaysInFlight
    <2>2. Queued(Good) \/ Waiting
      BY <2>1, <1>2, <1>5 DEF Good
    <2> QED
      BY <2>1, <2>2, <1>1, AttemptStep DEF Session, Connection, Controller
  <1>9. publish_in_flight' => /\ NoNewsAfter(app_events, Good)'
                              /\ Contains(app_events, Good)' => callback' # News
    <2> SUFFICES ASSUME publish_in_flight'
                 PROVE  /\ NoNewsAfter(app_events, Good)'
                        /\ Contains(app_events, Good)' => callback' # News
      BY DEF News
    <2>1. CASE PublishAccepted
      <3>1. ~Contains(app_events, Good)'
        BY <1>4, <2>1 DEF Queued
      <3> QED
        BY <3>1 DEF NoNewsAfter, Contains
    <2>2. CASE ~PublishAccepted
      <3> DEFINE r == Good
      <3>0. publish_in_flight /\ Good' = Good
        BY <2>2, <1>6, StaysInFlight DEF Good
      <3>1. NoNewsAfter(app_events, r) /\ (Contains(app_events, r) => callback # News)
        BY <3>0 DEF Session
      <3>2. r # News /\ r \notin Reports /\ \A x \in Reports : x # News
        BY ResultNames DEF Good
      <3>3. NoNewsAfter(app_events', r)
        <4>1. CASE app_events' = app_events
          BY <4>1, <3>1
        <4>2. CASE app_events # <<>> /\ app_events' = Rest
          BY <4>2, <3>1, <1>0, RestFacts
        <4>3. ASSUME NEW x \in Reports, app_events # <<>>, app_events' = Enqueue(Rest, x)
              PROVE  NoNewsAfter(app_events', r)
          BY <4>3, <3>1, <3>2, <1>0, RestFacts, EnqueueFacts
        <4>4. ASSUME NEW x \in Reports, app_events' = Enqueue(app_events, x)
              PROVE  NoNewsAfter(app_events', r)
          BY <4>4, <3>1, <3>2, <1>0, EnqueueFacts
        <4>5. CASE CallbackPosts /\ app_events' = Enqueue(app_events, callback)
          BY <4>5, <3>1, <3>2, <1>0, EnqueueFacts
        <4>6. CASE app_events' = Enqueue(app_events, Result(job.token, FALSE))
          <5>1. Result(job.token, FALSE) # News
            BY ResultNames
          <5> QED
            BY <4>6, <5>1, <3>1, <1>0, EnqueueFacts
        <4> QED
          BY <4>1, <4>2, <4>3, <4>4, <4>5, <4>6, EventsChange
      <3>4. Contains(app_events', r) => callback' # News
        <4> SUFFICES ASSUME Contains(app_events', r), callback' = News PROVE FALSE
          OBVIOUS
        <4>1. Queued(r) \/ OnPuback
          BY <1>5 DEF Later, Good
        <4>2. ~OnPuback
          <5>1. callback = News \/ OnConnack
            BY CallbackChanges, ResultNames
          <5> QED
            BY <5>1, <1>3, ResultNames DEF OnPuback
        <4>3. CASE OnConnack
          BY <4>1, <4>2, <4>3, <3>0, <1>3 DEF Session
        <4>4. CASE callback = News
          BY <4>1, <4>2, <4>4, <3>1, <3>2 DEF Queued
        <4> QED
          BY <4>3, <4>4, CallbackChanges, ResultNames
      <3> QED
        BY <3>0, <3>3, <3>4
    <2> QED
      BY <2>1, <2>2
  <1>10. Waits("publish")' \/ active_publish_id' # 0 =>
            \A ok \in BOOLEAN : ~Queued(Result(publish.token, ok))'
    <2> SUFFICES ASSUME Waits("publish")' \/ active_publish_id' # 0, ~PublishAccepted,
                        NEW ok \in BOOLEAN, Later(Result(publish.token, ok))
                 PROVE  FALSE
      BY <1>4, <1>6
    <2>1. Waits("publish") \/ active_publish_id # 0
      <3>1. PublishWork => Waits("publish")
        BY <1>0, QueueFacts DEF PublishWork, Take1
      <3> QED
        BY <1>0, <3>1, WhoSubmits, WhoChangesPublish
    <2>2. \/ OnPuback /\ acks # <<>> /\ PubackExpected(Head(acks))
          \/ PublishFails /\ JobIsActive
      BY <2>1, <1>5 DEF Session
    <2>3. active_publish_id' = 0 /\ ~Waits("publish")
      BY <2>2, <1>2 DEF OnPuback, PublishFails, ForgetPublish, OnePublish, Waiting, Sending
    <2> QED
      BY <1>0, <2>3, WhoSubmits
  <1> QED
    BY <1>7, <1>8, <1>9, <1>10 DEF Session, News

-----------------------------------------------------------------------------
(* What the broker gets in a session.                                      *)

\* The seq that the broker sees in a message.
Num(m) == IF m.kind = "NBIRTH" THEN 0 ELSE m.number
\* The places of the messages on their way.
OnWay == 1 .. Len(up)

\* The session has had nothing but NBIRTHs.
OnlyBirths == host_seq \in {NoSeq, 0} /\ \A i \in OnWay : up[i].kind = "NBIRTH"

\* The session has had everything up to the NDATA before next_seq, and perhaps the
\* one with next_seq: what is on the way has one of these two numbers, and nothing
\* that is older follows something newer.
Near(n) == n = next_seq \/ NextSeq(n) = next_seq
Fits(m) == Near(Num(m)) /\ (m.kind = "NBIRTH" => next_seq = 1)
Chain ==
    /\ host_seq \in Seqs /\ Near(host_seq)
    /\ \A i \in OnWay : Fits(up[i])
    /\ host_seq = next_seq => \A i \in OnWay : Num(up[i]) = next_seq
    /\ \A i, j \in OnWay : i < j /\ Num(up[i]) = next_seq => Num(up[j]) = next_seq

\* The message with next_seq has been sent in this session.
Reached == host_seq = next_seq \/ \E i \in OnWay : Num(up[i]) = next_seq

\* The worker has, or will have, the payload to send it (again).
Alive == Accepted \/ Waiting \/ worker = "sending"

\* Which of the two the session is in, by what the service, the events on their way
\* and the worker's copy of the payload say.
Order ==
    /\ OnlyBirths \/ Chain
    /\ mqtt_connected => IF birth_pending THEN OnlyBirths ELSE Chain
    /\ ~NoNews => OnlyBirths
    /\ Accepted \/ Waiting =>
          IF publish.kind = "NBIRTH" THEN OnlyBirths
          ELSE Chain /\ publish.number = next_seq
    /\ worker = "sending" =>
          \/ publish.kind = "NBIRTH" /\ OnlyBirths
          \/ Chain /\ Fits(publish) /\ (Reached => Num(publish) = next_seq)
    /\ Alive /\ publish.kind = "NDATA" => NoNews /\ ~birth_pending

\* The broker has what the publish says, and has got nothing else since.
Received == host_seq = Num(publish) /\ publish.data \subseteq stored

\* As long as the id of the last publish may still be used, what carries it is that
\* publish.
OwnMessages ==
    active_publish_id # 0 \/ Sending =>
        \A i \in OnWay : up[i].id = message_id =>
            /\ up[i].kind = publish.kind /\ up[i].number = publish.number
            /\ up[i].data = publish.data

\* A message, a PUBACK and a result with the name of the publish are its own.
Genuine ==
    /\ OwnMessages
    /\ Waiting /\ Contains(acks, message_id) => Received
    /\ publish_in_flight /\ Queued(Good) => Received

\* Numbers are numbers.
LEMMA NumFacts ==
    ASSUME TypeOK
    PROVE  /\ next_seq \in Seqs /\ host_seq \in Seqs \cup {NoSeq}
           /\ publish.kind \in {"NBIRTH", "NDATA"} /\ Num(publish) \in Seqs
           /\ Len(up) \in Nat
           /\ \A i \in OnWay : /\ up[i] \in Message /\ Num(up[i]) \in Seqs
                               /\ up[i].kind \in {"NBIRTH", "NDATA"}
  <1>1. /\ next_seq \in Seqs /\ host_seq \in Seqs \cup {NoSeq} /\ publish \in Payload
        /\ up \in Seq(Message)
    BY TypeParts DEF ClientTypeOK, AppTypeOK
  <1>2. \A i \in OnWay : up[i] \in Message
    BY <1>1 DEF OnWay
  <1> QED
    BY <1>1, <1>2, NextSeqFacts DEF Payload, Message, Num

\* An NBIRTH after NBIRTHs, and the right NDATA after the others, keep the order.
LEMMA WriteOrder ==
    ASSUME TypeOK, Write
    PROVE  /\ OnlyBirths /\ publish.kind = "NBIRTH" => OnlyBirths'
           /\ Chain /\ Fits(publish) /\ (Reached => Num(publish) = next_seq) /\ UNCHANGED next_seq
                 => Chain'
  <1> DEFINE m == [id |-> job.id, kind |-> publish.kind, number |-> publish.number,
                   data |-> publish.data]
  <1>1. up' = Append(up, m) /\ UNCHANGED host_seq
    BY DEF Write
  <1>2. m.kind = publish.kind /\ Num(m) = Num(publish)
    BY DEF Num
  <1> HIDE DEF m
  <1>3. /\ Len(up) \in Nat /\ Len(up') = Len(up) + 1
        /\ \A i \in OnWay : up'[i] = up[i]
        /\ up'[Len(up) + 1] = m
    BY <1>1 DEF TypeOK, MqttTypeOK, OnWay
  <1>4. \A i \in OnWay' : (i \in OnWay /\ up'[i] = up[i]) \/ (i = Len(up) + 1 /\ up'[i] = m)
    BY <1>3 DEF OnWay
  <1>5. OnlyBirths /\ publish.kind = "NBIRTH" => OnlyBirths'
    BY <1>1, <1>2, <1>4 DEF OnlyBirths
  <1>6. ASSUME Chain, Fits(publish), Reached => Num(publish) = next_seq, UNCHANGED next_seq
        PROVE  Chain'
    <2>1. \A i \in OnWay' : Fits(up'[i])
      BY <1>2, <1>4, <1>6 DEF Chain, Fits
    <2>2. host_seq = next_seq => \A i \in OnWay' : Num(up'[i]) = next_seq
      BY <1>2, <1>4, <1>6 DEF Chain, Reached
    <2>3. \A i, j \in OnWay' : i < j /\ Num(up'[i]) = next_seq => Num(up'[j]) = next_seq
      <3> SUFFICES ASSUME NEW i \in OnWay', NEW j \in OnWay', i < j, Num(up'[i]) = next_seq
                   PROVE  Num(up'[j]) = next_seq
        OBVIOUS
      <3>1. i \in OnWay /\ up'[i] = up[i]
        BY <1>3, <1>4 DEF OnWay
      <3> QED
        BY <1>2, <1>4, <1>6, <3>1 DEF Chain, Reached
    <2> QED
      BY <1>1, <1>6, <2>1, <2>2, <2>3 DEF Chain, Fits, Near, Num
  <1> QED
    BY <1>5, <1>6

\* What arrives at the broker leaves the order of the rest as it is.
LEMMA ReceiveOrder ==
    ASSUME TypeOK, BrokerReceive, UNCHANGED next_seq
    PROVE  /\ OnlyBirths => OnlyBirths'
           /\ Chain => Chain'
           /\ Reached' => Reached
  <1>1. /\ up # <<>> /\ up' = Tail(up) /\ host_seq' = Num(Head(up))
        /\ Head(up).kind = "NBIRTH" => host_seq' = 0
    BY DEF BrokerReceive, Num
  <1>2. /\ Len(up) \in Nat /\ 1 \in OnWay /\ Head(up) = up[1]
        /\ \A i \in OnWay' : i + 1 \in OnWay /\ up'[i] = up[i + 1] /\ 1 < i + 1
    BY <1>1 DEF TypeOK, MqttTypeOK, OnWay
  <1>3. OnlyBirths => OnlyBirths'
    BY <1>1, <1>2 DEF OnlyBirths
  <1>4. Chain => Chain'
    <2> SUFFICES ASSUME Chain PROVE Chain'
      OBVIOUS
    <2>1. host_seq' \in Seqs /\ Near(host_seq')
      BY <1>1, <1>2, NumFacts DEF Chain, Fits
    <2>2. \A i \in OnWay' : Fits(up'[i])
      BY <1>2 DEF Chain
    <2>3. host_seq' = next_seq => \A i \in OnWay' : Num(up'[i]) = next_seq
      BY <1>1, <1>2 DEF Chain
    <2>4. \A i, j \in OnWay' : i < j /\ Num(up'[i]) = next_seq => Num(up'[j]) = next_seq
      <3> SUFFICES ASSUME NEW i \in OnWay', NEW j \in OnWay', i < j, Num(up'[i]) = next_seq
                   PROVE  Num(up'[j]) = next_seq
        OBVIOUS
      <3>1. i + 1 \in OnWay /\ j + 1 \in OnWay /\ i + 1 < j + 1
        BY <1>2 DEF OnWay
      <3> QED
        BY <1>2, <3>1 DEF Chain
    <2> QED
      BY <2>1, <2>2, <2>3, <2>4 DEF Chain, Fits, Near, Num
  <1>5. Reached' => Reached
    BY <1>1, <1>2 DEF Reached, Num
  <1> QED
    BY <1>3, <1>4, <1>5

\* Nothing comes to life but a publish that is accepted; news of a connection comes
\* from a CONNACK only.
LEMMA NothingNew ==
    ASSUME TypeOK, OnePublish, [Next]_vars, ~PublishAccepted
    PROVE  /\ publish' = publish
           /\ Accepted' \/ Waiting' => Accepted \/ Waiting
           /\ worker' = "sending" => worker = "sending" \/ Accepted \/ Waiting
           /\ NoNews /\ ~OnConnack => NoNews'
  <1>1. publish' = publish
    BY WhoChangesPublish
  <1>2. /\ Accepted' \/ Waiting' => Accepted \/ Waiting
        /\ worker' = "sending" => worker = "sending" \/ Accepted \/ Waiting
    BY AliveStep
  <1>3. ASSUME NoNews, ~OnConnack PROVE NoNews'
    <2>1. ~Later(News)
      BY <1>3, WhoQueues, ResultNames DEF NoNews
    <2> QED
      BY <2>1 DEF NoNews, Queued, Later, News
  <1> QED
    BY <1>1, <1>2, <1>3

\* A step that neither accepts a publish nor opens a session keeps the order if it
\* keeps what is known of the messages.
LEMMA OrderFrame ==
    ASSUME TypeOK, OnePublish, Order, [Next]_vars, ~PublishAccepted, ~OnConnack,
           UNCHANGED next_seq,
           OnlyBirths => OnlyBirths', Chain => Chain', Reached' => Reached,
           mqtt_connected' => mqtt_connected /\ (birth_pending' <=> birth_pending),
           birth_pending' => birth_pending
    PROVE  Order'
  <1>1. /\ publish' = publish
        /\ Accepted' \/ Waiting' => Accepted \/ Waiting
        /\ worker' = "sending" => worker = "sending" \/ Accepted \/ Waiting
        /\ NoNews => NoNews'
    BY NothingNew
  <1>2. OnlyBirths' \/ Chain'
    BY DEF Order
  <1>3. mqtt_connected' => IF birth_pending' THEN OnlyBirths' ELSE Chain'
    BY DEF Order
  <1>4. ~NoNews' => OnlyBirths'
    BY <1>1 DEF Order
  <1>5. Accepted' \/ Waiting' =>
           IF publish'.kind = "NBIRTH" THEN OnlyBirths'
           ELSE Chain' /\ publish'.number = next_seq'
    BY <1>1 DEF Order
  <1>6. ASSUME worker' = "sending"
        PROVE  \/ publish.kind = "NBIRTH" /\ OnlyBirths
               \/ Chain /\ Fits(publish) /\ (Reached => Num(publish) = next_seq)
    <2>1. CASE worker = "sending"
      BY <2>1 DEF Order
    <2>2. CASE Accepted \/ Waiting
      BY <2>2 DEF Order, Fits, Near, Num
    <2> QED
      BY <1>1, <1>6, <2>1, <2>2
  <1>7. worker' = "sending" =>
           \/ publish'.kind = "NBIRTH" /\ OnlyBirths'
           \/ Chain' /\ Fits(publish)' /\ (Reached' => Num(publish)' = next_seq')
    BY <1>1, <1>6 DEF Fits, Near, Num
  <1>8. Alive' /\ publish'.kind = "NDATA" => NoNews' /\ ~birth_pending'
    BY <1>1 DEF Order, Alive
  <1> QED
    BY <1>2, <1>3, <1>4, <1>5, <1>7, <1>8 DEF Order

\* A session ends what is known of the messages as well as what is on its way.
LEMMA OrderOfSession ==
    ASSUME TypeOK, OnePublish, Connection, Session, Order, OnConnack,
           UNCHANGED <<mqtt_connected, birth_pending>>
    PROVE  Order'
  <1>1. ~NoAttempt /\ ~Alive /\ ~Announced
    BY DEF OnConnack, NoAttempt, Connection, Sending, Alive, Session
  <1>2. OnlyBirths'
    BY DEF OnConnack, OnlyBirths, OnWay
  <1>3. UNCHANGED <<worker, publish>>
    BY DEF OnConnack
  <1>4. mqtt_workqueue' \in {mqtt_workqueue, Submit(NoTimeout, "disconnect")}
        /\ active_publish_id' \in {0, active_publish_id} /\ current' \in {{}, current}
    BY DEF OnConnack, MqttDisconnect, ForgetPublish, NewGeneration
  <1>5. ~Alive'
    <2>1. IsQueue(mqtt_workqueue)
      BY TypeParts
    <2>2. Waits("publish")' => Waits("publish")
      BY <1>4, <2>1, QueueFacts, WorkNames DEF Waits
    <2> QED
      BY <1>1, <1>3, <1>4, <2>2 DEF Alive, Accepted, Waiting
  <1> QED
    BY <1>1, <1>2, <1>3, <1>5 DEF Order, Alive, Announced

\* A new publish is an NBIRTH in a session that awaits it, the NDATA with next_seq in
\* one that is announced.
LEMMA OrderOfPublish ==
    ASSUME TypeOK, OnePublish, Controller, Session, Order, PublishAccepted
    PROVE  Order'
  <1>1. /\ mqtt_connected /\ ~Waits("publish") /\ ~Sending /\ active_publish_id' = 0
        /\ UNCHANGED <<app_events, callback, worker, up, host_seq, next_seq, mqtt_connected,
                       birth_pending>>
    BY AcceptedFacts DEF OnePublish, brokerVars
  <1>2. ~Waiting' /\ worker' # "sending" /\ NoNews' = NoNews
    BY <1>1 DEF Waiting, Sending, NoNews, Queued, News
  <1>3. OnlyBirths' = OnlyBirths /\ Chain' = Chain
    BY <1>1 DEF OnlyBirths, Chain, OnWay, Fits, Near, Num
  <1>4. CASE birth_pending
    <2>1. publish'.kind = "NBIRTH" /\ OnlyBirths
      BY <1>1, <1>4, AcceptedFacts DEF Order
    <2> QED
      BY <1>1, <1>2, <1>3, <1>4, <2>1 DEF Order
  <1>5. CASE ~birth_pending
    <2>1. publish'.kind = "NDATA" /\ publish'.number = next_seq /\ Chain /\ NoNews
      BY <1>1, <1>5, AcceptedFacts DEF Order, Session, Announced
    <2> QED
      BY <1>1, <1>2, <1>3, <1>5, <2>1 DEF Order
  <1> QED
    BY <1>4, <1>5

\* What the worker writes has its place in the session.
LEMMA OrderOfWrite ==
    ASSUME TypeOK, OnePublish, Controller, InFlight, Order, [Next]_vars, Write,
           UNCHANGED <<next_seq, mqtt_connected, birth_pending>>
    PROVE  Order'
  <1>1. /\ worker = "sending" /\ worker' = "written"
        /\ UNCHANGED <<app_events, callback, publish, active_publish_id, current,
                       mqtt_workqueue, host_seq>>
    BY DEF Write, helperVars, publishState
  <1>2. NoNews' = NoNews /\ Accepted' = Accepted /\ Waiting' = Waiting
    BY <1>1 DEF NoNews, Queued, News, Accepted, Waits, Waiting
  <1>3. Alive /\ publish.kind \in {"NBIRTH", "NDATA"}
    BY <1>1, NumFacts DEF Alive
  <1>4. /\ OnlyBirths /\ publish.kind = "NBIRTH" => OnlyBirths'
        /\ Chain /\ Fits(publish) /\ (Reached => Num(publish) = next_seq) => Chain'
    BY WriteOrder
  <1>5. Alive' => Alive
    BY <1>3
  <1>6. CASE publish.kind = "NBIRTH" /\ OnlyBirths
    <2>1. mqtt_connected /\ ~birth_pending => Chain'
      <3> SUFFICES ASSUME Announced PROVE Chain'
        BY DEF Announced
      <3>1. Chain /\ next_seq = 1
        BY <1>6 DEF Order, InFlight, Announced
      <3>2. Num(publish) = 0 /\ Near(0) /\ ~Reached
        BY <1>6, <3>1, NextSeqFacts DEF Num, Near, Reached, OnlyBirths, NoSeq
      <3> QED
        BY <1>4, <3>1, <3>2 DEF Fits
    <2> QED
      BY <1>1, <1>2, <1>4, <1>6, <2>1 DEF Order, Alive
  <1>7. CASE publish.kind = "NBIRTH" /\ ~OnlyBirths
    <2>1. Chain'
      BY <1>1, <1>4, <1>7 DEF Order
    <2>2. ~(mqtt_connected /\ birth_pending) /\ NoNews /\ ~Accepted /\ ~Waiting
      BY <1>7 DEF Order
    <2> QED
      BY <1>1, <1>2, <1>7, <2>1, <2>2 DEF Order, Alive
  <1>8. CASE publish.kind = "NDATA"
    <2>1. Chain' /\ NoNews /\ ~birth_pending
      BY <1>1, <1>3, <1>4, <1>8 DEF Order
    <2> QED
      BY <1>1, <1>2, <1>8, <2>1 DEF Order, Alive
  <1> QED
    BY <1>3, <1>6, <1>7, <1>8

\* News of a connection belongs to a session that has had nothing but NBIRTHs.
LEMMA OrderOfNews ==
    ASSUME TypeOK, OnePublish, Order, [Next]_vars, HandleMqttConnected, ServiceConnected
    PROVE  Order'
  <1>1. Queued(News)
    <2>1. Head(app_events) = News
      <3>1. Head(app_events) \in Events /\ Head(app_events).type = "MQTT_CONNECTED"
        BY TypeParts, RestType DEF HandleMqttConnected, Handles
      <3> QED
        BY <3>1 DEF Events, News, Event
    <2> QED
      BY <2>1, RestFacts DEF Queued, HandleMqttConnected, Handles, TypeOK, MqttTypeOK
  <1>2. OnlyBirths /\ ~(Alive /\ publish.kind = "NDATA")
    BY <1>1 DEF Order, NoNews
  <1>3. /\ UNCHANGED <<up, host_seq, publish, worker>>
        /\ mqtt_connected' = TRUE /\ birth_pending' = TRUE
    BY DEF HandleMqttConnected, ServiceConnected, brokerVars
  <1>4. ~PublishAccepted
    <2>1. UNCHANGED publish_pending
      BY DEF HandleMqttConnected
    <2> QED
      BY <2>1, AcceptedFacts DEF PublishAccepted, Published, MqttPublish
  <1>5. OnlyBirths'
    BY <1>2, <1>3 DEF OnlyBirths, OnWay
  <1>6. Alive' => Alive /\ publish.kind = "NBIRTH"
    BY <1>2, <1>3, <1>4, NothingNew, NumFacts DEF Alive
  <1> QED
    BY <1>3, <1>5, <1>6 DEF Order, Alive

\* A result in flight ends what it answers: an NBIRTH announces the session, an NDATA
\* makes the next number due.
LEMMA OrderOfResult ==
    ASSUME TypeOK, OnePublish, Controller, InFlight, Session, Genuine, Order, [Next]_vars,
           HandlePublishResult
    PROVE  Order'
  <1>0. /\ UNCHANGED <<up, host_seq, publish, worker, callback, active_publish_id, current,
                       mqtt_workqueue>>
        /\ app_events' = Rest
    BY DEF HandlePublishResult, brokerVars, publishState, workerVars, helperVars
  <1>1. ~PublishAccepted /\ ~OnConnack
    <2>1. UNCHANGED <<publish_pending, helper>>
      BY DEF HandlePublishResult, publishState, helperVars
    <2> QED
      BY <2>1, AcceptedFacts DEF PublishAccepted, Published, MqttPublish, OnConnack
  <1>2. OnlyBirths' = OnlyBirths /\ (NoNews => NoNews')
    BY <1>0, <1>1, NothingNew DEF OnlyBirths, OnWay
  <1>3. Accepted' = Accepted /\ Waiting' = Waiting
    BY <1>0 DEF Accepted, Waits, Waiting
  <1>4. CASE UNCHANGED <<next_seq, mqtt_connected>> /\ (birth_pending' <=> birth_pending)
    <2>1. Chain' = Chain /\ Reached' = Reached
      BY <1>0, <1>4 DEF Chain, OnWay, Fits, Near, Num, Reached
    <2> QED
      BY <1>1, <1>2, <1>4, <2>1, OrderFrame
  <1>5. CASE ~(UNCHANGED <<next_seq, mqtt_connected>> /\ (birth_pending' <=> birth_pending))
    <2>0. Flags
      BY TypeParts
    <2>1. ~UNCHANGED serviceVars
      BY <1>5 DEF serviceVars, sessionFlags
    <2>2. /\ publish_in_flight /\ mqtt_connected' = mqtt_connected
          /\ Head(app_events) = Result(pending_publish_token, Head(app_events).ok)
      BY <2>1, ResultCases
    <2>3. Head(app_events).ok = TRUE
      <3>1. Head(app_events).ok \in BOOLEAN
        BY TypeParts, RestType DEF HandlePublishResult, Handles, Events
      <3> QED
        BY <1>5, <2>0, <2>1, <2>2, <3>1, ResultCases
    <2>4. Head(app_events) = Good
      BY <2>2, <2>3 DEF InFlight, Good
    <2>5. Queued(Good)
      BY <2>4, RestFacts DEF Queued, HandlePublishResult, Handles, TypeOK, MqttTypeOK
    <2>6. Received /\ ~Accepted /\ ~Waiting
      BY <2>2, <2>5 DEF Genuine, Session, Accepted, Waiting, Good
    <2>7. mqtt_connected
      BY <2>2 DEF Controller
    <2>8. CASE birth_in_flight
      <3>1. publish.kind = "NBIRTH" /\ birth_pending /\ host_seq = 0 /\ OnlyBirths
        BY <2>2, <2>6, <2>7, <2>8 DEF InFlight, Controller, Received, Num, Order
      <3>2. next_seq' = 1 /\ ~birth_pending'
        BY <2>1, <2>3, <2>8, <3>1, ResultCases
      <3>3. Chain'
        BY <1>0, <3>1, <3>2, NextSeqFacts DEF Chain, OnlyBirths, OnWay, Fits, Near, Num
      <3> QED
        BY <1>0, <1>2, <1>3, <2>6, <3>1, <3>2, <3>3 DEF Order, Alive
    <2>9. CASE ~birth_in_flight
      <3>1. /\ publish.kind = "NDATA" /\ ~birth_pending /\ Num(publish) = next_seq
            /\ pending_measurement_count \in 1 .. Len(buffer)
        BY <2>2, <2>9, NumFacts DEF InFlight, DataInFlight, Num
      <3>2. host_seq = next_seq /\ Chain
        BY <2>6, <2>7, <3>1 DEF Received, Order
      <3>3. UNCHANGED birth_pending /\ next_seq' = NextSeq(next_seq)
        BY <2>1, <2>3, <2>9, <3>1, ResultCases DEF Commit
      <3>4. \A i \in OnWay : Num(up[i]) = next_seq
        BY <3>2 DEF Chain
      <3>5. next_seq \in Seqs /\ next_seq' # next_seq
        BY <3>3, NumFacts, NextSeqFacts
      <3>6. \A i \in OnWay : Fits(up[i])'
        BY <1>0, <3>3, <3>4, NextSeqFacts DEF Fits, Near, Num
      <3>7. Chain'
        BY <1>0, <3>2, <3>3, <3>4, <3>5, <3>6 DEF Chain, OnWay, Near, Num, Fits
      <3>8. Fits(publish)' /\ ~Reached'
        BY <1>0, <3>1, <3>2, <3>3, <3>4, <3>5 DEF Fits, Near, Num, Reached, OnWay
      <3> QED
        BY <1>0, <1>2, <1>3, <2>6, <3>1, <3>3, <3>7, <3>8 DEF Order, Alive
    <2> QED
      BY <2>8, <2>9
  <1> QED
    BY <1>4, <1>5

\* Every step keeps the order.
LEMMA OrderStep ==
    ASSUME TypeOK, OnePublish, Connection, Controller, InFlight, Session, Genuine, Order,
           [Next]_vars
    PROVE  Order'
  <1>1. CASE PublishAccepted
    BY <1>1, OrderOfPublish
  <1>2. CASE EventWork
    <2>0. ~PublishAccepted /\ ~OnConnack
      <3>1. UNCHANGED <<publish_pending, helper>>
        BY <1>2 DEF EventWork, HandleLteLost, HandleLteConnected, HandleMqttConnected,
           HandleMqttDisconnected, HandleMqttError, HandlePublishResult, helperVars,
           publishState
      <3> QED
        BY <3>1, AcceptedFacts DEF PublishAccepted, Published, MqttPublish, OnConnack
    <2>1. CASE HandlePublishResult
      BY <2>1, OrderOfResult
    <2>2. CASE HandleMqttConnected /\ ~MqttConnectedIsStale
      BY <2>2, OrderOfNews DEF HandleMqttConnected
    <2>3. CASE HandleLteLost \/ HandleLteConnected \/ HandleMqttDisconnected \/ HandleMqttError
               \/ (HandleMqttConnected /\ MqttConnectedIsStale)
      <3>1. /\ UNCHANGED <<up, host_seq, next_seq>>
            /\ \/ UNCHANGED <<mqtt_connected, birth_pending>>
               \/ mqtt_connected' = FALSE /\ birth_pending' = FALSE
        BY <2>3 DEF HandleLteLost, HandleLteConnected, HandleMqttConnected,
           HandleMqttDisconnected, HandleMqttError, ServiceDisconnected, brokerVars,
           serviceVars, sessionFlags
      <3>2. OnlyBirths' = OnlyBirths /\ Chain' = Chain /\ Reached' = Reached
        BY <3>1 DEF OnlyBirths, Chain, OnWay, Fits, Near, Num, Reached
      <3> QED
        BY <2>0, <3>1, <3>2, OrderFrame
    <2> QED
      BY <1>2, <2>1, <2>2, <2>3 DEF EventWork
  <1>3. CASE ~PublishAccepted /\ ~EventWork
    <2>0. UNCHANGED <<next_seq, mqtt_connected, birth_pending>>
      BY <1>3, WhoChangesService DEF EventWork
    <2>1. CASE OnConnack
      BY <2>0, <2>1, OrderOfSession
    <2>2. CASE Write
      BY <2>0, <2>2, OrderOfWrite
    <2>3. CASE BrokerReceive
      <3>1. ~OnConnack
        BY <2>3 DEF BrokerReceive, OnConnack, helperVars
      <3> QED
        BY <1>3, <2>0, <2>3, <3>1, ReceiveOrder, OrderFrame
    <2>4. CASE TrafficLost
      <3>1. up' = <<>> /\ UNCHANGED host_seq /\ ~OnConnack
        BY <2>4 DEF TrafficLost, OnConnack, helperVars
      <3>2. (OnlyBirths => OnlyBirths') /\ (Chain => Chain') /\ (Reached' => Reached)
        BY <2>0, <3>1 DEF OnlyBirths, Chain, OnWay, Fits, Near, Num, Reached
      <3> QED
        BY <1>3, <2>0, <3>1, <3>2, OrderFrame
    <2>5. CASE ~OnConnack /\ ~Write /\ ~BrokerReceive /\ ~TrafficLost
      <3>1. UNCHANGED <<up, host_seq>>
        BY <2>5, WhoChangesBroker
      <3>2. OnlyBirths' = OnlyBirths /\ Chain' = Chain /\ Reached' = Reached
        BY <2>0, <3>1 DEF OnlyBirths, Chain, OnWay, Fits, Near, Num, Reached
      <3> QED
        BY <1>3, <2>0, <2>5, <3>2, OrderFrame
    <2> QED
      BY <2>1, <2>2, <2>3, <2>4, <2>5
  <1> QED
    BY <1>1, <1>2, <1>3

-----------------------------------------------------------------------------
(* What a PUBACK and a result stand for.                                   *)

\* What a new measurement takes no name of.
LEMMA InUseFacts ==
    ASSUME TypeOK
    PROVE  /\ Held \subseteq InUse
           /\ \A i \in OnWay : up[i].data \subseteq InUse
           /\ publish_pending \/ active_publish_id # 0 => publish.data \subseteq InUse
  <1> DEFINE Own == IF publish_pending \/ active_publish_id # 0 THEN publish.data ELSE {}
             Moving == UNION {up[i].data : i \in 1 .. Len(up)}
  <1>1. InUse = Held \cup Moving \cup Own
    BY DEF InUse
  <1>2. \A i \in OnWay : up[i].data \subseteq Moving
    BY DEF OnWay
  <1>3. publish_pending \/ active_publish_id # 0 => Own = publish.data
    BY TypeParts DEF Flags
  <1> HIDE DEF Own, Moving
  <1> QED
    BY <1>1, <1>2, <1>3

\* Nothing that arrives changes what the broker got last, no measurement takes a
\* name of the payload, and no session ends, as long as the publish or its result
\* is there.
LEMMA ReceivedStays ==
    ASSUME TypeOK, OnePublish, Connection, Controller, InFlight, Session, Order,
           [Next]_vars, ~PublishAccepted, Received,
           Waiting \/ (publish_in_flight /\ Queued(Good))
    PROVE  Received'
  <1>1. publish' = publish
    BY NothingNew
  <1>2. ~OnConnack
    BY DEF OnConnack, NoAttempt, Connection, Session
  <1>3. CASE BrokerReceive
    <2>1. \/ publish.kind = "NBIRTH" /\ OnlyBirths
          \/ Chain /\ Num(publish) = next_seq
      <3>1. CASE Waiting
        BY <3>1, NumFacts DEF Order, Num
      <3>2. CASE publish_in_flight /\ birth_in_flight
        BY <3>2 DEF Controller, InFlight, Order
      <3>3. CASE publish_in_flight /\ ~birth_in_flight
        BY <3>3, NumFacts DEF Controller, InFlight, DataInFlight, Order, Num
      <3> QED
        BY <3>1, <3>2, <3>3
    <2>2. 1 \in OnWay /\ Head(up) = up[1]
      BY <1>3 DEF BrokerReceive, TypeOK, MqttTypeOK, OnWay
    <2>3. Num(Head(up)) = Num(publish)
      BY <2>1, <2>2 DEF OnlyBirths, Chain, Received, Num
    <2> QED
      BY <1>1, <1>3, <2>3 DEF BrokerReceive, Received, Num
  <1>4. CASE Measures
    <2>1. publish.data \subseteq InUse
      <3>1. CASE Waiting
        BY <3>1, InUseFacts DEF Waiting
      <3>2. CASE publish_in_flight /\ birth_in_flight
        BY <3>2 DEF InFlight, OnePublish
      <3>3. CASE publish_in_flight /\ ~birth_in_flight
        <4>1. publish.data = Oldest(pending_measurement_count)
              /\ pending_measurement_count \in 1 .. Len(buffer)
          BY <3>3 DEF InFlight, DataInFlight
        <4>2. Oldest(pending_measurement_count) \subseteq Held
          BY <4>1, TypeParts DEF AppTypeOK, Oldest, Held
        <4> QED
          BY <4>1, <4>2, InUseFacts
      <3> QED
        BY <3>1, <3>2, <3>3
    <2>2. PICK r \in Readings : MeasurementWork(r)
      BY <1>4 DEF Measures
    <2>3. r \notin InUse /\ stored' = stored \ {r} /\ UNCHANGED host_seq
      BY <2>2 DEF MeasurementWork
    <2> QED
      BY <1>1, <2>1, <2>3 DEF Received, Num
  <1>5. CASE ~BrokerReceive /\ ~Measures
    BY <1>1, <1>2, <1>5, WhoChangesBroker DEF Received, Num
  <1> QED
    BY <1>3, <1>4, <1>5

\* An id in use is carried by no other message.
LEMMA OwnMessagesStep ==
    ASSUME TypeOK, OnePublish, OwnMessages, [Next]_vars, NamesFresh
    PROVE  OwnMessages'
  <1>1. CASE PublishAccepted
    <2>1. active_publish_id' = 0 /\ ~Sending'
      BY <1>1, AcceptedFacts DEF OnePublish, Sending
    <2> QED
      BY <2>1 DEF OwnMessages
  <1>2. CASE PublishWork
    <2>1. UNCHANGED up /\ active_publish_id = 0 /\ ~Sending
      <3>1. Waits("publish")
        BY <1>2, TypeParts, QueueFacts DEF PublishWork, Take1
      <3> QED
        BY <1>2, <3>1 DEF PublishWork, brokerVars, OnePublish
    <2>2. CASE PublishWanted
      <3>1. message_id' = active_publish_id' /\ active_publish_id' # 0
        BY <1>2, <2>2, TypeParts, NextIdType DEF PublishWork, ClientTypeOK
      <3> QED
        BY <2>1, <3>1 DEF NamesFresh, OwnMessages, OnWay
    <2>3. CASE ~PublishWanted
      BY <1>2, <2>1, <2>3 DEF PublishWork, OwnMessages, Sending
    <2> QED
      BY <2>2, <2>3
  <1>3. CASE ~PublishAccepted /\ ~PublishWork
    <2>1. UNCHANGED <<publish, message_id>>
      BY <1>3, WhoChangesPublish
    <2>2. active_publish_id' # 0 \/ Sending' => active_publish_id # 0 \/ Sending
      <3>1. active_publish_id' # 0 => active_publish_id # 0
        BY <1>3, WhoChangesPublish
      <3>2. Sending' => Sending \/ active_publish_id # 0
        BY <1>3, WhoChangesWorker DEF Sending, ConnectWork, TimeoutWork, Write
      <3> QED
        BY <3>1, <3>2
    <2>3. CASE Write
      <3> DEFINE m == [id |-> job.id, kind |-> publish.kind, number |-> publish.number,
                       data |-> publish.data]
      <3>1. up' = Append(up, m) /\ Sending
        BY <2>3 DEF Write, Sending
      <3>2. /\ m.kind = publish.kind /\ m.number = publish.number /\ m.data = publish.data
        OBVIOUS
      <3> HIDE DEF m
      <3>3. \A i \in OnWay' : (i \in OnWay /\ up'[i] = up[i]) \/ up'[i] = m
        BY <3>1 DEF TypeOK, MqttTypeOK, OnWay
      <3> QED
        BY <2>1, <3>1, <3>2, <3>3 DEF OwnMessages
    <2>4. CASE BrokerReceive
      <3>1. \A i \in OnWay' : i + 1 \in OnWay /\ up'[i] = up[i + 1]
        BY <2>4 DEF BrokerReceive, TypeOK, MqttTypeOK, OnWay
      <3> QED
        BY <2>1, <2>2, <3>1 DEF OwnMessages
    <2>5. CASE up' = <<>>
      BY <2>5 DEF OwnMessages, OnWay
    <2>6. CASE UNCHANGED up
      BY <2>1, <2>2, <2>6 DEF OwnMessages, OnWay
    <2> QED
      BY <2>3, <2>4, <2>5, <2>6, WhoChangesBroker DEF OnConnack, TrafficLost
  <1> QED
    BY <1>1, <1>2, <1>3

\* Write, the broker, on_puback and the events keep PUBACKs and results genuine.
LEMMA GenuineStep ==
    ASSUME TypeOK, OnePublish, Connection, Controller, InFlight, Session, Order, Genuine,
           [Next]_vars, NamesFresh
    PROVE  Genuine'
  <1>1. OwnMessages'
    BY OwnMessagesStep DEF Genuine
  <1>2. ASSUME Waiting', Contains(acks, message_id)' PROVE Received'
    <2>1. ~PublishAccepted
      BY <1>2, AcceptedFacts DEF Waiting
    <2>2. ~PublishWork
      <3> SUFFICES ASSUME PublishWork PROVE FALSE
        OBVIOUS
      <3>1. Waits("publish") /\ UNCHANGED acks
        BY TypeParts, QueueFacts DEF PublishWork, Take1, brokerVars
      <3>2. active_publish_id = 0 /\ PublishWanted /\ message_id' = active_publish_id'
        BY <1>2, <3>1 DEF OnePublish, PublishWork, Waiting
      <3> QED
        BY <1>2, <3>1, <3>2 DEF NamesFresh, Waiting
    <2>3. Waiting /\ UNCHANGED <<publish, message_id>>
      BY <1>2, <2>1, <2>2, AliveStep, WhoChangesPublish
    <2>4. CASE Contains(acks, message_id)
      BY <2>1, <2>3, <2>4, ReceivedStays DEF Genuine
    <2>5. CASE ~Contains(acks, message_id)
      <3>1. acks \in Seq(1 .. MsgIds)
        BY TypeParts DEF ClientTypeOK
      <3>2. BrokerReceive
        <4>1. acks' # <<>> /\ ~UNCHANGED acks
          BY <1>2, <2>3, <2>5 DEF Contains
        <4>2. ~OnPuback
          <5>1. acks # <<>> => \A i \in 1 .. Len(Tail(acks)) :
                                  Tail(acks)[i] = acks[i + 1] /\ i + 1 \in 1 .. Len(acks)
            BY <3>1
          <5> QED
            BY <1>2, <2>3, <2>5, <5>1 DEF OnPuback, Contains
        <4> QED
          BY <4>1, <4>2, WhoChangesBroker DEF OnConnack, TrafficLost, OnDisconnect
      <3>3. acks' = Append(acks, Head(up).id) /\ up # <<>>
        BY <1>2, <2>3, <2>5, <3>2 DEF BrokerReceive
      <3>4. Head(up).id = message_id
        BY <1>2, <2>3, <2>5, <3>1, <3>3 DEF Contains
      <3>5. 1 \in OnWay /\ Head(up) = up[1]
        BY <3>3 DEF OnWay, TypeOK, MqttTypeOK
      <3>6. /\ Head(up).kind = publish.kind /\ Head(up).number = publish.number
            /\ Head(up).data = publish.data
        BY <2>3, <3>4, <3>5 DEF Genuine, OwnMessages, Waiting
      <3> QED
        BY <2>3, <3>2, <3>6 DEF BrokerReceive, Received, Num
    <2> QED
      BY <2>4, <2>5
  <1>3. ASSUME publish_in_flight', Queued(Good)' PROVE Received'
    <2>1. ~PublishAccepted
      <3> SUFFICES ASSUME PublishAccepted PROVE FALSE
        OBVIOUS
      <3>1. \A ok \in BOOLEAN : ~Queued(Result(publish'.token, ok))
        BY AcceptedFacts DEF NamesFresh
      <3> QED
        BY <1>3, <3>1, AcceptedFacts DEF Queued, Good
    <2>2. publish_in_flight /\ UNCHANGED publish
      BY <1>3, <2>1, StaysInFlight
    <2>3. Later(Good)
      BY <1>3, <2>2 DEF Later, Queued, Good
    <2>4. CASE Queued(Good)
      BY <2>1, <2>2, <2>4, ReceivedStays DEF Genuine
    <2>5. CASE ~Queued(Good)
      <3> DEFINE e == Good
      <3>1. /\ e \notin Reports /\ e # NoEvent /\ e # News
            /\ \A token : e # Result(token, FALSE)
        BY ResultNames DEF Good
      <3> HIDE DEF e
      <3>2. OnPuback /\ acks # <<>> /\ PubackExpected(Head(acks))
        BY <2>3, <2>5, <3>1, WhoQueues DEF e
      <3>3. Waiting /\ Received
        BY <3>2, PubackFacts DEF Genuine
      <3> QED
        BY <2>1, <3>3, ReceivedStays
    <2> QED
      BY <2>4, <2>5
  <1> QED
    BY <1>1, <1>2, <1>3 DEF Genuine

-----------------------------------------------------------------------------
(* The readings on their way.                                              *)

\* The broker has the readings, or they are the oldest of the buffer, no more than
\* those that the result in flight will remove.
Known(d) ==
    \/ d \subseteq stored
    \/ \E n \in 0 .. Len(buffer) :
          d = Oldest(n) /\ (DataInFlight => n <= pending_measurement_count)

\* All readings on their way, and those of the worker's copy, are known.
Data ==
    /\ \A i \in OnWay : Known(up[i].data)
    /\ publish_pending \/ active_publish_id # 0 => Known(publish.data)

\* Known after the step.
StillKnown(d) ==
    \/ d \subseteq stored'
    \/ \E n \in 0 .. Len(buffer') :
          /\ d = {buffer'[i] : i \in 1 .. n}
          /\ DataInFlight' => n <= pending_measurement_count'

\* Readings stay known: no measurement takes their names, and a result removes them
\* from the buffer only after the broker has got them.
LEMMA KnownStays ==
    ASSUME TypeOK, Controller, InFlight, Session, Genuine, [Next]_vars,
           NEW d, Known(d), d \subseteq InUse
    PROVE  StillKnown(d)
  <1>0. /\ buffer \in Seq(Readings) /\ Len(buffer) \in Nat
        /\ pending_measurement_count \in Nat
    BY TypeParts, CapacityAssumption DEF AppTypeOK
  <1>1. CASE PublishAccepted
    <2>1. UNCHANGED <<buffer, stored>>
      BY <1>1, AcceptedFacts DEF brokerVars
    <2>2. DataInFlight' => pending_measurement_count' = Len(buffer)
      BY <1>1 DEF PublishAccepted, Published, DataInFlight
    <2> QED
      BY <1>0, <2>1, <2>2 DEF Known, StillKnown, Oldest
  <1>2. CASE Measures
    <2>1. PICK r \in Readings : MeasurementWork(r)
      BY <1>2 DEF Measures
    <2>2. /\ r \notin InUse /\ stored' = stored \ {r} /\ buffer' = Append(buffer, r)
          /\ UNCHANGED <<pendingVars, sessionFlags>>
      BY <2>1 DEF MeasurementWork
    <2>3. DataInFlight' = DataInFlight /\ UNCHANGED pending_measurement_count
      BY <2>2 DEF DataInFlight, pendingVars, sessionFlags
    <2>4. Len(buffer') = Len(buffer) + 1 /\ \A i \in 1 .. Len(buffer) : buffer'[i] = buffer[i]
      BY <1>0, <2>2
    <2>5. \A n \in 0 .. Len(buffer) : {buffer'[i] : i \in 1 .. n} = Oldest(n)
      BY <1>0, <2>4 DEF Oldest
    <2>6. d \subseteq stored => d \subseteq stored'
      BY <2>2
    <2>7. CASE d \subseteq stored
      BY <2>6, <2>7 DEF StillKnown
    <2>8. ASSUME NEW n \in 0 .. Len(buffer), d = Oldest(n),
                 DataInFlight => n <= pending_measurement_count
          PROVE  StillKnown(d)
      <3>1. d = {buffer'[i] : i \in 1 .. n} /\ n \in 0 .. Len(buffer')
        BY <1>0, <2>4, <2>5, <2>8
      <3>2. DataInFlight' => n <= pending_measurement_count'
        BY <2>3, <2>8
      <3> QED
        BY <3>1, <3>2 DEF StillKnown
    <2> QED
      BY <2>7, <2>8 DEF Known
  <1>3. CASE HandlePublishResult
    <2>1. UNCHANGED <<stored, publish>>
      BY <1>3 DEF HandlePublishResult, brokerVars, publishState
    <2>2. CASE /\ UNCHANGED buffer
               /\ DataInFlight' => DataInFlight /\ UNCHANGED pending_measurement_count
      BY <2>1, <2>2 DEF Known, StillKnown, Oldest
    <2>3. CASE \/ ~UNCHANGED buffer
               \/ ~(DataInFlight' => DataInFlight /\ UNCHANGED pending_measurement_count)
      <3>1. ~UNCHANGED serviceVars
        BY <2>3 DEF serviceVars, sessionFlags, pendingVars, DataInFlight
      <3>2. /\ publish_in_flight /\ ~publish_in_flight'
            /\ Head(app_events) = Result(pending_publish_token, Head(app_events).ok)
        BY <1>3, <3>1, ResultCases
      <3>3. ~UNCHANGED buffer
        BY <2>3, <3>2 DEF DataInFlight
      <3>4. ~birth_in_flight /\ Head(app_events).ok
        BY <1>3, <3>1, <3>3, ResultCases
      <3>5. Head(app_events).ok = TRUE
        <4>1. Head(app_events).ok \in BOOLEAN
          BY <1>3, TypeParts, RestType DEF HandlePublishResult, Handles, Events
        <4> QED
          BY <3>4, <4>1
      <3>6. Queued(Good)
        <4>1. Head(app_events) = Good
          BY <3>2, <3>5 DEF InFlight, Good
        <4> QED
          BY <1>3, <4>1, RestFacts DEF Queued, HandlePublishResult, Handles, TypeOK, MqttTypeOK
      <3>7. DataInFlight /\ publish.data = Oldest(pending_measurement_count)
            /\ publish.data \subseteq stored
        BY <3>2, <3>4, <3>6 DEF DataInFlight, InFlight, Genuine, Received
      <3>8. d \subseteq stored
        <4>1. CASE d \subseteq stored
          BY <4>1
        <4>2. ASSUME NEW n \in 0 .. Len(buffer), d = Oldest(n), n <= pending_measurement_count
              PROVE  d \subseteq stored
          BY <1>0, <3>7, <4>2 DEF Oldest
        <4> QED
          BY <3>7, <4>1, <4>2 DEF Known
      <3> QED
        BY <2>1, <3>8 DEF StillKnown
    <2> QED
      BY <2>2, <2>3
  <1>4. CASE ~PublishAccepted /\ ~Measures /\ ~HandlePublishResult
    <2>1. UNCHANGED <<buffer, pending_measurement_count>>
      BY <1>4, WhoChangesService
    <2>2. DataInFlight' => DataInFlight
      BY <1>4, StaysInFlight DEF DataInFlight
    <2>3. stored \subseteq stored'
      BY <1>4, WhoChangesBroker DEF BrokerReceive
    <2> QED
      BY <2>1, <2>2, <2>3 DEF Known, StillKnown, Oldest
  <1> QED
    BY <1>1, <1>2, <1>3, <1>4

\* Every step keeps the readings on their way known.
LEMMA DataStep ==
    ASSUME TypeOK, OnePublish, Controller, InFlight, Session, Genuine, Data, [Next]_vars
    PROVE  Data'
  <1>1. \A i \in OnWay : StillKnown(up[i].data)
    <2> TAKE i \in OnWay
    <2> DEFINE d == up[i].data
    <2>1. Known(d) /\ d \subseteq InUse
      BY InUseFacts DEF Data
    <2> HIDE DEF d
    <2>2. StillKnown(d)
      BY <2>1, KnownStays
    <2> QED
      BY <2>2 DEF d
  <1>2. publish_pending \/ active_publish_id # 0 => StillKnown(publish.data)
    <2> SUFFICES ASSUME publish_pending \/ active_publish_id # 0 PROVE StillKnown(publish.data)
      OBVIOUS
    <2> DEFINE d == publish.data
    <2>1. Known(d) /\ d \subseteq InUse
      BY InUseFacts DEF Data
    <2> HIDE DEF d
    <2>2. StillKnown(d)
      BY <2>1, KnownStays
    <2> QED
      BY <2>2 DEF d
  <1>3. \A i \in OnWay' : StillKnown(up'[i].data)
    <2>1. CASE Write
      <3> DEFINE m == [id |-> job.id, kind |-> publish.kind, number |-> publish.number,
                       data |-> publish.data]
      <3>1. up' = Append(up, m) /\ Sending
        BY <2>1 DEF Write, Sending
      <3>2. StillKnown(m.data)
        BY <1>2, <3>1 DEF OnePublish
      <3> HIDE DEF m
      <3>3. \A i \in OnWay' : (i \in OnWay /\ up'[i] = up[i]) \/ up'[i] = m
        BY <3>1 DEF TypeOK, MqttTypeOK, OnWay
      <3> QED
        BY <1>1, <3>2, <3>3
    <2>2. CASE BrokerReceive
      <3>1. \A i \in OnWay' : i + 1 \in OnWay /\ up'[i] = up[i + 1]
        BY <2>2 DEF BrokerReceive, TypeOK, MqttTypeOK, OnWay
      <3> QED
        BY <1>1, <3>1
    <2>3. CASE up' = <<>>
      BY <2>3 DEF OnWay
    <2>4. CASE UNCHANGED up
      BY <1>1, <2>4 DEF OnWay
    <2> QED
      BY <2>1, <2>2, <2>3, <2>4, WhoChangesBroker DEF OnConnack, TrafficLost
  <1>4. publish_pending' \/ active_publish_id' # 0 => StillKnown(publish'.data)
    <2>1. CASE PublishAccepted
      <3>1. /\ publish'.data = {} \/ publish'.data = Held
            /\ ~birth_pending => publish'.data = Held
            /\ UNCHANGED <<buffer, stored>>
        BY <2>1, AcceptedFacts DEF brokerVars
      <3>2. DataInFlight' => pending_measurement_count' = Len(buffer)
        BY <2>1 DEF PublishAccepted, Published, DataInFlight
      <3>3. Len(buffer) \in Nat
        BY TypeParts DEF AppTypeOK
      <3> QED
        BY <3>1, <3>2, <3>3 DEF StillKnown, Held, Oldest
    <2>2. CASE ~PublishAccepted
      <3>1. /\ publish' = publish
            /\ active_publish_id' # 0 => active_publish_id # 0 \/ publish_pending
        <4>1. PublishWork => Waits("publish")
          BY TypeParts, QueueFacts DEF PublishWork, Take1
        <4> QED
          BY <2>2, <4>1, WhoChangesPublish DEF OnePublish
      <3>2. publish_pending' => active_publish_id # 0 \/ publish_pending
        <4>1. OnePublish'
          BY OnePublishStep
        <4>2. Waits("publish")' => Waits("publish")
          BY <2>2, TypeParts, WhoSubmits
        <4>3. worker' = "sending" => Sending \/ Waits("publish") \/ active_publish_id # 0
          BY <2>2, NothingNew DEF Accepted, Waiting, Sending
        <4>4. worker' = "written" => Sending
          BY WhoChangesWorker DEF Sending, ConnectWork, PublishWork, TimeoutWork, Write
        <4> QED
          BY <4>1, <4>2, <4>3, <4>4 DEF OnePublish, Sending
      <3> QED
        BY <1>2, <3>1, <3>2
    <2> QED
      BY <2>1, <2>2
  <1> QED
    BY <1>3, <1>4 DEF Data, Known, StillKnown, Oldest

-----------------------------------------------------------------------------
(* The inductive invariant and what follows from it.                       *)

\* Each part rests on the ones before it; the order of the messages and the
\* genuineness of the results rest on each other.
Inv ==
    /\ TypeOK /\ OnePublish
    /\ Connection /\ Controller
    /\ InFlight /\ Session
    /\ Order /\ Genuine /\ Data

LEMMA InitInv == Init => Inv
  <1> SUFFICES ASSUME Init PROVE Inv
    OBVIOUS
  <1>1. TypeOK /\ OnePublish /\ Controller
    BY InitTypes, InitController
  <1>2. /\ up = <<>> /\ acks = <<>> /\ app_events = <<>> /\ mqtt_workqueue = <<>>
        /\ callback = NoEvent /\ worker = "idle" /\ helper = "closed"
        /\ active_publish_id = 0 /\ host_seq = NoSeq /\ helper_connected = FALSE
        /\ publish_pending = FALSE /\ publish_in_flight = FALSE /\ mqtt_connected = FALSE
    BY DEF Init, MqttInit, ServiceInit
  <1>3. /\ \A v : ~Contains(mqtt_workqueue, v) /\ ~Contains(app_events, v)
        /\ OnWay = {} /\ News # NoEvent /\ \A token, ok : Result(token, ok) # NoEvent
    BY <1>2, ResultNames DEF Contains, OnWay
  <1>4. ~Accepted /\ ~Waiting /\ ~Sending /\ NoNews /\ OnlyBirths
        /\ \A token, ok : ~Queued(Result(token, ok))
    BY <1>2, <1>3 DEF Accepted, Waits, Waiting, Sending, NoNews, Queued, OnlyBirths
  <1>5. Connection
    BY <1>2, <1>4 DEF Connection
  <1>6. InFlight /\ Session
    BY <1>2, <1>3, <1>4 DEF InFlight, DataInFlight, Announced, Session, Waits
  <1>7. Order
    BY <1>2, <1>4 DEF Order, Alive
  <1>8. Genuine /\ Data
    BY <1>2, <1>3, <1>4 DEF Genuine, OwnMessages, Data
  <1> QED
    BY <1>1, <1>5, <1>6, <1>7, <1>8 DEF Inv

\* It is inductive while the names are fresh.
LEMMA InvStep == Inv /\ [Next]_vars /\ NamesFresh => Inv'
  <1> SUFFICES ASSUME Inv, [Next]_vars, NamesFresh PROVE Inv'
    OBVIOUS
  <1> USE DEF Inv
  <1>1. TypeOK' /\ OnePublish'
    BY TypeStep, OnePublishStep
  <1>2. Connection' /\ Controller'
    BY ConnectionStep, ControllerStep
  <1>3. InFlight' /\ Session'
    BY InFlightStep, SessionStep
  <1>4. Order' /\ Genuine'
    BY OrderStep, GenuineStep
  <1>5. Data'
    BY DataStep
  <1> QED
    BY <1>1, <1>2, <1>3, <1>4, <1>5

\* The invariant holds as long as no name is given twice at a time.
THEOREM Safety == Spec /\ NamesAreFresh => []Inv
  <1>1. Inv /\ [Next]_vars /\ [NamesFresh]_vars => Inv'
    <2>1. UNCHANGED vars => NamesFresh
      BY DEF vars, mqttVars, publishState, serviceVars, sessionFlags, NamesFresh
    <2> QED
      BY <2>1, InvStep
  <1> QED
    BY InitInv, <1>1, PTL DEF Spec, NamesAreFresh

\* The result in flight is genuine, and the payload is what it will remove.
LEMMA ResultStored == Inv => ResultMeansStored
  <1> SUFFICES ASSUME Inv, publish_in_flight, Queued(Result(pending_publish_token, TRUE))
               PROVE  IF birth_in_flight THEN host_seq = 0
                      ELSE /\ pending_measurement_count \in 1 .. Len(buffer)
                           /\ Oldest(pending_measurement_count) \subseteq stored
    BY DEF ResultMeansStored
  <1>1. Queued(Good) /\ Received
    BY DEF Inv, InFlight, Good, Genuine
  <1> QED
    BY <1>1 DEF Inv, InFlight, DataInFlight, Received, Num

\* A result that will be believed tells the truth: the broker has the NBIRTH of the
\* session, or every reading that the result will remove from the buffer
\* (measurement_service.c:222-243).
THEOREM ResultIsTrue == Spec /\ NamesAreFresh => []ResultMeansStored
  BY Safety, ResultStored, PTL

\* What the broker gets in a session is NBIRTHs, then NDATAs in the order of their
\* numbers (measurement_service.c:77-111, data_transmission.c:172-202).
THEOREM SparkplugOrderHolds == Spec /\ NamesAreFresh => []SparkplugOrder
  <1>1. Inv => SparkplugOrder
    <2> SUFFICES ASSUME Inv PROVE SparkplugOrder
      OBVIOUS
    <2> DEFINE Seen(i) == IF i = 0 THEN host_seq ELSE Num(up[i])
    <2>1. SUFFICES \A i \in OnWay :
                      IF up[i].kind = "NBIRTH" THEN Seen(i - 1) \in {NoSeq, 0}
                      ELSE /\ Seen(i - 1) # NoSeq
                           /\ up[i].number \in {Seen(i - 1), NextSeq(Seen(i - 1))}
      BY DEF SparkplugOrder, OnWay, Num
    <2> TAKE i \in OnWay
    <2>2. /\ TypeOK /\ (OnlyBirths \/ Chain)
          /\ i \in Nat /\ (i - 1 = 0 \/ (i - 1 \in OnWay /\ i - 1 < i))
      BY DEF Inv, Order, OnWay
    <2>3. CASE OnlyBirths
      BY <2>2, <2>3 DEF OnlyBirths, Num
    <2>4. CASE Chain
      <3>1. /\ Seen(i - 1) \in Seqs /\ Near(Seen(i - 1)) /\ Fits(up[i])
            /\ Seen(i - 1) = next_seq => Num(up[i]) = next_seq
        BY <2>2, <2>4, NumFacts DEF Chain, Fits
      <3>2. /\ up[i].kind \in {"NBIRTH", "NDATA"} /\ Num(up[i]) \in Seqs
            /\ next_seq \in Seqs
        BY <2>2, NumFacts
      <3> HIDE DEF Seen
      <3>3. CASE up[i].kind = "NBIRTH"
        <4>1. next_seq = 1 /\ Num(up[i]) = 0
          BY <3>1, <3>3 DEF Fits, Num
        <4>2. Seen(i - 1) = 0
          BY <3>1, <4>1, NextSeqFacts DEF Near
        <4> QED
          BY <3>3, <4>2
      <3>4. CASE up[i].kind # "NBIRTH"
        <4>1. Num(up[i]) = up[i].number
          BY <3>4 DEF Num
        <4> QED
          BY <3>1, <3>2, <3>4, <4>1, NextSeqFacts DEF Fits, Near
      <3> QED
        BY <3>3, <3>4
    <2> QED
      BY <2>2, <2>3, <2>4
  <1> QED
    BY Safety, <1>1, PTL

-----------------------------------------------------------------------------
(* The buffer.                                                             *)

\* A session that awaits its NBIRTH, or a full buffer, is being served, or about to.
Served ==
    mqtt_connected /\ (birth_pending \/ Len(buffer) = Capacity) =>
        publish_work \/ publish_in_flight

\* aitsm_data_transmission_should_flush flushes a full buffer.
LEMMA FlushFacts == \A flush \in ShouldFlush(Capacity) : flush = TRUE
  <1>1. Capacity # 0 /\ Capacity >= Capacity
    BY CapacityAssumption
  <1>2. ASSUME NEW n, n # 0, n >= Capacity PROVE ShouldFlush(n) = {TRUE}
    BY <1>2, Zenon DEF ShouldFlush
  <1> QED
    BY <1>1, <1>2

\* Whoever ends a publish, opens a session or fills the buffer requests a publish.
LEMMA ServedStep ==
    ASSUME Inv, Served, [Next]_vars
    PROVE  Served'
  <1>0. /\ TypeOK /\ Flags /\ Controller /\ InFlight
        /\ buffer \in Seq(Readings) /\ Len(buffer) <= Capacity
    BY TypeParts DEF Inv, AppTypeOK
  <1>1. CASE PublishWorkHandler
    <2>1. CASE PublishAccepted
      BY <1>0, <2>1, AcceptedFacts DEF Served
    <2>2. CASE ~PublishAccepted
      <3>1. UNCHANGED <<mqtt_connected, birth_pending, buffer, publish_in_flight>>
        BY <1>1, <2>2, PublishCases DEF PublishWorkHandler, PublishUnchanged
      <3>2. \/ UNCHANGED publish_work
            \/ ~mqtt_connected \/ publish_in_flight \/ (~birth_pending /\ buffer = <<>>)
        BY <1>1, <2>2 DEF PublishWorkHandler, PublishAccepted, SendsBirth
      <3>3. buffer = <<>> => Len(buffer) # Capacity
        BY CapacityAssumption
      <3> QED
        BY <1>0, <3>1, <3>2, <3>3 DEF Served, Flags
    <2> QED
      BY <2>1, <2>2
  <1>2. CASE Measures
    <2>1. PICK r \in Readings : MeasurementWork(r)
      BY <1>2 DEF Measures
    <2>2. /\ UNCHANGED <<mqtt_connected, birth_pending, publish_in_flight>>
          /\ UNCHANGED publish_work \/ Request(mqtt_connected, publish_in_flight)
      BY <2>1 DEF MeasurementWork, sessionFlags
    <2>3. Len(buffer') = Capacity => Request(mqtt_connected, publish_in_flight)
      <3>1. PICK flush \in ShouldFlush(Len(buffer')) :
                    (pending_measurement_count # 0 \/ flush)
                       => Request(mqtt_connected, publish_in_flight)
        BY <2>1 DEF MeasurementWork
      <3> QED
        BY <3>1, FlushFacts
    <2> QED
      BY <1>0, <2>2, <2>3 DEF Served, Request, Flags
  <1>3. CASE HandlePublishResult
    <2>1. CASE UNCHANGED serviceVars
      BY <2>1 DEF serviceVars, sessionFlags, Served
    <2>2. CASE ~UNCHANGED serviceVars
      <3>1. CASE publish_work' <=> publish_work \/ mqtt_connected
        BY <1>0, <1>3, <2>2, <3>1, ResultCases DEF Served
      <3>2. CASE ~(publish_work' <=> publish_work \/ mqtt_connected)
        <4>1. /\ ~birth_in_flight /\ UNCHANGED <<birth_pending, mqtt_connected>>
              /\ publish_in_flight
          BY <1>0, <1>3, <2>2, <3>2, ResultCases
        <4>2. ~birth_pending'
          BY <1>0, <4>1 DEF InFlight, DataInFlight
        <4>3. \E flush \in ShouldFlush(Len(buffer')) :
                      publish_work' <=> publish_work \/ (mqtt_connected /\ flush)
          <5>1. \/ publish_work' <=> publish_work \/ mqtt_connected
                \/ \E flush \in ShouldFlush(Len(buffer')) :
                       publish_work' <=> publish_work \/ (mqtt_connected /\ flush)
            BY <1>0, <1>3, <2>2, <4>1, ResultCases
          <5> QED
            BY <3>2, <5>1, Zenon
        <4>4. Len(buffer') = Capacity => (publish_work' <=> publish_work \/ mqtt_connected)
          BY <4>3, FlushFacts
        <4> QED
          BY <3>2, <4>2, <4>4 DEF Served
      <3> QED
        BY <3>1, <3>2
    <2> QED
      BY <2>1, <2>2
  <1>4. CASE HandleLteLost \/ HandleMqttDisconnected \/ HandleMqttError
    <2>1. mqtt_connected' = FALSE
      BY <1>4 DEF HandleLteLost, HandleMqttDisconnected, HandleMqttError, ServiceDisconnected
    <2> QED
      BY <2>1 DEF Served
  <1>5. CASE HandleLteConnected \/ (HandleMqttConnected /\ MqttConnectedIsStale)
    BY <1>5 DEF HandleLteConnected, HandleMqttConnected, serviceVars, sessionFlags, Served
  <1>6. CASE HandleMqttConnected /\ ~MqttConnectedIsStale
    <2>1. publish_work' = (publish_work \/ (TRUE /\ ~publish_in_flight))
          /\ UNCHANGED publish_in_flight
      BY <1>6 DEF HandleMqttConnected, ServiceConnected, Request
    <2> QED
      BY <1>0, <2>1 DEF Served, Flags
  <1>7. CASE ~EventWork /\ ~PublishWorkHandler /\ ~Measures
    <2>1. UNCHANGED <<buffer, mqtt_connected, birth_pending, publish_in_flight, publish_work>>
      BY <1>7, WhoChangesService DEF EventWork, PublishAccepted
    <2> QED
      BY <2>1 DEF Served
  <1> QED
    BY <1>1, <1>2, <1>3, <1>4, <1>5, <1>6, <1>7 DEF EventWork

\* The service publishes only what the controller believes to be connected, and
\* neither an NBIRTH nor a full buffer waits for nothing (measurement_service.c:113-121).
THEOREM ServiceServed == Spec /\ NamesAreFresh => []ServiceIsServed
  <1>1. Init => Served
    BY DEF Init, ServiceInit, Served
  <1>2. Inv /\ Served /\ [Next]_vars => Served'
    BY ServedStep
  <1>3. Inv /\ Served => ServiceIsServed
    BY DEF Inv, Controller, Served, ServiceIsServed
  <1> QED
    BY Safety, <1>1, <1>2, <1>3, PTL DEF Spec

-----------------------------------------------------------------------------
(* The outbox.                                                             *)

\* What arrives at the broker is known to the outbox: the oldest readings, or
\* readings that the broker has.
LEMMA OutboxReceives ==
    ASSUME Inv, BrokerReceive, UNCHANGED buffer
    PROVE  Outbox!Next \/ UNCHANGED Outbox!outboxVars
  <1> DEFINE d == Head(up).data
  <1>1. stored' = stored \cup d
    BY DEF BrokerReceive
  <1>2. Known(d)
    <2>1. 1 \in OnWay /\ Head(up) = up[1]
      BY DEF BrokerReceive, Inv, TypeOK, MqttTypeOK, OnWay
    <2> QED
      BY <2>1 DEF Inv, Data
  <1> HIDE DEF d
  <1>3. CASE d \subseteq stored
    <2>1. stored' = stored
      BY <1>1, <1>3
    <2> QED
      BY <2>1 DEF Outbox!outboxVars
  <1>4. ASSUME NEW n \in 0 .. Len(buffer), d = Oldest(n), ~(d \subseteq stored)
        PROVE  Outbox!Next
    <2>1. n \in 1 .. Len(buffer)
      <3>1. n # 0
        BY <1>4 DEF Oldest
      <3> QED
        BY <3>1, TypeParts DEF Inv, AppTypeOK
    <2>2. Outbox!Deliver(n)
      BY <1>1, <1>4, Zenon DEF Outbox!Deliver, Outbox!Oldest, Oldest
    <2> QED
      BY <2>1, <2>2, Zenon DEF Outbox!Next
  <1> QED
    BY <1>2, <1>3, <1>4 DEF Known

\* What a positive result removes, the broker has.
LEMMA OutboxReleases ==
    ASSUME Inv, HandlePublishResult
    PROVE  Outbox!Next \/ UNCHANGED Outbox!outboxVars
  <1>0. UNCHANGED stored
    BY DEF HandlePublishResult, brokerVars
  <1>1. CASE UNCHANGED buffer
    BY <1>0, <1>1 DEF Outbox!outboxVars
  <1>2. CASE ~UNCHANGED buffer
    <2>0. TypeOK /\ InFlight /\ ResultMeansStored
      BY ResultStored DEF Inv
    <2>1. ~UNCHANGED serviceVars
      BY <1>2 DEF serviceVars
    <2>2. /\ publish_in_flight /\ ~birth_in_flight /\ Head(app_events).ok
          /\ Head(app_events) = Result(pending_publish_token, Head(app_events).ok)
          /\ Commit(pending_measurement_count)
      BY <1>2, <2>0, <2>1, ResultCases
    <2>3. Head(app_events) = Result(pending_publish_token, TRUE)
      <3>1. Head(app_events).ok \in BOOLEAN
        BY <2>0, TypeParts, RestType DEF HandlePublishResult, Handles, Events
      <3> QED
        BY <2>2, <3>1
    <2>4. Queued(Result(pending_publish_token, TRUE))
      BY <2>0, <2>3, RestFacts DEF Queued, HandlePublishResult, Handles, TypeOK, MqttTypeOK
    <2>5. /\ pending_measurement_count \in 1 .. Len(buffer)
          /\ Oldest(pending_measurement_count) \subseteq stored
      BY <2>0, <2>2, <2>4 DEF ResultMeansStored
    <2>6. Outbox!Release(pending_measurement_count)
      BY <1>0, <2>2, <2>5, Zenon DEF Commit, Outbox!Release, Outbox!Oldest, Oldest
    <2> QED
      BY <2>5, <2>6, Zenon DEF Outbox!Next
  <1> QED
    BY <1>1, <1>2

\* A measurement is accepted, a result releases, an arrival delivers; every other
\* step leaves buffer and broker alone.
LEMMA OutboxStep ==
    ASSUME Inv, [Next]_vars
    PROVE  Outbox!Next \/ UNCHANGED Outbox!outboxVars
  <1>1. CASE Measures
    <2>1. PICK r \in Readings : MeasurementWork(r)
      BY <1>1 DEF Measures
    <2>2. r \notin Held
      BY <2>1, InUseFacts DEF MeasurementWork, Inv
    <2>3. Outbox!Accept(r)
      BY <2>1, <2>2, Zenon DEF MeasurementWork, HasCapacity, Outbox!Accept, Outbox!Held, Held,
         Oldest
    <2> QED
      BY <2>3, Zenon DEF Outbox!Next
  <1>2. CASE HandlePublishResult
    BY <1>2, OutboxReleases
  <1>3. CASE ~Measures /\ ~HandlePublishResult
    <2>1. UNCHANGED buffer
      BY <1>3, WhoChangesService
    <2>2. CASE BrokerReceive
      BY <2>1, <2>2, OutboxReceives
    <2>3. CASE ~BrokerReceive
      BY <1>3, <2>1, <2>3, WhoChangesBroker DEF Outbox!outboxVars
    <2> QED
      BY <2>2, <2>3
  <1> QED
    BY <1>1, <1>2, <1>3

\* Every step of the firmware is one of the outbox, or none: readings leave the
\* device oldest first, and only after the broker has them.
THEOREM ImplementsTheOutbox == Spec /\ NamesAreFresh => ImplementsOutbox
  <1>1. Init => Outbox!Init
    BY DEF Init, MqttInit, ServiceInit, Outbox!Init
  <1>2. Inv /\ [Next]_vars => [Outbox!Next]_Outbox!outboxVars
    BY OutboxStep
  <1> QED
    BY Safety, <1>1, <1>2, PTL DEF Spec, ImplementsOutbox, Outbox!Spec

-----------------------------------------------------------------------------
(* While no event is lost: the controller and the service always have a    *)
(* next event.                                                             *)

\* post_event finds room.
HasRoom == Len(app_events) < QueueLength

\* The events that end an attempt or a connection for the controller.
Endings == {Event(type) : type \in EventTypes \ {"MQTT_CONNECTED", "LTE_CONNECTED"}}
Ending == \E e \in Endings : Queued(e)
Doomed == helper = "closing" \/ Ending

\* Neither an attempt nor a connection, nor a publish.
Over == reconnect.phase \notin {"CONNECTING", "CONNECTED"} /\ ~publish_in_flight

\* An attempt that will be reported.
Trying ==
    \/ Waits("connect")
    \/ "connect" \in current /\ (worker = "connecting" \/ helper = "connecting")

\* Behind a piece of news that is not true any more there is an event that says so.
Behind(q, i) == \E j \in 1 .. Len(q) : i < j /\ q[j] \in Endings
Covered(q, ok) == \A i \in 1 .. Len(q) : q[i] = News => ok \/ Behind(q, i)

\* While LTE is up, an attempt or a connection is there, or the end of it is on
\* its way to the controller.
Attempt ==
    /\ lte_available <=> reconnect.lte_available
    /\ reconnect.phase = "CONNECTING" => Doomed \/ Trying \/ Queued(News)
    /\ reconnect.phase = "CONNECTED" => Doomed \/ helper_connected
    /\ callback = News => helper_connected
    /\ Covered(app_events, helper_connected \/ callback \in Endings)

\* The publish is in the hands of the worker, or waits for a PUBACK with the timer on.
Busy ==
    \/ Accepted
    \/ Sending /\ JobIsActive
    \/ Waiting /\ (puback_armed \/ Waits("timeout"))
ResultComes == \E ok \in BOOLEAN : Queued(Result(pending_publish_token, ok))

\* The publish in flight is in the hands of the MQTT client, or word of it is on its way.
Answered ==
    /\ "job" \in current => "active" \in current
    /\ publish_in_flight => pending_publish_token = publish.token
    /\ publish_in_flight => Doomed \/ ResultComes \/ Busy

\* The events that end something, by name.
LEMMA EndingNames ==
    /\ Event("MQTT_ERROR") \in Endings /\ Event("MQTT_DISCONNECTED") \in Endings
    /\ \A e \in Endings :
          /\ e.type \in {"LTE_SEARCHING", "LTE_DISCONNECTED", "MQTT_DISCONNECTED", "MQTT_ERROR"}
          /\ e # NoEvent /\ e # News
  <1>1. \A type \in EventTypes \ {"MQTT_CONNECTED", "LTE_CONNECTED"} : Event(type) \in Endings
    BY DEF Endings
  <1>2. \A e \in Endings : e.type \in EventTypes \ {"MQTT_CONNECTED", "LTE_CONNECTED"}
    BY DEF Endings, Event
  <1>3. NoEvent.type = "NONE" /\ News.type = "MQTT_CONNECTED"
    BY DEF NoEvent, News, Event
  <1> QED
    BY <1>1, <1>2, <1>3 DEF EventTypes

\* post_event keeps what is in the queue in its place, and puts the event last.
LEMMA EnqueueKeeps ==
    ASSUME NEW q \in Seq(Events), NEW e
    PROVE  /\ \A i \in 1 .. Len(q) : i \in 1 .. Len(Enqueue(q, e)) /\ Enqueue(q, e)[i] = q[i]
           /\ \A x : Contains(q, x) => Contains(Enqueue(q, e), x)
           /\ Len(q) < QueueLength =>
                 /\ Len(Enqueue(q, e)) = Len(q) + 1 /\ Enqueue(q, e)[Len(q) + 1] = e
                 /\ Contains(Enqueue(q, e), e)
  <1> DEFINE new == Enqueue(q, e)
  <1>1. \A i \in 1 .. Len(q) : i \in 1 .. Len(new) /\ new[i] = q[i]
    BY DEF Enqueue
  <1>2. Len(q) < QueueLength => Len(new) = Len(q) + 1 /\ new[Len(q) + 1] = e
    BY DEF Enqueue
  <1>3. Len(q) \in Nat
    OBVIOUS
  <1> HIDE DEF new
  <1>4. \A x : Contains(q, x) => Contains(new, x)
    BY <1>1 DEF Contains
  <1>5. Len(q) < QueueLength => Contains(new, e)
    BY <1>2, <1>3 DEF Contains
  <1> QED
    BY <1>1, <1>2, <1>4, <1>5 DEF new

\* An event in the hands of a callback stays there until it is posted.
LEMMA CallbackStays ==
    ASSUME [Next]_vars, callback # NoEvent
    PROVE  UNCHANGED callback \/ CallbackPosts
  <1> USE DEF helperVars
  <1>1. CASE EventWork \/ ReconnectWork \/ ServiceWork \/ Modem \/ UNCHANGED vars
    BY <1>1, Zenon DEF EventWork, HandleLteLost, HandleLteConnected, HandleMqttConnected,
       HandleMqttDisconnected, HandleMqttError, HandlePublishResult, ReconnectWork,
       ServiceWork, PublishWorkHandler, MeasurementWork, Modem, LteEvent, vars, mqttVars
  <1>2. CASE Mqtt /\ (Worker \/ PubackTimeout \/ Broker)
    BY <1>2, Zenon DEF Worker, ConnectWork, ConnectReturns, ConnectFails, DisconnectWork,
       PublishWork, TimeoutWork, Write, PublishSent, PublishFails, PubackTimeout, Broker,
       BrokerReceive, ConnectionLost, TrafficLost
  <1>3. CASE Mqtt /\ HelperThread
    BY <1>3 DEF HelperThread, OnConnack, OnConnackRefused, OnDisconnect, OnPuback, OnError
  <1> QED
    BY <1>1, <1>2, <1>3 DEF Next, Mqtt, MqttStep

\* While the queue has room, an event on its way stays there until it is handled.
LEMMA EventsStay ==
    ASSUME TypeOK, HasRoom, [Next]_vars, NEW e, e # NoEvent, Queued(e)
    PROVE  \/ Later(e)
           \/ EventWork /\ app_events # <<>> /\ Head(app_events) = e
  <1>0. app_events \in Seq(Events) /\ Len(app_events) < QueueLength
    BY DEF TypeOK, MqttTypeOK, HasRoom
  <1>1. CASE callback = e
    <2>1. CASE UNCHANGED callback
      BY <1>1, <2>1 DEF Later
    <2>2. CASE CallbackPosts
      <3>1. app_events' = Enqueue(app_events, e)
        BY <1>1, <2>2 DEF CallbackPosts, Post
      <3> QED
        BY <1>0, <3>1, EnqueueKeeps DEF Later
    <2> QED
      BY <1>1, <2>1, <2>2, CallbackStays
  <1>2. CASE Contains(app_events, e)
    <2>1. ASSUME NEW x, app_events' = Enqueue(app_events, x)
          PROVE  Later(e)
      BY <1>0, <1>2, <2>1, EnqueueKeeps DEF Later
    <2>2. CASE EventWork /\ app_events # <<>>
      <3>1. Head(app_events) = e \/ Contains(Rest, e)
        <4>1. PICK i \in 1 .. Len(app_events) : app_events[i] = e
          BY <1>2 DEF Contains
        <4>2. CASE i = 1
          BY <1>0, <4>1, <4>2, <2>2
        <4>3. CASE i # 1
          <5>1. i - 1 \in 1 .. Len(Rest) /\ Rest[i - 1] = e
            BY <1>0, <4>1, <4>3, <2>2 DEF Rest
          <5> QED
            BY <5>1 DEF Contains
        <4> QED
          BY <4>2, <4>3
      <3>2. Rest \in Seq(Events)
        BY <1>0, <2>2, RestFacts
      <3>3. \A x : Contains(Rest, e) => Contains(Enqueue(Rest, x), e)
        BY <3>2, EnqueueKeeps
      <3>4. \/ app_events' = Rest \/ \E x : app_events' = Enqueue(Rest, x)
            \/ app_events' = app_events \/ \E x : app_events' = Enqueue(app_events, x)
        BY EventsChange
      <3> QED
        BY <1>2, <2>1, <2>2, <3>1, <3>3, <3>4 DEF Later
    <2>3. CASE app_events' = app_events
      BY <1>2, <2>3 DEF Later
    <2> QED
      BY <2>1, <2>2, <2>3, EventsChange
  <1> QED
    BY <1>1, <1>2 DEF Queued


\* The end of an attempt or a connection is not forgotten before the controller has
\* given up the attempt or the connection.
LEMMA DoomStays ==
    ASSUME TypeOK, Controller, HasRoom, [Next]_vars, Doomed
    PROVE  Doomed' \/ Over'
  <1>0. reconnect \in ReconnectState /\ Flags
    BY TypeParts DEF AppTypeOK
  <1>1. CASE helper = "closing"
    <2>1. UNCHANGED helper \/ OnDisconnect
      BY <1>1, WhoChangesWorker DEF ConnectReturns, DisconnectWork, OnConnack,
         OnConnackRefused, ConnectionLost
    <2>2. CASE OnDisconnect
      BY <2>2, EndingNames DEF OnDisconnect, Doomed, Ending, Queued
    <2> QED
      BY <1>1, <2>1, <2>2 DEF Doomed
  <1>2. CASE Ending
    <2>1. PICK e \in Endings : Queued(e)
      BY <1>2 DEF Ending
    <2>2. CASE Later(e)
      BY <2>2 DEF Later, Doomed, Ending, Queued
    <2>3. CASE EventWork /\ app_events # <<>> /\ Head(app_events) = e
      <3>1. HandleLteLost \/ HandleMqttDisconnected \/ HandleMqttError
        BY <2>3, EndingNames DEF EventWork, Handles, HandleLteConnected,
           HandleMqttConnected, HandlePublishResult
      <3>2. ~publish_in_flight'
        BY <3>1 DEF HandleLteLost, HandleMqttDisconnected, HandleMqttError,
           ServiceDisconnected
      <3>3. CASE HandleLteLost
        BY <1>0, <3>2, <3>3, Answers DEF HandleLteLost, Apply, Over
      <3>4. CASE HandleMqttDisconnected \/ HandleMqttError
        <4>1. reconnect' = HandleFailure(reconnect).state
          BY <3>4 DEF HandleMqttDisconnected, HandleMqttError, Apply
        <4> QED
          BY <1>0, <3>2, <4>1, Answers DEF Over, Answer, Controller, ReconnectState, Phases
      <3> QED
        BY <3>1, <3>3, <3>4
    <2> QED
      BY <2>1, <2>2, <2>3, EndingNames, EventsStay
  <1> QED
    BY <1>1, <1>2 DEF Doomed

\* The calls that make every copy of the generation obsolete.
LEMMA WhoEndsGeneration ==
    ASSUME [Next]_vars
    PROVE  \/ current \subseteq current'
           \/ HandleLteLost \/ HandleMqttError
           \/ HandleMqttConnected /\ MqttConnectedIsStale
           \/ OnConnack /\ StaleConnack
           \/ OnDisconnect
  <1> USE DEF publishState, workerVars, helperVars
  <1>1. CASE EventWork
    BY <1>1 DEF EventWork, HandleLteConnected, HandleMqttConnected,
       HandleMqttDisconnected, HandlePublishResult
  <1>2. CASE PublishWorkHandler
    BY <1>2, PublishCases DEF PublishAccepted, Published, PublishUnchanged, MqttPublish
  <1>3. CASE ReconnectWork \/ Modem \/ Measures \/ UNCHANGED vars
    BY <1>3 DEF ReconnectWork, Modem, LteEvent, Measures, MeasurementWork, vars, mqttVars
  <1>4. CASE Mqtt /\ (Worker \/ PubackTimeout)
    BY <1>4 DEF Mqtt, Worker, ConnectWork, ConnectReturns, ConnectFails, DisconnectWork,
       PublishWork, TimeoutWork, Write, PublishSent, PublishFails, PubackTimeout
  <1>5. CASE Mqtt /\ (HelperThread \/ Broker)
    BY <1>5 DEF Mqtt, HelperThread, OnConnack, OnConnackRefused, OnDisconnect, OnPuback,
       OnError, CallbackPosts, Broker, BrokerReceive, ConnectionLost, TrafficLost
  <1> QED
    BY <1>1, <1>2, <1>3, <1>4, <1>5 DEF Next, Mqtt, MqttStep, ServiceWork, Measures

\* A new generation comes with the end of an attempt or a connection, or with a
\* connection that nobody wants any more.
LEMMA GenerationStays ==
    ASSUME TypeOK, Controller, [Next]_vars
    PROVE  current \subseteq current' \/ Doomed' \/ Over' \/ (OnConnack /\ StaleConnack)
  <1>0. reconnect \in ReconnectState /\ Flags
    BY TypeParts DEF AppTypeOK
  <1>1. CASE HandleLteLost
    BY <1>0, <1>1, Answers DEF HandleLteLost, ServiceDisconnected, Apply, Over
  <1>2. CASE HandleMqttError
    <2>1. reconnect' = HandleFailure(reconnect).state /\ ~publish_in_flight'
      BY <1>2 DEF HandleMqttError, ServiceDisconnected, Apply
    <2> QED
      BY <1>0, <2>1, Answers DEF Over, Answer, Controller, ReconnectState, Phases
  <1>3. CASE HandleMqttConnected /\ MqttConnectedIsStale
    <2>1. reconnect' = reconnect /\ publish_in_flight' = publish_in_flight
          /\ ~reconnect.lte_available
      BY <1>3 DEF HandleMqttConnected, MqttConnectedIsStale, serviceVars, sessionFlags
    <2> QED
      BY <1>0, <2>1 DEF Over, Controller
  <1>4. CASE OnDisconnect
    BY <1>4, EndingNames DEF OnDisconnect, Doomed, Ending, Queued
  <1> QED
    BY <1>1, <1>2, <1>3, <1>4, WhoEndsGeneration

\* A work that waits is taken by the worker, or stays.
LEMMA WhoTakes ==
    ASSUME IsQueue(mqtt_workqueue), [Next]_vars
    PROVE  /\ Waits("connect") => Waits("connect")' \/ ConnectWork
           /\ Waits("publish") => Waits("publish")' \/ PublishWork
  <1>1. CASE mqtt_workqueue' \in {mqtt_workqueue, NoTimeout, Submit(NoTimeout, "disconnect"),
                                  Submit(mqtt_workqueue, "timeout"),
                                  Submit(mqtt_workqueue, "publish"),
                                  Submit(mqtt_workqueue, "connect")}
    <2>1. \A v : Waits(v) /\ v # "timeout" => Contains(mqtt_workqueue', v)
      BY <1>1, QueueFacts, WorkNames DEF Waits
    <2> QED
      BY <2>1 DEF Waits
  <1>2. CASE ConnectWork \/ PublishWork \/ DisconnectWork \/ TimeoutWork
    <2>1. /\ mqtt_workqueue # <<>> /\ mqtt_workqueue' = Tail(mqtt_workqueue)
          /\ Head(mqtt_workqueue) = "connect" => ConnectWork
          /\ Head(mqtt_workqueue) = "publish" => PublishWork
      BY <1>2 DEF ConnectWork, PublishWork, DisconnectWork, TimeoutWork, Take1
    <2>2. \A v : Waits(v) /\ v # Head(mqtt_workqueue) => Contains(mqtt_workqueue', v)
      BY <2>1, QueueFacts
    <2> QED
      BY <2>1, <2>2 DEF Waits
  <1>3. CASE ~(ConnectWork \/ PublishWork \/ DisconnectWork \/ TimeoutWork)
    <2> USE DEF workerVars, ForgetPublish, MqttDisconnect
    <2>1. CASE EventWork \/ ReconnectWork
      BY <1>1, <2>1, Zenon DEF EventWork, HandleLteLost, MqttLteLost, HandleLteConnected,
         HandleMqttConnected, HandleMqttDisconnected, HandleMqttError, HandlePublishResult,
         ReconnectWork, ApplyConnect, MqttConnect
    <2>2. CASE PublishWorkHandler
      BY <1>1, <2>2, PublishCases, Zenon DEF PublishUnchanged, PublishAccepted, Published,
         MqttPublish
    <2>3. CASE Modem \/ Measures \/ UNCHANGED vars
      BY <1>1, <2>3, Zenon DEF Measures, MeasurementWork, Modem, LteEvent, vars, mqttVars
    <2>4. CASE Mqtt /\ (Worker \/ PubackTimeout)
      BY <1>1, <1>3, <2>4, Zenon DEF Worker, ConnectReturns, ConnectFails, Write,
         PublishSent, PublishFails, PubackTimeout
    <2>5. CASE Mqtt /\ (HelperThread \/ Broker)
      BY <1>1, <2>5, Zenon DEF HelperThread, OnConnack, OnConnackRefused, OnDisconnect,
         OnPuback, OnError, CallbackPosts, Broker, BrokerReceive, ConnectionLost,
         TrafficLost
    <2> QED
      BY <2>1, <2>2, <2>3, <2>4, <2>5 DEF Next, Mqtt, MqttStep, ServiceWork, Measures
  <1> QED
    BY <1>2, <1>3

\* What the worker does ends in one of these ways.
LEMMA WhoEndsWork ==
    ASSUME TypeOK, [Next]_vars
    PROVE  /\ worker = "connecting" => UNCHANGED worker \/ ConnectReturns \/ ConnectFails
           /\ Sending => (Sending' /\ UNCHANGED job) \/ PublishSent \/ PublishFails
  <1> USE DEF workerVars
  <1>1. CASE Mqtt /\ Worker
    BY <1>1 DEF Worker, ConnectWork, ConnectReturns, DisconnectWork, PublishWork,
       TimeoutWork, Take1, Write, PublishSent, PublishFails, ConnectFails, Sending
  <1>2. CASE ~(Mqtt /\ Worker)
    <2>1. UNCHANGED <<worker, job>>
      <3>1. CASE EventWork \/ ReconnectWork
        BY <3>1, Zenon DEF EventWork, HandleLteLost, HandleLteConnected,
           HandleMqttConnected, HandleMqttDisconnected, HandleMqttError,
           HandlePublishResult, ReconnectWork
      <3>2. CASE PublishWorkHandler \/ Modem \/ Measures \/ UNCHANGED vars
        BY <3>2, Zenon DEF PublishWorkHandler, Measures, MeasurementWork, Modem, LteEvent,
           vars, mqttVars
      <3>3. CASE Mqtt /\ (PubackTimeout \/ HelperThread \/ Broker)
        BY <3>3, Zenon DEF PubackTimeout, HelperThread, OnConnack, OnConnackRefused,
           OnDisconnect, OnPuback, OnError, CallbackPosts, Broker, BrokerReceive,
           ConnectionLost, TrafficLost
      <3> QED
        BY <1>2, <3>1, <3>2, <3>3 DEF Next, Mqtt, MqttStep, ServiceWork, Measures
    <2> QED
      BY <2>1 DEF Sending
  <1> QED
    BY <1>1, <1>2

\* A phase of the controller begins with one of these steps.
LEMMA PhaseBegins ==
    ASSUME TypeOK, Controller, [Next]_vars
    PROVE  /\ reconnect'.phase = "CONNECTING" =>
                \/ UNCHANGED reconnect
                \/ HandleLteConnected /\ ~reconnect.lte_available
                \/ ReconnectWork /\ reconnect.phase = "WAITING" /\ reconnect.lte_available
           /\ reconnect'.phase = "CONNECTED" =>
                \/ reconnect.phase = "CONNECTED" /\ reconnect.lte_available
                \/ HandleMqttConnected /\ ~MqttConnectedIsStale
  <1>0. reconnect \in ReconnectState /\ (reconnect.lte_available <=> reconnect.phase # "OFFLINE")
    BY TypeParts DEF AppTypeOK, Controller
  <1>1. CASE HandleLteLost
    BY <1>0, <1>1, Answers DEF HandleLteLost, Apply
  <1>2. CASE HandleLteConnected
    <2>1. reconnect' = HandleLteUp(reconnect).state
      BY <1>2 DEF HandleLteConnected, ApplyConnect
    <2> QED
      BY <1>0, <1>2, <2>1, Answers
  <1>3. CASE HandleMqttConnected
    <2>1. CASE MqttConnectedIsStale
      BY <1>0, <1>3, <2>1 DEF HandleMqttConnected
    <2>2. CASE ~MqttConnectedIsStale
      <3>1. reconnect' = HandleMqttUp(reconnect).state /\ reconnect.lte_available
        BY <1>3, <2>2 DEF HandleMqttConnected, MqttConnectedIsStale, Apply
      <3> QED
        BY <1>0, <1>3, <2>2, <3>1, Answers
    <2> QED
      BY <2>1, <2>2
  <1>4. CASE HandleMqttDisconnected \/ HandleMqttError
    <2>1. reconnect' = HandleFailure(reconnect).state
      BY <1>4 DEF HandleMqttDisconnected, HandleMqttError, Apply
    <2> QED
      BY <1>0, <2>1, Answers DEF Answer
  <1>5. CASE ReconnectWork
    <2>1. reconnect' = HandleTimer(reconnect).state
      BY <1>5 DEF ReconnectWork, ApplyConnect
    <2> QED
      BY <1>0, <1>5, <2>1, Answers
  <1>6. CASE HandlePublishResult \/ (~EventWork /\ ~ReconnectWork)
    <2>1. UNCHANGED reconnect
      BY <1>6, WhoChangesService DEF HandlePublishResult
    <2> QED
      BY <1>0, <2>1
  <1> QED
    BY <1>1, <1>2, <1>3, <1>4, <1>5, <1>6 DEF EventWork

\* The two copies of whether LTE is available.
LEMMA LteStep ==
    ASSUME TypeOK, [Next]_vars, lte_available <=> reconnect.lte_available
    PROVE  (lte_available <=> reconnect.lte_available)'
  <1>0. reconnect \in ReconnectState
    BY TypeParts DEF AppTypeOK
  <1> USE DEF connectionFlags
  <1>1. CASE HandleLteLost
    BY <1>0, <1>1, Answers DEF HandleLteLost, MqttLteLost, Apply
  <1>2. CASE HandleLteConnected
    <2>1. reconnect' = HandleLteUp(reconnect).state /\ lte_available' = TRUE
      BY <1>2 DEF HandleLteConnected, ApplyConnect
    <2> QED
      BY <1>0, <2>1, Answers
  <1>3. CASE HandleMqttConnected
    <2>1. CASE MqttConnectedIsStale
      BY <1>0, <1>3, <2>1 DEF HandleMqttConnected
    <2>2. CASE ~MqttConnectedIsStale
      <3>1. reconnect' = HandleMqttUp(reconnect).state /\ reconnect.lte_available
            /\ UNCHANGED lte_available
        BY <1>3, <2>2 DEF HandleMqttConnected, MqttConnectedIsStale, Apply
      <3> QED
        BY <1>0, <3>1, Answers
    <2> QED
      BY <2>1, <2>2
  <1>4. CASE HandleMqttDisconnected \/ HandleMqttError
    <2>1. reconnect' = HandleFailure(reconnect).state /\ UNCHANGED lte_available
      BY <1>4 DEF HandleMqttDisconnected, HandleMqttError, Apply
    <2> QED
      BY <1>0, <2>1, Answers DEF Answer
  <1>5. CASE ReconnectWork
    <2>1. reconnect' = HandleTimer(reconnect).state /\ UNCHANGED lte_available
      BY <1>5 DEF ReconnectWork, ApplyConnect
    <2> QED
      BY <1>0, <2>1, Answers
  <1>6. CASE HandlePublishResult \/ (~EventWork /\ ~ReconnectWork)
    <2>1. UNCHANGED reconnect
      BY <1>6, WhoChangesService DEF HandlePublishResult
    <2>2. UNCHANGED lte_available
      <3>1. CASE HandlePublishResult \/ PublishWorkHandler \/ Modem \/ Measures \/ UNCHANGED vars
        BY <3>1, Zenon DEF HandlePublishResult, PublishWorkHandler, Measures,
           MeasurementWork, Modem, LteEvent, vars, mqttVars
      <3>2. CASE Mqtt /\ (Worker \/ PubackTimeout)
        BY <3>2, Zenon DEF Worker, ConnectWork, ConnectReturns, ConnectFails,
           DisconnectWork, PublishWork, TimeoutWork, Write, PublishSent, PublishFails,
           PubackTimeout
      <3>3. CASE Mqtt /\ (HelperThread \/ Broker)
        BY <3>3, Zenon DEF HelperThread, OnConnack, OnConnackRefused, OnDisconnect,
           OnPuback, OnError, CallbackPosts, Broker, BrokerReceive, ConnectionLost,
           TrafficLost
      <3> QED
        BY <1>6, <3>1, <3>2, <3>3 DEF Next, Mqtt, MqttStep, ServiceWork, Measures
    <2> QED
      BY <2>1, <2>2
  <1> QED
    BY <1>1, <1>2, <1>3, <1>4, <1>5, <1>6 DEF EventWork

\* A CONNECTING controller will hear of its attempt.
LEMMA ConnectingStep ==
    ASSUME TypeOK, Connection, Controller, Attempt, HasRoom, [Next]_vars,
           reconnect'.phase = "CONNECTING", ~Doomed'
    PROVE  Trying' \/ Queued(News)'
  <1>0. reconnect \in ReconnectState /\ Flags /\ app_events \in Seq(Events)
        /\ Len(app_events) < QueueLength /\ IsQueue(mqtt_workqueue)
    BY TypeParts DEF AppTypeOK, HasRoom, TypeOK, MqttTypeOK
  <1>1. ~Doomed
    BY DoomStays DEF Over
  <1>2. \A e : e # NoEvent /\ (Later(e) \/ callback' = e) => Queued(e)'
    BY DEF Later, Queued
  <1>3. CASE \/ HandleLteConnected /\ ~reconnect.lte_available
             \/ ReconnectWork /\ reconnect.phase = "WAITING" /\ reconnect.lte_available
    <2>1. \E q : /\ q \in Seq(Events) /\ Len(q) < QueueLength
                 /\ IF ConnectAlready THEN app_events' = Enqueue(q, Event("MQTT_ERROR"))
                    ELSE mqtt_workqueue' = Submit(mqtt_workqueue, "connect")
      <3>1. CASE HandleLteConnected /\ ~reconnect.lte_available
        <4>1. HandleLteUp(reconnect).action = "CONNECT"
          BY <3>1 DEF HandleLteUp, Answer
        <4>2. Rest \in Seq(Events) /\ Len(Rest) < QueueLength
          <5>1. app_events # <<>>
            BY <3>1 DEF HandleLteConnected, Handles
          <5>2. Rest \in Seq(Events) /\ Len(Rest) = Len(app_events) - 1
            BY <1>0, <5>1 DEF Rest
          <5>3. Len(app_events) \in Nat
            BY <1>0
          <5> QED
            BY <1>0, <5>2, <5>3, OrigMqttConstants
        <4>3. IF ConnectAlready THEN app_events' = Enqueue(Rest, Event("MQTT_ERROR"))
              ELSE mqtt_workqueue' = Submit(mqtt_workqueue, "connect")
          BY <3>1, <4>1 DEF HandleLteConnected, ApplyConnect, MqttConnect
        <4> QED
          BY <4>2, <4>3
      <3>2. CASE ReconnectWork /\ reconnect.phase = "WAITING" /\ reconnect.lte_available
        <4>1. HandleTimer(reconnect).action = "CONNECT"
          BY <3>2 DEF HandleTimer, Answer
        <4>2. IF ConnectAlready THEN app_events' = Enqueue(app_events, Event("MQTT_ERROR"))
              ELSE mqtt_workqueue' = Submit(mqtt_workqueue, "connect")
          BY <3>2, <4>1 DEF ReconnectWork, ApplyConnect, MqttConnect
        <4> QED
          BY <1>0, <4>2
      <3> QED
        BY <1>3, <3>1, <3>2
    <2>2. ~ConnectAlready
      <3>1. ConnectAlready => Contains(app_events', Event("MQTT_ERROR"))
        BY <2>1, EnqueueKeeps
      <3> QED
        BY <3>1, EndingNames DEF Doomed, Ending, Queued
    <2> QED
      BY <1>0, <2>1, <2>2, QueueFacts, WorkNames DEF Trying, Waits
  <1>4. CASE UNCHANGED reconnect
    <2>0. reconnect.phase = "CONNECTING" /\ lte_available
      BY <1>4 DEF Attempt, Controller
    <2>1. CASE Queued(News)
      <3>1. News # NoEvent
        BY ResultNames
      <3>2. ~(EventWork /\ app_events # <<>> /\ Head(app_events) = News)
        <4> SUFFICES ASSUME EventWork, Head(app_events) = News PROVE FALSE
          OBVIOUS
        <4>1. HandleMqttConnected
          BY DEF EventWork, Handles, News, Event, HandleLteLost, HandleLteConnected,
             HandleMqttDisconnected, HandleMqttError, HandlePublishResult
        <4>2. reconnect' = HandleMqttUp(reconnect).state
          BY <4>1, <2>0 DEF HandleMqttConnected, MqttConnectedIsStale, Apply, Attempt
        <4> QED
          BY <1>0, <2>0, <4>2, Answers DEF Attempt
      <3> QED
        BY <2>1, <3>1, <3>2, <1>2, EventsStay
    <2>2. CASE Waits("connect")
      <3>1. Waits("connect")' \/ ConnectWork
        BY <1>0, <2>2, WhoTakes
      <3>2. CASE ConnectWork
        BY <2>0, <3>2 DEF ConnectWork, Trying
      <3> QED
        BY <3>1, <3>2 DEF Trying
    <2>3. CASE "connect" \in current /\ (worker = "connecting" \/ helper = "connecting")
      <3>1. ~StaleConnack /\ "connect" \in current'
        <4>1. ~StaleConnack
          BY <2>0, <2>3 DEF StaleConnack
        <4> QED
          BY <1>1, <2>3, <4>1, GenerationStays DEF Over
      <3>2. CASE worker = "connecting"
        <4>1. CASE ConnectReturns
          BY <3>1, <4>1 DEF ConnectReturns, Trying
        <4>2. CASE ConnectFails
          <5>1. app_events' = Enqueue(app_events, Event("MQTT_ERROR"))
            BY <2>0, <2>3, <4>2 DEF ConnectFails, Post
          <5> QED
            BY <1>0, <5>1, EnqueueKeeps, EndingNames DEF Doomed, Ending, Queued
        <4> QED
          BY <3>1, <3>2, <4>1, <4>2, WhoEndsWork DEF Trying
      <3>3. CASE helper = "connecting"
        <4>1. UNCHANGED helper \/ OnConnack
          BY <3>3, WhoChangesWorker DEF ConnectReturns, DisconnectWork, OnConnackRefused,
             OnDisconnect, ConnectionLost, Doomed
        <4>2. OnConnack => callback' = News
          BY <3>1 DEF OnConnack, News
        <4> QED
          BY <3>1, <3>3, <4>1, <4>2 DEF Trying, Queued
      <3> QED
        BY <2>3, <3>2, <3>3
    <2> QED
      BY <1>1, <2>0, <2>1, <2>2, <2>3 DEF Attempt, Trying
  <1> QED
    BY <1>3, <1>4, PhaseBegins

\* A CONNECTED controller has its connection.
LEMMA ConnectedStep ==
    ASSUME TypeOK, Connection, Controller, Attempt, HasRoom, [Next]_vars,
           reconnect'.phase = "CONNECTED", ~Doomed'
    PROVE  helper_connected'
  <1>1. ~Doomed
    BY DoomStays DEF Over
  <1>2. ~OnDisconnect
    BY EndingNames DEF OnDisconnect, Doomed, Ending, Queued
  <1>3. helper_connected => helper_connected'
    BY <1>2, WhoChangesConnected DEF OnConnack
  <1>4. CASE HandleMqttConnected
    <2>0. app_events \in Seq(Events) /\ app_events # <<>> /\ Head(app_events) \in Events
          /\ app_events' = Rest
      BY <1>4, TypeParts, RestType DEF HandleMqttConnected, Handles, IsEvents
    <2>1. app_events[1] = News /\ 1 \in 1 .. Len(app_events)
      <3>1. Head(app_events) = News
        BY <1>4, <2>0 DEF HandleMqttConnected, Handles, Events, News, Event
      <3> QED
        BY <2>0, <3>1
    <2>2. CASE callback \in Endings
      BY <1>1, <2>2 DEF Doomed, Ending, Queued
    <2>3. CASE Behind(app_events, 1)
      BY <1>1, <2>3 DEF Behind, Doomed, Ending, Queued, Contains
    <2> QED
      BY <1>3, <2>1, <2>2, <2>3 DEF Attempt, Covered
  <1>5. CASE reconnect.phase = "CONNECTED"
    BY <1>1, <1>3, <1>5 DEF Attempt
  <1> QED
    BY <1>4, <1>5, PhaseBegins

\* Taking the first event, or posting another one, uncovers nothing.
LEMMA CoverFacts ==
    ASSUME NEW q \in Seq(Events), NEW e, NEW ok, Covered(q, ok)
    PROVE  /\ (e = News => ok) => Covered(Enqueue(q, e), ok)
           /\ e \in Endings /\ Len(q) < QueueLength => Covered(Enqueue(q, e), FALSE)
  <1> DEFINE new == Enqueue(q, e)
  <1>1. \A i \in 1 .. Len(new) :
            \/ i \in 1 .. Len(q) /\ new[i] = q[i]
            \/ i = Len(q) + 1 /\ new[i] = e
    BY DEF Enqueue
  <1>2. /\ \A i \in 1 .. Len(q) : i \in 1 .. Len(new) /\ new[i] = q[i]
        /\ Len(q) < QueueLength => Len(new) = Len(q) + 1 /\ new[Len(q) + 1] = e
    BY EnqueueKeeps
  <1>3. Len(new) \in Nat /\ Len(q) \in Nat
    BY DEF Enqueue
  <1> HIDE DEF new
  <1>4. \A i \in 1 .. Len(q) : Behind(q, i) => Behind(new, i)
    BY <1>2, <1>3 DEF Behind
  <1>5. (e = News => ok) => Covered(new, ok)
    BY <1>1, <1>4 DEF Covered
  <1>6. ASSUME e \in Endings, Len(q) < QueueLength
        PROVE  Covered(new, FALSE)
    <2>1. \A i \in 1 .. Len(q) : Behind(new, i)
      BY <1>2, <1>3, <1>6 DEF Behind
    <2> QED
      BY <1>1, <2>1, <1>6, EndingNames DEF Covered
  <1> QED
    BY <1>5, <1>6 DEF new

LEMMA CoverRest ==
    ASSUME app_events \in Seq(Events), app_events # <<>>, NEW ok, Covered(app_events, ok)
    PROVE  Covered(Rest, ok)
  <1>1. Len(Rest) = Len(app_events) - 1 /\ Len(app_events) \in Nat /\ Len(app_events) > 0
    BY DEF Rest
  <1>2. \A i \in 1 .. Len(Rest) : Rest[i] = app_events[i + 1] /\ i + 1 \in 1 .. Len(app_events)
    BY <1>1 DEF Rest
  <1>3. \A i \in 1 .. Len(Rest) : Behind(app_events, i + 1) => Behind(Rest, i)
    <2> SUFFICES ASSUME NEW i \in 1 .. Len(Rest), Behind(app_events, i + 1)
                 PROVE  Behind(Rest, i)
      OBVIOUS
    <2>1. PICK j \in 1 .. Len(app_events) : i + 1 < j /\ app_events[j] \in Endings
      BY DEF Behind
    <2>2. j - 1 \in 1 .. Len(Rest) /\ i < j - 1 /\ Rest[j - 1] = app_events[j]
      <3>1. j - 1 \in 1 .. Len(Rest) /\ i < j - 1
        BY <1>1, <2>1
      <3> QED
        BY <1>2, <2>1, <3>1
    <2> QED
      BY <2>1, <2>2 DEF Behind
  <1> QED
    BY <1>2, <1>3 DEF Covered

\* No news is posted of a connection whose end was posted before.
LEMMA CoveredStep ==
    ASSUME TypeOK, Attempt, HasRoom, [Next]_vars
    PROVE  /\ (callback = News => helper_connected)'
           /\ Covered(app_events, helper_connected \/ callback \in Endings)'
  <1> DEFINE fine == helper_connected \/ callback \in Endings
             fine2 == helper_connected' \/ callback' \in Endings
  <1>0. app_events \in Seq(Events) /\ Len(app_events) < QueueLength
        /\ callback \in Events \cup {NoEvent} /\ Covered(app_events, fine)
    BY DEF TypeOK, MqttTypeOK, HasRoom, Attempt
  <1>1. \A e \in Reports : e # News
    BY ResultNames
  <1>2. fine => fine2 \/ (CallbackPosts /\ callback \in Endings)
    <2>1. CASE helper_connected
      <3>1. OnDisconnect => callback' \in Endings
        BY EndingNames DEF OnDisconnect
      <3> QED
        BY <2>1, <3>1, WhoChangesConnected DEF OnConnack
    <2>2. CASE callback \in Endings
      <3>1. callback # NoEvent
        BY <2>2, EndingNames
      <3> QED
        BY <2>2, <3>1, CallbackStays
    <2> QED
      BY <2>1, <2>2
  <1>3. callback' = News => helper_connected'
    <2>1. CASE callback = News
      <3>1. ~OnDisconnect
        BY <2>1, ResultNames DEF OnDisconnect
      <3> QED
        BY <2>1, <3>1, WhoChangesConnected DEF Attempt, OnConnack
    <2>2. CASE OnConnack
      BY <2>2 DEF OnConnack
    <2>3. CASE callback # News /\ ~OnConnack
      <3>1. \A token, ok : News # Result(token, ok)
        BY ResultNames
      <3>2. News # NoEvent
        BY ResultNames
      <3> QED
        BY <1>1, <2>3, <3>1, <3>2, CallbackChanges
    <2> QED
      BY <2>1, <2>2, <2>3
  <1>4. Covered(app_events', fine2)
    <2>1. CASE ~CallbackPosts
      <3>1. Covered(app_events, fine2)
        <4> HIDE DEF fine, fine2
        <4> QED
          BY <1>0, <1>2, <2>1 DEF Covered
      <3> HIDE DEF fine, fine2
      <3>2. CASE app_events' = app_events
        BY <3>1, <3>2
      <3>3. ASSUME NEW e, e # News, app_events' = Enqueue(app_events, e)
            PROVE  Covered(app_events', fine2)
        BY <1>0, <3>1, <3>3, CoverFacts
      <3>4. CASE app_events # <<>> /\ app_events' = Rest
        BY <1>0, <3>1, <3>4, CoverRest
      <3>5. ASSUME NEW e \in Reports, app_events # <<>>, app_events' = Enqueue(Rest, e)
            PROVE  Covered(app_events', fine2)
        <4>1. Rest \in Seq(Events) /\ Covered(Rest, fine2)
          BY <1>0, <3>1, <3>5, CoverRest, RestFacts
        <4> QED
          BY <1>1, <3>5, <4>1, CoverFacts
      <3>6. \A token, ok : Result(token, ok) # News
        BY ResultNames
      <3> QED
        BY <1>1, <2>1, <3>2, <3>3, <3>4, <3>5, <3>6, EventsChange
    <2>2. CASE CallbackPosts
      <3>1. app_events' = Enqueue(app_events, callback) /\ UNCHANGED helper_connected
        BY <2>2 DEF CallbackPosts, Post, connectionFlags
      <3>2. CASE callback \in Endings
        <4>1. Covered(app_events', FALSE)
          BY <1>0, <3>1, <3>2, CoverFacts
        <4> HIDE DEF fine, fine2
        <4> QED
          BY <4>1 DEF Covered
      <3>3. CASE callback \notin Endings
        <4>1. Covered(app_events, helper_connected)
          BY <1>0, <3>3 DEF Covered
        <4>2. callback = News => helper_connected
          BY DEF Attempt
        <4>3. Covered(app_events', helper_connected)
          BY <1>0, <3>1, <4>1, <4>2, CoverFacts
        <4> QED
          BY <3>1, <4>3 DEF Covered
      <3> QED
        BY <3>2, <3>3
    <2> QED
      BY <2>1, <2>2
  <1> QED
    BY <1>3, <1>4 DEF Covered, Behind

\* The controller is kept up to date on its attempt and its connection.
LEMMA AttemptKept ==
    ASSUME TypeOK, Connection, Controller, Attempt, HasRoom, [Next]_vars
    PROVE  Attempt'
  <1>1. (lte_available <=> reconnect.lte_available)'
    BY LteStep DEF Attempt
  <1>2. (reconnect.phase = "CONNECTING" => Doomed \/ Trying \/ Queued(News))'
    BY ConnectingStep
  <1>3. (reconnect.phase = "CONNECTED" => Doomed \/ helper_connected)'
    BY ConnectedStep
  <1> QED
    BY <1>1, <1>2, <1>3, CoveredStep DEF Attempt

\* A new connection that nobody wants leaves no publish behind.
LEMMA PublishGeneration ==
    ASSUME TypeOK, OnePublish, Connection, Controller, [Next]_vars,
           ~Doomed', publish_in_flight', Busy
    PROVE  current \subseteq current'
  <1>1. helper # "connecting"
    BY DEF Busy, Connection, NoAttempt
  <1>2. ~OnConnack
    BY <1>1 DEF OnConnack
  <1> QED
    BY <1>2, GenerationStays DEF Over

\* The PUBACK is waited for, or its result comes.
LEMMA WhoForgets ==
    ASSUME TypeOK, OnePublish, [Next]_vars, active_publish_id # 0
    PROVE  \/ UNCHANGED active_publish_id /\ (puback_armed => puback_armed' \/ PubackTimeout)
              /\ (Waits("timeout") => Waits("timeout")' \/ TimeoutWork)
           \/ ~(current \subseteq current') \/ current = {}
           \/ PublishFails /\ JobIsActive
           \/ OnPuback /\ acks # <<>> /\ PubackExpected(Head(acks))
  <1>0. IsQueue(mqtt_workqueue) /\ Flags
    BY TypeParts
  <1> USE DEF publishState, workerVars, Waits
  <1>1. CASE ConnectWork \/ DisconnectWork \/ TimeoutWork \/ PublishWork
    <2>1. ~PublishWork
      BY <1>0, QueueFacts DEF OnePublish, PublishWork, Take1
    <2>2. UNCHANGED <<active_publish_id, puback_armed>>
      BY <1>1, <2>1 DEF ConnectWork, DisconnectWork, TimeoutWork
    <2>3. /\ mqtt_workqueue # <<>> /\ mqtt_workqueue' = Tail(mqtt_workqueue)
          /\ Head(mqtt_workqueue) = "timeout" => TimeoutWork
      BY <1>1 DEF ConnectWork, PublishWork, DisconnectWork, TimeoutWork, Take1
    <2> QED
      BY <1>0, <2>2, <2>3, QueueFacts
  <1>2. CASE mqtt_workqueue' = mqtt_workqueue /\ UNCHANGED active_publish_id
             /\ (puback_armed => puback_armed')
    BY <1>2
  <1>3. CASE MqttDisconnect \/ OnDisconnect
    <2>1. current' = {}
      BY <1>3 DEF MqttDisconnect, OnDisconnect, NewGeneration
    <2> QED
      BY <2>1
  <1>4. CASE PubackTimeout
    <2>1. Waits("timeout")' /\ UNCHANGED active_publish_id
      BY <1>0, <1>4, QueueFacts, WorkNames DEF PubackTimeout
    <2> QED
      BY <1>4, <2>1
  <1>5. CASE EventWork \/ ReconnectWork
    <2>1. \/ MqttDisconnect
          \/ UNCHANGED <<active_publish_id, puback_armed>>
             /\ mqtt_workqueue' \in {mqtt_workqueue, Submit(mqtt_workqueue, "connect")}
      BY <1>5, Zenon DEF EventWork, HandleLteLost, MqttLteLost, HandleLteConnected,
         HandleMqttConnected, HandleMqttDisconnected, HandleMqttError, HandlePublishResult,
         ReconnectWork, ApplyConnect, MqttConnect
    <2> QED
      BY <1>0, <1>3, <2>1, QueueFacts, WorkNames
  <1>6. CASE PublishWorkHandler
    <2>1. UNCHANGED <<active_publish_id, puback_armed>>
          /\ mqtt_workqueue' \in {mqtt_workqueue, Submit(mqtt_workqueue, "publish")}
      BY <1>6, PublishCases, Zenon DEF PublishWorkHandler, PublishUnchanged,
         PublishAccepted, Published, MqttPublish
    <2> QED
      BY <1>0, <2>1, QueueFacts, WorkNames
  <1>7. CASE Modem \/ Measures \/ UNCHANGED vars
    <2>1. UNCHANGED <<mqtt_workqueue, active_publish_id, puback_armed>>
      BY <1>7, Zenon DEF Measures, MeasurementWork, Modem, LteEvent, vars, mqttVars
    <2> QED
      BY <2>1
  <1>8. CASE Mqtt /\ Worker
    <2>1. CASE PublishFails
      BY <1>2, <2>1 DEF PublishFails
    <2>2. CASE PublishSent
      BY <1>2, <2>2 DEF PublishSent
    <2>3. CASE ConnectReturns \/ ConnectFails \/ Write
      BY <1>2, <2>3 DEF ConnectReturns, ConnectFails, Write
    <2> QED
      BY <1>1, <1>8, <2>1, <2>2, <2>3 DEF Worker
  <1>9. CASE Mqtt /\ (HelperThread \/ Broker)
    <2>1. CASE OnPuback
      BY <1>2, <2>1 DEF OnPuback
    <2>2. CASE OnConnack
      <3>1. CASE StaleConnack
        BY <1>3, <2>2, <3>1 DEF OnConnack
      <3> QED
        BY <1>2, <2>2, <3>1 DEF OnConnack
    <2>3. CASE OnConnackRefused \/ OnError \/ CallbackPosts \/ Broker
      BY <1>2, <2>3 DEF OnConnackRefused, OnError, CallbackPosts, Broker, BrokerReceive,
         ConnectionLost, TrafficLost
    <2> QED
      BY <1>3, <1>9, <2>1, <2>2, <2>3 DEF HelperThread
  <1> QED
    BY <1>4, <1>5, <1>6, <1>7, <1>8, <1>9 DEF Next, Mqtt, MqttStep, ServiceWork, Measures

\* What the MQTT client does with the publish in flight ends in a result.
LEMMA BusyStep ==
    ASSUME TypeOK, OnePublish, Connection, Controller, Attempt, Answered, HasRoom,
           [Next]_vars, publish_in_flight, publish_in_flight', ~Doomed', Busy
    PROVE  Busy' \/ ResultComes'
  <1>0. /\ IsQueue(mqtt_workqueue) /\ Flags /\ app_events \in Seq(Events)
        /\ Len(app_events) < QueueLength /\ message_id \in 1 .. MsgIds
    BY TypeParts DEF HasRoom, ClientTypeOK, TypeOK, MqttTypeOK
  <1>1. /\ UNCHANGED <<publish, pending_publish_token>>
        /\ pending_publish_token = publish.token /\ ~PublishAccepted
    <2>1. ~PublishAccepted
      BY DEF PublishAccepted
    <2> QED
      BY <2>1, StaysInFlight DEF Answered
  <1>2. current \subseteq current'
    BY PublishGeneration
  <1>3. helper_connected /\ lte_available
    <2>1. lte_available
      BY DEF Controller, Attempt
    <2>2. ~Doomed
      BY DoomStays DEF Over
    <2> QED
      BY <2>1, <2>2 DEF Controller, Attempt
  <1>4. CASE Accepted
    <2>1. CASE PublishWork
      <3>1. PublishWanted
        BY <1>3, <1>4 DEF PublishWanted, Accepted
      <3> QED
        BY <2>1, <3>1 DEF PublishWork, Busy, Sending, JobIsActive
    <2>2. CASE ~PublishWork
      BY <1>0, <1>2, <1>4, <2>2, WhoTakes DEF Accepted, Busy
    <2> QED
      BY <2>1, <2>2
  <1>5. CASE \/ PublishFails /\ JobIsActive
             \/ OnPuback /\ acks # <<>> /\ PubackExpected(Head(acks))
    <2>1. CASE PublishFails /\ JobIsActive
      <3>1. app_events' = Enqueue(app_events, Result(pending_publish_token, FALSE))
        BY <1>1, <2>1 DEF PublishFails, Post, OnePublish, Sending
      <3>2. Contains(app_events', Result(pending_publish_token, FALSE))
        BY <1>0, <3>1, EnqueueKeeps
      <3> QED
        BY <1>1, <3>2 DEF ResultComes, Queued
    <2>2. CASE OnPuback /\ acks # <<>> /\ PubackExpected(Head(acks))
      <3>1. active_publish_token = pending_publish_token
        BY <1>1, <2>2, PubackFacts
      <3>2. \E ok \in BOOLEAN : callback' = Result(pending_publish_token, ok)
        BY <2>2, <3>1 DEF OnPuback
      <3> QED
        BY <1>1, <3>2 DEF ResultComes, Queued
    <2> QED
      BY <1>5, <2>1, <2>2
  <1>6. CASE Sending /\ JobIsActive /\ ~(PublishFails /\ JobIsActive)
             /\ ~(OnPuback /\ acks # <<>> /\ PubackExpected(Head(acks)))
    <2>1. active_publish_id # 0 /\ active_publish_id = job.id
      BY <1>0, <1>6 DEF JobIsActive, OnePublish
    <2>2. "job" \in current /\ "active" \in current
      BY <1>6 DEF JobIsActive, Answered
    <2>3. UNCHANGED active_publish_id
      BY <1>2, <1>6, <2>1, <2>2, WhoForgets
    <2>4. CASE Sending' /\ UNCHANGED job
      BY <1>2, <2>1, <2>2, <2>3, <2>4 DEF Busy, JobIsActive
    <2>5. CASE PublishSent
      <3>1. puback_armed'
        BY <1>6, <2>5 DEF PublishSent
      <3> QED
        BY <1>2, <2>1, <2>2, <2>3, <3>1 DEF Busy, Waiting
    <2> QED
      BY <1>6, <2>4, <2>5, WhoEndsWork
  <1>7. CASE Waiting /\ (puback_armed \/ Waits("timeout")) /\ ~(PublishFails /\ JobIsActive)
             /\ ~(OnPuback /\ acks # <<>> /\ PubackExpected(Head(acks)))
    <2>1. /\ UNCHANGED active_publish_id
          /\ puback_armed => puback_armed' \/ PubackTimeout
          /\ Waits("timeout") => Waits("timeout")' \/ TimeoutWork
      BY <1>2, <1>7, WhoForgets DEF Waiting
    <2>2. Waiting'
      BY <1>2, <1>7, <2>1 DEF Waiting
    <2>3. CASE PubackTimeout
      <3>1. Waits("timeout")'
        BY <1>0, <2>3, QueueFacts, WorkNames DEF PubackTimeout, Waits
      <3> QED
        BY <2>2, <3>1 DEF Busy
    <2>4. CASE TimeoutWork
      <3>1. ~publish_pending
        BY <1>0, <1>7, <2>4 DEF TimeoutWork, Take1, OnePublish, Sending, Waiting
      <3>2. job'.id = active_publish_id /\ "job" \in current' /\ worker' = "sending"
        BY <1>3, <1>7, <2>4, <3>1 DEF TimeoutWork, Waiting
      <3> QED
        BY <2>1, <3>2 DEF Busy, Sending, JobIsActive
    <2> QED
      BY <1>7, <2>1, <2>2, <2>3, <2>4 DEF Busy
  <1> QED
    BY <1>4, <1>5, <1>6, <1>7 DEF Busy

\* No publish is forgotten.
LEMMA AnsweredStep ==
    ASSUME TypeOK, OnePublish, Connection, Controller, Attempt, Answered, HasRoom,
           [Next]_vars
    PROVE  Answered'
  <1>1. ("job" \in current => "active" \in current)'
    <2>1. CASE current' \in {current, {}}
      BY <2>1 DEF Answered
    <2>2. CASE PublishWork \/ TimeoutWork
      BY <2>2 DEF PublishWork, TimeoutWork, Answered
    <2>3. CASE current' \in {current \cup {"publish"}, current \cup {"connect"}}
      BY <2>3 DEF Answered
    <2> QED
      BY <2>1, <2>2, <2>3, WhoCopies
  <1>2. (publish_in_flight => pending_publish_token = publish.token)'
    <2>1. CASE PublishAccepted
      BY <2>1, AcceptedFacts
    <2>2. CASE ~PublishAccepted
      BY <2>2, StaysInFlight DEF Answered
    <2> QED
      BY <2>1, <2>2
  <1>3. ASSUME publish_in_flight', ~Doomed'
        PROVE  ResultComes' \/ Busy'
    <2>1. CASE PublishAccepted
      <3>1. /\ mqtt_workqueue' = Submit(mqtt_workqueue, "publish")
            /\ current' = current \cup {"publish"}
        BY <2>1 DEF PublishAccepted, Published, MqttPublish
      <3> QED
        BY <3>1, TypeParts, QueueFacts, WorkNames DEF Busy, Accepted, Waits
    <2>2. CASE ~PublishAccepted
      <3>1. publish_in_flight /\ UNCHANGED pending_publish_token
        BY <1>3, <2>2, StaysInFlight
      <3>2. ~Doomed
        BY <1>3, DoomStays DEF Over
      <3>3. CASE ResultComes
        <4>1. PICK ok \in BOOLEAN : Queued(Result(pending_publish_token, ok))
          BY <3>3 DEF ResultComes
        <4> DEFINE e == Result(pending_publish_token, ok)
        <4>2. e # NoEvent
          BY ResultNames
        <4>3. ~(EventWork /\ app_events # <<>> /\ Head(app_events) = e)
          <5> SUFFICES ASSUME EventWork, Head(app_events) = e PROVE FALSE
            OBVIOUS
          <5>1. HandlePublishResult /\ ResultExpected(Head(app_events).token)
            BY <3>1 DEF EventWork, Handles, Result, HandleLteLost, HandleLteConnected,
               HandleMqttConnected, HandleMqttDisconnected, HandleMqttError, ResultExpected
          <5> QED
            BY <1>3, <5>1 DEF HandlePublishResult, PublishResult
        <4>4. Later(e)
          <5> HIDE DEF e
          <5> QED
            BY <4>1, <4>2, <4>3, EventsStay DEF e
        <4> QED
          BY <3>1, <4>4 DEF Later, ResultComes, Queued
      <3>4. CASE Busy
        BY <1>3, <3>1, <3>4, BusyStep
      <3> QED
        BY <3>1, <3>2, <3>3, <3>4 DEF Answered
    <2> QED
      BY <2>1, <2>2
  <1> QED
    BY <1>1, <1>2, <1>3 DEF Answered

-----------------------------------------------------------------------------
(* The theorems for an event queue with room.                              *)

Base == TypeOK /\ OnePublish /\ Connection /\ Controller
Up == Base /\ Attempt /\ Answered

LEMMA InitUp == Init => Up
  <1> SUFFICES ASSUME Init PROVE Up
    OBVIOUS
  <1>1. Connection /\ Controller
    BY InitInv DEF Inv
  <1>2. Attempt
    BY ResultNames DEF Init, MqttInit, ReconnectInit, Attempt, Covered
  <1>3. Answered
    BY DEF Init, MqttInit, ServiceInit, Answered, Generations
  <1> QED
    BY <1>1, <1>2, <1>3, InitTypes DEF Up, Base

LEMMA UpStep == Up /\ HasRoom /\ [Next]_vars => Up'
  <1> SUFFICES ASSUME Up, HasRoom, [Next]_vars PROVE Up'
    OBVIOUS
  <1>1. Base'
    BY TypeStep, OnePublishStep, ConnectionStep, ControllerStep DEF Up, Base
  <1>2. Attempt' /\ Answered'
    BY AttemptKept, AnsweredStep DEF Up, Base
  <1> QED
    BY <1>1, <1>2 DEF Up

LEMMA StaysUp == Spec /\ []HasRoom => []Up
  BY InitUp, UpStep, PTL DEF Spec

\* What Doomed names is on its way down.
LEMMA DoomedGoesDown == Doomed => GoingDown
  <1>1. \A type \in EventTypes \ {"MQTT_CONNECTED", "LTE_CONNECTED"} : Event(type) \in Endings
    BY DEF Endings
  <1>2. \A e \in Endings : \E type \in EventTypes \ {"MQTT_CONNECTED", "LTE_CONNECTED"} : e = Event(type)
    BY DEF Endings
  <1> QED
    BY <1>2 DEF Doomed, Ending, GoingDown

\* As long as the event queue has room, the controller always has a next event: its
\* timer, the report of an attempt, or the end of the connection
\* (app_controller.c:18-45, mqtt_client.c:91-127).
THEOREM ControllerServed == Spec /\ []HasRoom => []ControllerIsServed
  <1>1. Up => ControllerIsServed
    <2> SUFFICES ASSUME Up PROVE ControllerIsServed
      OBVIOUS
    <2>1. reconnect_work <=> reconnect.lte_available /\ reconnect.phase = "WAITING"
      BY DEF Up, Base, Controller
    <2>2. reconnect.phase = "CONNECTING" =>
            \/ Contains(mqtt_workqueue, "connect") \/ worker = "connecting"
            \/ helper = "connecting" \/ Queued(Event("MQTT_CONNECTED")) \/ GoingDown
      BY DoomedGoesDown DEF Up, Attempt, Trying, Waits, News
    <2>3. reconnect.phase = "CONNECTED" => helper_connected \/ GoingDown
      BY DoomedGoesDown DEF Up, Attempt
    <2> QED
      BY <2>1, <2>2, <2>3 DEF ControllerIsServed
  <1> QED
    BY <1>1, StaysUp, PTL

\* As long as the event queue has room, no publish is forgotten: whatever the
\* measurement service believes to be in flight is in the hands of the worker, waits
\* for a PUBACK with the timer on, or its result or the end of the connection is on
\* its way (mqtt_client.c:220-225, 240, 301-322).
THEOREM InFlightAnswered == Spec /\ []HasRoom => []InFlightIsAnswered
  <1>1. Up => InFlightIsAnswered
    <2> SUFFICES ASSUME Up, publish_in_flight, ~GoingDown,
                        ~ \E ok \in BOOLEAN : Queued(Result(pending_publish_token, ok))
                 PROVE  InFlightIsAnswered
      BY DEF InFlightIsAnswered
    <2>1. Busy /\ pending_publish_token = publish.token /\ OnePublish /\ Flags
      BY DoomedGoesDown, TypeParts DEF Up, Base, Answered, ResultComes
    <2>2. CASE Accepted
      BY <2>1, <2>2 DEF Accepted, Waits, OnePublish, InFlightIsAnswered
    <2>3. CASE Sending /\ JobIsActive
      BY <2>1, <2>3 DEF Sending, OnePublish, InFlightIsAnswered
    <2>4. CASE Waiting /\ (puback_armed \/ Waits("timeout"))
      BY <2>1, <2>4 DEF Waiting, Waits, OnePublish, InFlightIsAnswered
    <2> QED
      BY <2>1, <2>2, <2>3, <2>4 DEF Busy
  <1> QED
    BY <1>1, StaysUp, PTL

-----------------------------------------------------------------------------
(* bdSeq.                                                                  *)

\* An NBIRTH with bdSeq n may have been sent: the broker saw it last, or it is on its way, or
\* with the worker.
BirthSent(n) ==
    \/ n = host_bd
    \/ \E i \in OnWay : up[i].kind = "NBIRTH" /\ up[i].number = n
    \/ (Waiting \/ worker = "sending") /\ publish.kind = "NBIRTH" /\ publish.number = n
\* Nothing is left of the last use of bdSeq n.
Unused(n) ==
    ~BirthSent(n) /\ ~(Accepted /\ publish.kind = "NBIRTH" /\ publish.number = n)

\* bdSeq, which wraps, comes back to a value only when nothing is left of its last use
\* (measurement_service.c:246-257).
FreshBdSeq == bd_seq' # bd_seq => Unused(bd_seq)'
FreshBdSeqs == [][FreshBdSeq]_vars

\* Once the NBIRTH of a session is with the worker, no attempt to connect is under way until the
\* controller has handled the end of the connection, and with that taken the next bdSeq.
Births ==
    /\ BirthsDiffer
    /\ host_seq = NoSeq =>
        /\ Alive /\ publish.kind = "NBIRTH" => publish.number # host_bd
        /\ mqtt_connected => bd_seq # host_bd
    /\ IF mqtt_connected THEN BirthSent(bd_seq) => NoAttempt
                         ELSE Unused(bd_seq)

\* The service takes the next bdSeq with the end of a connection only.
LEMMA WhoChangesBdSeq ==
    ASSUME [Next]_vars
    PROVE  \/ UNCHANGED <<mqtt_connected, bd_seq>>
           \/ mqtt_connected' = FALSE /\ bd_seq' = NextSeq(bd_seq)
           \/ mqtt_connected' = TRUE /\ UNCHANGED bd_seq
  <1> USE DEF serviceVars, sessionFlags
  <1>1. CASE EventWork
    BY <1>1 DEF EventWork, HandleLteLost, HandleLteConnected, HandleMqttConnected,
       HandleMqttDisconnected, HandleMqttError, HandlePublishResult, ServiceConnected,
       ServiceDisconnected, PublishResult
  <1>2. CASE ReconnectWork \/ Modem \/ ServiceWork \/ UNCHANGED vars
    BY <1>2 DEF ReconnectWork, Modem, LteEvent, ServiceWork, PublishWorkHandler,
       MeasurementWork, vars
  <1>3. CASE Mqtt
    BY <1>3 DEF Mqtt
  <1> QED
    BY <1>1, <1>2, <1>3 DEF Next

\* The next bdSeq is another one.
LEMMA NextBdSeq ==
    ASSUME bd_seq \in Seqs
    PROVE  NextSeq(bd_seq) # bd_seq
  <1>1. SeqModulo \in Nat /\ SeqModulo > 1 /\ bd_seq \in 0 .. SeqModulo - 1
    BY OrigMqttConstants DEF Seqs
  <1>2. CASE bd_seq = SeqModulo - 1
    <2>1. (bd_seq + 1) % SeqModulo = 0
      BY <1>1, <1>2
    <2> QED
      BY <1>1, <1>2, <2>1 DEF NextSeq
  <1>3. CASE bd_seq # SeqModulo - 1
    <2>1. (bd_seq + 1) % SeqModulo = bd_seq + 1
      BY <1>1, <1>3
    <2> QED
      BY <1>1, <2>1 DEF NextSeq
  <1> QED
    BY <1>2, <1>3

\* A publish is accepted only when the worker has none; no other step changes the payload.
LEMMA PayloadStep ==
    ASSUME TypeOK, OnePublish, [Next]_vars
    PROVE  \/ UNCHANGED publish
           \/ /\ PublishAccepted /\ mqtt_connected /\ UNCHANGED <<host_bd, up, host_seq>>
              /\ ~Waiting /\ worker # "sending" /\ ~Waiting' /\ worker' # "sending"
              /\ publish'.kind = "NBIRTH" => publish'.number = bd_seq
  <1>1. CASE PublishAccepted
    <2>1. active_publish_id = 0 /\ ~publish_pending /\ mqtt_connected
      BY <1>1 DEF PublishAccepted, PublishRefused
    <2>2. ~Waiting /\ ~Sending
      BY <2>1 DEF Waiting, OnePublish
    <2>3. UNCHANGED <<worker, active_publish_id, host_bd, up, host_seq>>
      BY <1>1 DEF PublishAccepted, PublishWorkHandler, brokerVars
    <2>4. publish'.kind = "NBIRTH" => publish'.number = bd_seq
      BY <1>1 DEF PublishAccepted, Published, MqttPublish
    <2> QED
      BY <1>1, <2>1, <2>2, <2>3, <2>4 DEF Waiting, Sending
  <1> QED
    BY <1>1, WhoChangesPublish

\* Only the worker that takes an NBIRTH adds to the bdSeqs that may have been sent.
LEMMA SentStep ==
    ASSUME TypeOK, OnePublish, [Next]_vars
    PROVE  \A n : BirthSent(n)' => BirthSent(n) \/ (PublishWork /\ PublishWanted)
  <1> SUFFICES ASSUME NEW n, ~(PublishWork /\ PublishWanted)
               PROVE  BirthSent(n)' => BirthSent(n)
    OBVIOUS
  <1> USE DEF BirthSent, OnWay
  <1>0. up \in Seq(Message)
    BY DEF TypeOK, MqttTypeOK
  <1>1. (Waiting' \/ worker' = "sending") => Waiting \/ worker = "sending"
    BY AliveStep
  <1>2. (Waiting' \/ worker' = "sending") => UNCHANGED publish
    BY PayloadStep
  <1>3. n = host_bd' \/ (\E i \in OnWay' : up'[i].kind = "NBIRTH" /\ up'[i].number = n)
           => BirthSent(n)
    <2>1. CASE UNCHANGED <<up, host_bd>>
      BY <2>1
    <2>2. CASE BrokerReceive
      <3>1. /\ up # <<>> /\ up' = Tail(up)
            /\ host_bd' = IF Head(up).kind = "NBIRTH" THEN Head(up).number ELSE host_bd
        BY <2>2 DEF BrokerReceive
      <3>2. 1 \in 1 .. Len(up) /\ Head(up) = up[1]
        BY <1>0, <3>1
      <3>3. \A i \in 1 .. Len(up') : i + 1 \in 1 .. Len(up) /\ up'[i] = up[i + 1]
        BY <1>0, <3>1
      <3> QED
        BY <3>1, <3>2, <3>3
    <2>3. CASE Write
      <3>1. worker = "sending" /\ UNCHANGED host_bd
        BY <2>3 DEF Write
      <3>2. \A i \in 1 .. Len(up') :
               \/ i \in 1 .. Len(up) /\ up'[i] = up[i]
               \/ up'[i].kind = publish.kind /\ up'[i].number = publish.number
        <4> DEFINE m == [id |-> job.id, kind |-> publish.kind,
                         number |-> publish.number, data |-> publish.data]
        <4>1. up' = Append(up, m) /\ m.kind = publish.kind /\ m.number = publish.number
          BY <2>3 DEF Write
        <4> HIDE DEF m
        <4> QED
          BY <1>0, <4>1
      <3> QED
        BY <3>1, <3>2
    <2>4. CASE OnConnack \/ TrafficLost
      BY <2>4 DEF OnConnack, TrafficLost
    <2> QED
      BY <2>1, <2>2, <2>3, <2>4, WhoChangesBroker
  <1> QED
    BY <1>1, <1>2, <1>3

LEMMA UnusedStep ==
    ASSUME TypeOK, OnePublish, [Next]_vars, ~PublishAccepted
    PROVE  \A n : Unused(n) => Unused(n)'
  <1>1. UNCHANGED publish
    BY WhoChangesPublish
  <1>2. Accepted' => Accepted
    BY AliveStep
  <1>3. CASE PublishWork /\ PublishWanted
    <2>1. Accepted /\ UNCHANGED <<up, host_bd>>
      BY <1>3, AliveStep DEF PublishWork, brokerVars
    <2> QED
      BY <1>1, <2>1 DEF Unused, BirthSent, OnWay
  <1>4. CASE ~(PublishWork /\ PublishWanted)
    <2>1. \A n : BirthSent(n)' => BirthSent(n)
      BY <1>4, SentStep
    <2> QED
      BY <1>1, <1>2, <2>1 DEF Unused
  <1> QED
    BY <1>3, <1>4

LEMMA BirthsStep ==
    ASSUME TypeOK, OnePublish, Connection, Controller, Births, [Next]_vars, FreshBdSeq
    PROVE  Births'
  <1>0. /\ Connection' /\ bd_seq \in Seqs /\ host_seq \in Seqs \cup {NoSeq} /\ up \in Seq(Message)
        /\ mqtt_connected \in BOOLEAN /\ mqtt_connected' \in BOOLEAN
    BY ConnectionStep, TypeStep DEF TypeOK, MqttTypeOK, ServiceTypeOK
  <1>1. BrokerReceive => host_seq' # NoSeq
    <2>1. up # <<>> => Head(up) \in Message
      BY <1>0
    <2>2. 0 # NoSeq /\ \A n \in Seqs : n # NoSeq
      BY OrigMqttConstants DEF Seqs, NoSeq
    <2> QED
      BY <2>1, <2>2 DEF BrokerReceive, Message
  <1>2. OnConnack => helper = "connecting" /\ ~NoAttempt /\ ~Alive' /\ up' = <<>> /\ UNCHANGED host_bd
    <2> SUFFICES ASSUME OnConnack
                 PROVE  ~NoAttempt /\ ~Alive' /\ up' = <<>> /\ UNCHANGED host_bd
      BY DEF OnConnack
    <2>1. helper = "connecting" /\ up' = <<>> /\ UNCHANGED <<host_bd, worker>>
      BY DEF OnConnack
    <2>2. ~helper_connected /\ ~Accepted /\ ~Waiting /\ ~Sending
      BY <2>1 DEF Connection
    <2>3. ~PublishAccepted
      BY <2>2 DEF PublishAccepted, PublishRefused
    <2>4. ~Accepted' /\ ~Waiting' /\ worker' # "sending"
      BY <2>1, <2>2, <2>3, AliveStep DEF Sending
    <2> QED
      BY <2>1, <2>4 DEF NoAttempt, Alive
  <1>3. ASSUME host_seq' = NoSeq, ~OnConnack
        PROVE  host_seq = NoSeq /\ UNCHANGED host_bd /\ ~BrokerReceive
    BY <1>1, <1>3, WhoChangesBroker
  <1>4. ASSUME host_seq' = NoSeq, Alive', publish'.kind = "NBIRTH"
        PROVE  publish'.number # host_bd'
    <2>1. host_seq = NoSeq /\ UNCHANGED host_bd
      BY <1>2, <1>3, <1>4
    <2>2. CASE UNCHANGED publish
      <3>1. CASE PublishAccepted
        <4>1. mqtt_connected /\ publish'.number = bd_seq
          BY <1>4, <3>1 DEF PublishAccepted, Published, MqttPublish
        <4> QED
          BY <2>1, <4>1 DEF Births
      <3>2. CASE ~PublishAccepted
        <4>1. Alive
          BY <1>4, <3>2, AliveStep DEF Alive
        <4> QED
          BY <1>4, <2>1, <2>2, <4>1 DEF Births
      <3> QED
        BY <3>1, <3>2
    <2>3. CASE mqtt_connected /\ publish'.number = bd_seq
      BY <2>1, <2>3 DEF Births
    <2> QED
      BY <1>4, <2>2, <2>3, PayloadStep
  <1>5. BirthsDiffer'
    <2> SUFFICES ASSUME host_seq' = NoSeq, NEW i \in 1 .. Len(up'), up'[i].kind = "NBIRTH"
                 PROVE  up'[i].number # host_bd'
      BY DEF BirthsDiffer
    <2>1. up' # <<>> /\ ~OnConnack
      BY <1>2
    <2>2. host_seq = NoSeq /\ UNCHANGED host_bd /\ ~BrokerReceive
      BY <1>3, <2>1
    <2>3. CASE Write
      <3>1. worker = "sending"
        BY <2>3 DEF Write
      <3>2. \/ i \in 1 .. Len(up) /\ up'[i] = up[i]
            \/ up'[i].kind = publish.kind /\ up'[i].number = publish.number
        <4> DEFINE m == [id |-> job.id, kind |-> publish.kind,
                         number |-> publish.number, data |-> publish.data]
        <4>1. up' = Append(up, m) /\ m.kind = publish.kind /\ m.number = publish.number
          BY <2>3 DEF Write
        <4> HIDE DEF m
        <4> QED
          BY <1>0, <4>1
      <3> QED
        BY <2>2, <3>1, <3>2 DEF Births, BirthsDiffer, Alive
    <2>4. CASE UNCHANGED up
      BY <2>2, <2>4 DEF Births, BirthsDiffer
    <2> QED
      BY <2>1, <2>2, <2>3, <2>4, WhoChangesBroker DEF TrafficLost
  <1>6. CASE ~mqtt_connected'
    <2>1. Unused(bd_seq)'
      <3>1. CASE bd_seq' # bd_seq
        BY <3>1 DEF FreshBdSeq
      <3>2. CASE bd_seq' = bd_seq
        <4>1. ~mqtt_connected
          BY <1>0, <1>6, <3>2, WhoChangesBdSeq, NextBdSeq
        <4>2. ~PublishAccepted
          BY <4>1 DEF PublishAccepted
        <4>3. Unused(bd_seq)
          BY <4>1 DEF Births
        <4>4. \A n : Unused(n) => Unused(n)'
          BY <4>2, UnusedStep
        <4> QED
          BY <3>2, <4>3, <4>4 DEF Unused, BirthSent
      <3> QED
        BY <3>1, <3>2
    <2> QED
      BY <1>4, <1>5, <1>6, <2>1, Zenon DEF Births
  <1>7. CASE mqtt_connected'
    <2>1. bd_seq' = bd_seq
      BY <1>7, WhoChangesBdSeq
    <2>2. CASE ~mqtt_connected
      <3>1. ~PublishAccepted
        BY <2>2 DEF PublishAccepted
      <3>2. Unused(bd_seq)
        BY <2>2 DEF Births
      <3>3. \A n : Unused(n) => Unused(n)'
        BY <3>1, UnusedStep
      <3>4. ~BirthSent(bd_seq)' /\ bd_seq' # host_bd'
        BY <2>1, <3>2, <3>3 DEF Unused, BirthSent
      <3> QED
        BY <1>4, <1>5, <1>7, <3>4, Zenon DEF Births
    <2>3. CASE mqtt_connected
      <3>1. BirthSent(bd_seq)' => NoAttempt'
        <4>1. CASE PublishWork /\ PublishWanted
          <5>1. active_publish_id' # 0 /\ "active" \in current'
            BY <4>1, TypeStep, NextIdType DEF PublishWork, TypeOK, MqttTypeOK
          <5> QED
            BY <1>0, <5>1 DEF Connection, Waiting
        <4>2. CASE ~(PublishWork /\ PublishWanted)
          <5>1. BirthSent(bd_seq)' => BirthSent(bd_seq)
            <6>1. \A n : BirthSent(n)' => BirthSent(n)
              BY <4>2, SentStep
            <6> QED
              BY <2>1, <6>1 DEF BirthSent
          <5>2. ~ConnectWanted
            BY <2>3 DEF Controller, ConnectWanted
          <5> QED
            BY <2>3, <5>1, <5>2, AttemptStep DEF Births
        <4> QED
          BY <4>1, <4>2
      <3>2. host_seq' = NoSeq => bd_seq' # host_bd'
        <4>1. CASE OnConnack
          BY <1>2, <2>1, <2>3, <4>1 DEF Births, BirthSent
        <4>2. CASE ~OnConnack
          BY <1>3, <2>1, <2>3, <4>2 DEF Births
        <4> QED
          BY <4>1, <4>2
      <3> QED
        BY <1>4, <1>5, <1>7, <3>1, <3>2, Zenon DEF Births
    <2> QED
      BY <2>2, <2>3
  <1> QED
    BY <1>0, <1>6, <1>7

LEMMA InitBirths == Init => Births
  <1> SUFFICES ASSUME Init PROVE Births
    OBVIOUS
  <1>1. /\ up = <<>> /\ host_bd = NoSeq /\ bd_seq = 0 /\ ~mqtt_connected
        /\ mqtt_workqueue = <<>> /\ worker = "idle" /\ active_publish_id = 0
    BY DEF Init, MqttInit, ServiceInit
  <1>2. OnWay = {} /\ ~Accepted /\ ~Waiting /\ worker # "sending"
    BY <1>1 DEF OnWay, Accepted, Waits, Contains, Waiting
  <1>3. bd_seq # host_bd
    BY <1>1 DEF NoSeq
  <1> QED
    BY <1>1, <1>2, <1>3 DEF Births, BirthsDiffer, OnWay, Alive, Unused, BirthSent

\* The NBIRTH of a new session has another bdSeq than the one before, whatever was left over of
\* it, as long as bdSeq does not wrap onto a value that is still in use.
THEOREM BirthsTellSessionsApart == Spec /\ FreshBdSeqs => []BirthsDiffer
  <1> DEFINE I == TypeOK /\ OnePublish /\ Connection /\ Controller /\ Births
  <1>1. Init => I
    BY InitUp, InitBirths DEF Up, Base
  <1>2. I /\ [Next]_vars /\ [FreshBdSeq]_vars => I'
    <2> SUFFICES ASSUME I, [Next]_vars, [FreshBdSeq]_vars PROVE I'
      OBVIOUS
    <2>1. FreshBdSeq
      BY DEF FreshBdSeq, vars, serviceVars
    <2>2. TypeOK' /\ OnePublish' /\ Connection' /\ Controller'
      BY TypeStep, OnePublishStep, ConnectionStep, ControllerStep
    <2> QED
      BY <2>1, <2>2, BirthsStep
  <1>3. I => BirthsDiffer
    BY DEF Births
  <1> QED
    BY <1>1, <1>2, <1>3, PTL DEF Spec, FreshBdSeqs
=============================================================================
