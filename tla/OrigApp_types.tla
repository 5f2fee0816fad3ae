--------------------------- MODULE OrigApp_types ---------------------------
(* Facts about the operators of OrigApp, and the types of its variables.   *)
EXTENDS OrigApp, SequenceTheorems, TLAPS

\* What k_work_submit_to_queue keeps: no work waits twice.
IsQueue(q) == q \in Seq(Works) /\ IsInjective(q)

\* Every connect in the queue of the worker is in front of the publish.
ConnectsFirst(q) ==
    \A i, j \in 1 .. Len(q) : q[i] = "publish" /\ q[j] = "connect" => j < i

\* k_work_submit_to_queue
LEMMA SubmitEffect ==
    ASSUME NEW q, IsQueue(q), NEW work \in Works
    PROVE  /\ IsQueue(Submit(q, work))
           /\ \A v : Contains(Submit(q, work), v) <=> v = work \/ Contains(q, v)
           /\ ConnectsFirst(q) /\ work # "connect" => ConnectsFirst(Submit(q, work))
  <1>1. CASE Contains(q, work)
    BY <1>1 DEF Submit
  <1>2. CASE ~Contains(q, work)
    <2>1. Submit(q, work) = Append(q, work)
      BY <1>2 DEF Submit
    <2>2. IsQueue(Append(q, work))
      BY <1>2 DEF IsQueue, IsInjective, Contains
    <2>3. \A v : Contains(Append(q, work), v) <=> v = work \/ Contains(q, v)
      BY DEF IsQueue, Contains
    <2>4. ConnectsFirst(q) /\ work # "connect" => ConnectsFirst(Append(q, work))
      BY DEF IsQueue, ConnectsFirst
    <2> QED
      BY <2>1, <2>2, <2>3, <2>4
  <1> QED
    BY <1>1, <1>2

\* The worker takes the first work.
LEMMA TakeEffect ==
    ASSUME NEW q, IsQueue(q), q # <<>>
    PROVE  /\ IsQueue(Tail(q))
           /\ \A v : Contains(Tail(q), v) <=> Contains(q, v) /\ v # Head(q)
           /\ ConnectsFirst(q) => ConnectsFirst(Tail(q))
           /\ ConnectsFirst(q) /\ Head(q) = "publish" => ~Contains(Tail(q), "connect")
  <1>1. q \in Seq(Works) /\ Len(q) \in Nat /\ Len(q) > 0 /\ Len(Tail(q)) = Len(q) - 1
        /\ Tail(q) \in Seq(Works) /\ Head(q) = q[1]
    BY DEF IsQueue
  <1>2. \A i \in 1 .. Len(Tail(q)) : Tail(q)[i] = q[i + 1] /\ i + 1 \in 1 .. Len(q)
    BY <1>1
  <1>3. \A i \in 2 .. Len(q) : q[i] = Tail(q)[i - 1] /\ i - 1 \in 1 .. Len(Tail(q))
    BY <1>1
  <1>4. IsInjective(Tail(q))
    BY <1>1, <1>2 DEF IsQueue, IsInjective
  <1>5. ASSUME NEW v PROVE Contains(Tail(q), v) <=> Contains(q, v) /\ v # Head(q)
    <2>1. \A i \in 2 .. Len(q) : q[i] # q[1]
      BY <1>1 DEF IsQueue, IsInjective
    <2>2. ASSUME NEW i \in 1 .. Len(q), q[i] = v, v # Head(q) PROVE Contains(Tail(q), v)
      <3>1. i \in 2 .. Len(q)
        BY <1>1, <2>2
      <3> QED
        BY <3>1, <1>3, <2>2 DEF Contains
    <2>3. ASSUME NEW i \in 1 .. Len(Tail(q)), Tail(q)[i] = v
          PROVE  Contains(q, v) /\ v # Head(q)
      <3>1. q[i + 1] = v /\ i + 1 \in 2 .. Len(q)
        BY <1>1, <1>2, <2>3
      <3> QED
        BY <3>1, <2>1, <1>1 DEF Contains
    <2> QED
      BY <2>2, <2>3 DEF Contains
  <1>6. ConnectsFirst(q) => ConnectsFirst(Tail(q))
    BY <1>1, <1>2 DEF ConnectsFirst
  <1>7. ConnectsFirst(q) /\ Head(q) = "publish" => ~Contains(Tail(q), "connect")
    BY <1>1, <1>2 DEF ConnectsFirst, Contains
  <1> QED
    BY <1>1, <1>4, <1>5, <1>6, <1>7 DEF IsQueue

\* k_work_cancel_delayable
LEMMA NoTimeoutEffect ==
    ASSUME IsQueue(mqtt_workqueue)
    PROVE  /\ IsQueue(NoTimeout)
           /\ \A v : Contains(NoTimeout, v) <=> Contains(mqtt_workqueue, v) /\ v # "timeout"
           /\ ConnectsFirst(mqtt_workqueue) => ConnectsFirst(NoTimeout)
  <1> DEFINE q == mqtt_workqueue
  <1>1. CASE ~Contains(q, "timeout")
    <2>1. NoTimeout = q
      BY <1>1 DEF NoTimeout, RemoveFirst, Contains
    <2> QED
      BY <1>1, <2>1 DEF Contains
  <1>2. CASE Contains(q, "timeout")
    <2>1. PICK k \in 1 .. Len(q) : q[k] = "timeout"
      BY <1>2 DEF Contains
    <2> DEFINE I == {i \in 1 .. Len(q) : q[i] = "timeout"}
    <2>2. I = {k}
      BY <2>1 DEF IsQueue, IsInjective
    <2>3. Min(I) = k
      BY <2>2 DEF Min
    <2>4. SelectInSeq(q, LAMBDA v : v = "timeout") = k
      BY <2>2, <2>3 DEF SelectInSeq
    <2>5. NoTimeout = RemoveAt(q, k)
      BY <2>1, <2>4 DEF NoTimeout, RemoveFirst
    <2>6. q \in Seq(Works) /\ Len(q) \in Nat
      BY DEF IsQueue
    <2> DEFINE front == SubSeq(q, 1, k - 1)
               back == SubSeq(q, k + 1, Len(q))
               r == front \o back
    <2>a. front \in Seq(Works) /\ Len(front) = k - 1 /\ \A i \in 1 .. k - 1 : front[i] = q[i]
      BY <2>6
    <2>b. /\ back \in Seq(Works) /\ Len(back) = Len(q) - k
          /\ \A i \in 1 .. Len(q) - k : back[i] = q[i + k]
      BY <2>6
    <2> HIDE DEF front, back
    <2>c. /\ r \in Seq(Works) /\ Len(r) = Len(front) + Len(back)
          /\ \A i \in 1 .. Len(front) + Len(back) :
                r[i] = IF i <= Len(front) THEN front[i] ELSE back[i - Len(front)]
      BY <2>a, <2>b, ConcatProperties
    <2> HIDE DEF r
    <2>7. r \in Seq(Works) /\ Len(r) = Len(q) - 1
      BY <2>6, <2>a, <2>b, <2>c
    <2>8. /\ \A i \in 1 .. k - 1 : r[i] = q[i] /\ i \in 1 .. Len(q) /\ i \in 1 .. Len(r)
          /\ \A i \in k .. Len(r) : r[i] = q[i + 1] /\ i + 1 \in 1 .. Len(q)
      <3>1. \A i \in 1 .. k - 1 : r[i] = front[i]
        BY <2>6, <2>a, <2>b, <2>c
      <3>2. \A i \in k .. Len(r) : r[i] = back[i - k + 1] /\ i - k + 1 \in 1 .. Len(q) - k
        BY <2>6, <2>a, <2>b, <2>c
      <3> QED
        BY <2>6, <2>7, <2>a, <2>b, <3>1, <3>2
    <2>9. \A i \in k + 1 .. Len(q) : q[i] = r[i - 1] /\ i - 1 \in 1 .. Len(r)
      BY <2>6, <2>7, <2>8
    <2> DEFINE Place(i) == IF i < k THEN i ELSE i + 1
    <2>p. \A i \in 1 .. Len(r) : r[i] = q[Place(i)] /\ Place(i) \in 1 .. Len(q)
      BY <2>6, <2>7, <2>8
    <2>m. \A i, j \in 1 .. Len(r) :
              (Place(i) = Place(j) => i = j) /\ (Place(i) < Place(j) => i < j)
      BY <2>6, <2>7
    <2> HIDE DEF Place
    <2>10. IsInjective(r)
      BY <2>p, <2>m, <2>6, <2>7 DEF IsQueue, IsInjective
    <2>11. ASSUME NEW v PROVE Contains(r, v) <=> Contains(q, v) /\ v # "timeout"
      <3>1. \A m \in 1 .. Len(q) : q[m] = "timeout" => m = k
        BY <2>1, <2>6 DEF IsQueue, IsInjective
      <3>2. ASSUME NEW i \in 1 .. Len(q), q[i] = v, v # "timeout" PROVE Contains(r, v)
        <4>1. i \in 1 .. k - 1 \/ i \in k + 1 .. Len(q)
          BY <2>1, <2>6, <3>2
        <4> QED
          BY <4>1, <2>7, <2>8, <2>9, <3>2 DEF Contains
      <3>3. ASSUME NEW i \in 1 .. Len(r), r[i] = v
            PROVE  Contains(q, v) /\ v # "timeout"
        <4>1. PICK m \in 1 .. Len(q) : m # k /\ q[m] = v
          BY <2>6, <2>7, <2>8, <3>3
        <4> QED
          BY <4>1, <3>1 DEF Contains
      <3> QED
        BY <3>2, <3>3 DEF Contains
    <2>12. ConnectsFirst(q) => ConnectsFirst(r)
      BY <2>6, <2>7, <2>p, <2>m DEF ConnectsFirst
    <2>13. NoTimeout = r
      BY <2>5 DEF RemoveAt, r, front, back
    <2> QED
      BY <2>7, <2>10, <2>11, <2>12, <2>13 DEF IsQueue
  <1> QED
    BY <1>1, <1>2

\* next_seq, bd_seq, tokens and ids start again when they are used up.
LEMMA NextSeqType == \A n \in Seqs : NextSeq(n) \in Seqs
  BY OrigMqttConstants DEF NextSeq, Seqs

LEMMA NextTokenType == next_publish_token \in 0 .. Tokens => NextToken \in 1 .. Tokens
  BY OrigMqttConstants DEF NextToken

LEMMA NextIdType == message_id \in 1 .. MsgIds => NextMessageId \in 1 .. MsgIds
  BY OrigMqttConstants DEF NextMessageId

\* Two numbers in a row differ, and each number follows one other.
LEMMA NextSeqFacts ==
    /\ \A n \in Seqs : NextSeq(n) # n
    /\ \A m, n \in Seqs : NextSeq(m) = NextSeq(n) => m = n
    /\ NextSeq(0) = 1 /\ 0 \in Seqs /\ 1 \in Seqs /\ NoSeq \notin Seqs
  <1>1. SeqModulo \in Nat /\ SeqModulo > 1
    BY OrigMqttConstants
  <1>2. \A n \in Seqs : NextSeq(n) = IF n + 1 = SeqModulo THEN 0 ELSE n + 1
    <2> SUFFICES ASSUME NEW n \in Seqs
                 PROVE  (n + 1) % SeqModulo = IF n + 1 = SeqModulo THEN 0 ELSE n + 1
      BY DEF NextSeq
    <2> QED
      BY <1>1 DEF Seqs
  <1> QED
    BY <1>1, <1>2 DEF Seqs, NoSeq

\* What the event queue may hold.
IsEvents(q) == q \in Seq(Events) /\ Len(q) <= QueueLength

\* The events that are posted are events of the queue.
LEMMA EventTypesOK ==
    /\ \A type \in EventTypes : Event(type) \in Events
    /\ \A token \in 1 .. Tokens, ok \in BOOLEAN : Result(token, ok) \in Events
    /\ NoEvent \notin Events
  BY DEF Event, Result, Events, NoEvent, EventTypes

\* post_event keeps the queue within its length.
LEMMA EnqueueType ==
    ASSUME NEW q, IsEvents(q), NEW event \in Events
    PROVE  IsEvents(Enqueue(q, event))
  BY OrigMqttConstants DEF IsEvents, Enqueue

\* event_work_handler takes an event off the queue.
LEMMA RestType ==
    ASSUME IsEvents(app_events), app_events # <<>>
    PROVE  IsEvents(Rest) /\ Head(app_events) \in Events
  <1>1. Len(app_events) \in Nat /\ Len(app_events) > 0 /\ Head(app_events) = app_events[1]
    BY DEF IsEvents
  <1>2. Rest \in Seq(Events) /\ Len(Rest) = Len(app_events) - 1
    BY <1>1 DEF IsEvents, Rest
  <1> QED
    BY <1>1, <1>2, OrigMqttConstants DEF IsEvents

-----------------------------------------------------------------------------
(* The flags, apart from the other types.                                  *)

Flags ==
    /\ lte_available \in BOOLEAN /\ helper_connected \in BOOLEAN
    /\ connect_pending \in BOOLEAN /\ publish_pending \in BOOLEAN
    /\ puback_armed \in BOOLEAN /\ reconnect_work \in BOOLEAN
    /\ publish_in_flight \in BOOLEAN /\ mqtt_connected \in BOOLEAN
    /\ birth_pending \in BOOLEAN /\ birth_in_flight \in BOOLEAN
    /\ publish_work \in BOOLEAN

\* Every assignment to a flag is a truth value.
LEMMA FlagsStep == Flags /\ [Next]_vars => Flags'
  <1> SUFFICES ASSUME Flags, [Next]_vars PROVE Flags'
    OBVIOUS
  <1> USE DEF Flags, connectionFlags, publishState, serviceVars, sessionFlags,
              ForgetPublish, MqttDisconnect, Apply, Request
  <1>1. CASE HandleLteLost
    BY <1>1, Zenon DEF HandleLteLost, MqttLteLost, ServiceDisconnected
  <1>2. CASE HandleLteConnected
    BY <1>2, Zenon DEF HandleLteConnected, ApplyConnect, MqttConnect
  <1>3. CASE HandleMqttConnected
    BY <1>3, Zenon DEF HandleMqttConnected, ServiceConnected
  <1>4. CASE HandleMqttDisconnected \/ HandleMqttError
    BY <1>4, Zenon DEF HandleMqttDisconnected, HandleMqttError, ServiceDisconnected
  <1>5. CASE HandlePublishResult
    BY <1>5, Zenon DEF HandlePublishResult, PublishResult, BirthResult, DataResult
  <1>6. CASE ReconnectWork
    BY <1>6, Zenon DEF ReconnectWork, ApplyConnect, MqttConnect
  <1>7. CASE ServiceWork
    <2>1. CASE PublishWorkHandler /\ Published
      BY <1>7, <2>1, Zenon DEF ServiceWork, PublishWorkHandler, Published, MqttPublish
    <2>2. CASE PublishWorkHandler /\ PublishUnchanged
      <3>1. publish_work' = FALSE \/ publish_work' = publish_work
        BY <2>2, Zenon DEF PublishWorkHandler, Published
      <3> HIDE DEF Request
      <3>2. UNCHANGED <<publish_pending, publish_in_flight, birth_in_flight>>
        BY <2>2, Zenon DEF PublishUnchanged
      <3>3. UNCHANGED <<connectionFlags, puback_armed, mqtt_connected, birth_pending>>
        BY <2>2, Zenon DEF PublishWorkHandler
      <3>4. reconnect_work' = reconnect_work
        BY <1>7, Zenon DEF ServiceWork
      <3> QED
        BY <3>1, <3>2, <3>3, <3>4, Zenon
    <2>3. CASE \E r \in Readings : MeasurementWork(r)
      BY <1>7, <2>3, Zenon DEF ServiceWork, MeasurementWork
    <2> QED
      BY <1>7, <2>1, <2>2, <2>3, Zenon DEF ServiceWork, PublishWorkHandler
  <1>8. CASE Modem
    BY <1>8, Zenon DEF Modem, LteEvent
  <1>9. CASE Mqtt /\ Worker
    BY <1>9, Zenon DEF Mqtt, Worker, ConnectWork, ConnectReturns, ConnectFails,
       DisconnectWork, PublishWork, TimeoutWork, Write, PublishSent, PublishFails
  <1>10. CASE Mqtt /\ (PubackTimeout \/ HelperThread)
    BY <1>10, Zenon DEF Mqtt, PubackTimeout, HelperThread, OnConnack, OnConnackRefused,
       OnDisconnect, OnPuback, OnError, CallbackPosts
  <1>11. CASE Mqtt /\ Broker
    BY <1>11, Zenon DEF Mqtt, Broker, BrokerReceive, ConnectionLost, TrafficLost
  <1>12. CASE UNCHANGED vars
    BY <1>12, Zenon DEF vars, mqttVars
  <1> QED
    BY <1>1, <1>2, <1>3, <1>4, <1>5, <1>6, <1>7, <1>8, <1>9, <1>10, <1>11, <1>12,
       Zenon DEF Next, EventWork, Mqtt, MqttStep

-----------------------------------------------------------------------------
(* One publish at a time: what the MQTT client keeps for the service is    *)
(* either in the hands of the worker or waits for a PUBACK.                *)

Waits(work) == Contains(mqtt_workqueue, work)
Sending == worker \in {"sending", "written"}

\* There is one copy of a payload, so that at any time everything in the MQTT
\* client is about the same publish: the one accepted last, under the id handed
\* out last (mqtt_client.c:215-256, 276-294).
OnePublish ==
    /\ publish_pending <=> Waits("publish") \/ Sending
    /\ Waits("publish") => active_publish_id = 0 /\ ~Sending
    /\ active_publish_id \in {0, message_id}
    /\ Sending => job.id = message_id /\ job.token = publish.token
    /\ active_publish_id # 0 => active_publish_token = publish.token
    /\ publish.token = next_publish_token
    /\ publish_pending \/ active_publish_id # 0 => publish.token # 0
    /\ publish.kind = "NBIRTH" => publish.data = {}

-----------------------------------------------------------------------------
(* What the steps do to the worker's queue and to the events.              *)

\* publish_work_handler when it gets a payload through to the MQTT client.
PublishAccepted ==
    /\ PublishWorkHandler
    /\ mqtt_connected /\ ~publish_in_flight /\ (SendsBirth \/ buffer # <<>>)
    /\ ~PublishRefused
    /\ Published

\* A refused publish changes nothing but the flag of the work and the faults.
LEMMA PublishCases == PublishWorkHandler => PublishAccepted \/ PublishUnchanged
  BY Zenon DEF PublishWorkHandler, PublishAccepted

\* aitsm_mqtt_connect is called by the controller when LTE comes up or the timer
\* ends, never while it is connected (mqtt_reconnect.c:21-27, 53-58).
ConnectWanted ==
    /\ ~helper_connected
    /\ ~reconnect.lte_available \/ reconnect.phase = "WAITING"

\* All that the steps do to the queue of the worker.
LEMMA QueueChanges ==
    ASSUME [Next]_vars
    PROVE  \/ mqtt_workqueue' = mqtt_workqueue \/ mqtt_workqueue' = NoTimeout
           \/ mqtt_workqueue' = Submit(NoTimeout, "disconnect")
           \/ mqtt_workqueue' = Submit(mqtt_workqueue, "timeout")
           \/ mqtt_workqueue # <<>> /\ mqtt_workqueue' = Tail(mqtt_workqueue)
           \/ PublishAccepted /\ mqtt_workqueue' = Submit(mqtt_workqueue, "publish")
           \/ ConnectWanted /\ mqtt_workqueue' = Submit(mqtt_workqueue, "connect")
  <1> USE DEF workerVars, ForgetPublish, MqttDisconnect
  <1>1. CASE HandleLteConnected \/ ReconnectWork
    <2>1. /\ HandleLteUp(reconnect).action = "CONNECT" => ~reconnect.lte_available
          /\ HandleTimer(reconnect).action = "CONNECT" => reconnect.phase = "WAITING"
      BY DEF HandleLteUp, HandleTimer, Answer
    <2>2. \/ mqtt_workqueue' = mqtt_workqueue
          \/ /\ ~ConnectAlready
             /\ \/ HandleLteUp(reconnect).action = "CONNECT"
                \/ HandleTimer(reconnect).action = "CONNECT"
             /\ mqtt_workqueue' = Submit(mqtt_workqueue, "connect")
      BY <1>1, Zenon DEF HandleLteConnected, ReconnectWork, ApplyConnect, MqttConnect
    <2> QED
      BY <2>1, <2>2 DEF ConnectAlready, ConnectWanted
  <1>2. CASE EventWork /\ ~HandleLteConnected
    BY <1>2, Zenon DEF EventWork, HandleLteLost, MqttLteLost, HandleMqttConnected,
       HandleMqttDisconnected, HandleMqttError, HandlePublishResult
  <1>3. CASE ServiceWork \/ Modem \/ UNCHANGED vars
    <2>1. CASE PublishWorkHandler
      BY <2>1, PublishCases, Zenon DEF PublishUnchanged, PublishAccepted, Published,
         MqttPublish
    <2>2. CASE ~PublishWorkHandler
      BY <1>3, <2>2, Zenon DEF ServiceWork, MeasurementWork, Modem, LteEvent, vars, mqttVars
    <2> QED
      BY <2>1, <2>2
  <1>4. CASE Mqtt /\ (Worker \/ PubackTimeout)
    BY <1>4, Zenon DEF Worker, ConnectWork, ConnectReturns, ConnectFails,
       DisconnectWork, PublishWork, TimeoutWork, Take1, Write, PublishSent,
       PublishFails, PubackTimeout
  <1>5. CASE Mqtt /\ (HelperThread \/ Broker)
    BY <1>5, Zenon DEF HelperThread, OnConnack, OnConnackRefused, OnDisconnect,
       OnPuback, OnError, CallbackPosts, Broker, BrokerReceive, ConnectionLost,
       TrafficLost
  <1> QED
    BY <1>1, <1>2, <1>3, <1>4, <1>5 DEF Next, Mqtt, MqttStep

\* What waits in the worker's queue afterwards.
LEMMA QueueFacts ==
    ASSUME IsQueue(mqtt_workqueue)
    PROVE  /\ \A v : Contains(NoTimeout, v) <=> Waits(v) /\ v # "timeout"
           /\ \A work \in Works : \A v :
                /\ Contains(Submit(mqtt_workqueue, work), v) <=> v = work \/ Waits(v)
                /\ Contains(Submit(NoTimeout, work), v)
                      <=> v = work \/ (Waits(v) /\ v # "timeout")
           /\ mqtt_workqueue # <<>> =>
                /\ \A v : Contains(Tail(mqtt_workqueue), v)
                             <=> Waits(v) /\ v # Head(mqtt_workqueue)
                /\ Waits(Head(mqtt_workqueue))
  <1>1. IsQueue(NoTimeout)
    BY NoTimeoutEffect
  <1>2. mqtt_workqueue # <<>> => Contains(mqtt_workqueue, Head(mqtt_workqueue))
    BY DEF IsQueue, Contains
  <1> QED
    BY <1>1, <1>2, NoTimeoutEffect, SubmitEffect, TakeEffect DEF Waits

\* The works by name.
LEMMA WorkNames ==
    "connect" \in Works /\ "publish" \in Works /\ "disconnect" \in Works /\ "timeout" \in Works
  BY DEF Works

\* Only an accepted publish and a wanted connect enter the queue as such.
LEMMA WhoSubmits ==
    ASSUME IsQueue(mqtt_workqueue), [Next]_vars
    PROVE  /\ Waits("publish")' => Waits("publish") \/ PublishAccepted
           /\ Waits("connect")' => Waits("connect") \/ ConnectWanted
  <1>1. CASE mqtt_workqueue' \in {mqtt_workqueue, NoTimeout, Submit(NoTimeout, "disconnect"),
                                  Submit(mqtt_workqueue, "timeout")}
    <2>1. \A v : Contains(mqtt_workqueue', v) => Waits(v) \/ v = "disconnect" \/ v = "timeout"
      BY <1>1, QueueFacts, WorkNames DEF Waits
    <2> QED
      BY <2>1 DEF Waits
  <1>2. CASE mqtt_workqueue # <<>> /\ mqtt_workqueue' = Tail(mqtt_workqueue)
    BY <1>2, QueueFacts DEF Waits
  <1>3. CASE PublishAccepted /\ mqtt_workqueue' = Submit(mqtt_workqueue, "publish")
    BY <1>3, QueueFacts, WorkNames DEF Waits
  <1>4. CASE ConnectWanted /\ mqtt_workqueue' = Submit(mqtt_workqueue, "connect")
    BY <1>4, QueueFacts, WorkNames DEF Waits
  <1> QED
    BY <1>1, <1>2, <1>3, <1>4, QueueChanges

\* The events that are neither a new connection nor a result.
Reports == {Event(type) : type \in EventTypes \ {"MQTT_CONNECTED"}}

\* They are events, and not of the two other types.
LEMMA ReportsFacts ==
    /\ Reports \subseteq Events /\ Event("MQTT_ERROR") \in Reports
    /\ Event("MQTT_DISCONNECTED") \in Reports
    /\ \A status \in Registrations : Event(status) \in Reports
    /\ \A e \in Reports : e.type \notin {"MQTT_CONNECTED", "PUBLISH_RESULT"}
  <1>1. \A type \in EventTypes \ {"MQTT_CONNECTED"} : Event(type) \in Reports
    BY DEF Reports
  <1>2. Reports \subseteq Events
    BY EventTypesOK DEF Reports
  <1>3. \A e \in Reports : e.type \in EventTypes \ {"MQTT_CONNECTED"}
    BY DEF Reports, Event
  <1> QED
    BY <1>1, <1>2, <1>3 DEF EventTypes, Registrations

\* All that the steps do to the event queue.
LEMMA EventsChange ==
    ASSUME [Next]_vars
    PROVE  \/ app_events' = app_events
           \/ EventWork /\ app_events # <<>>
              /\ (app_events' = Rest \/ \E e \in Reports : app_events' = Enqueue(Rest, e))
           \/ \E e \in Reports : app_events' = Enqueue(app_events, e)
           \/ CallbackPosts /\ app_events' = Enqueue(app_events, callback)
           \/ /\ PublishFails /\ JobIsActive
              /\ app_events' = Enqueue(app_events, Result(job.token, FALSE))
  <1> USE DEF Post
  <1>0. Event("MQTT_ERROR") \in Reports /\ \A status \in Registrations : Event(status) \in Reports
    BY ReportsFacts
  <1>1. CASE EventWork
    <2>1. /\ app_events # <<>>
          /\ app_events' = Rest \/ app_events' = Enqueue(Rest, Event("MQTT_ERROR"))
      BY <1>1, Zenon DEF EventWork, Handles, HandleLteLost, HandleLteConnected,
         ApplyConnect, HandleMqttConnected, HandleMqttDisconnected, HandleMqttError,
         HandlePublishResult
    <2> QED
      BY <1>0, <1>1, <2>1
  <1>2. CASE ReconnectWork \/ ServiceWork
    BY <1>0, <1>2, Zenon DEF ReconnectWork, ServiceWork, ApplyConnect, PublishWorkHandler,
       MeasurementWork
  <1>3. CASE Modem
    BY <1>0, <1>3, Zenon DEF Modem, LteEvent
  <1>4. CASE Mqtt /\ (Worker \/ PubackTimeout)
    BY <1>0, <1>4, Zenon DEF Worker, ConnectWork, ConnectReturns, ConnectFails,
       DisconnectWork, PublishWork, TimeoutWork, Write, PublishSent, PublishFails,
       PubackTimeout
  <1>5. CASE Mqtt /\ (HelperThread \/ Broker)
    BY <1>5, Zenon DEF HelperThread, OnConnack, OnConnackRefused, OnDisconnect, OnPuback,
       OnError, CallbackPosts, Broker, BrokerReceive, ConnectionLost, TrafficLost
  <1>6. CASE UNCHANGED vars
    BY <1>6, Zenon DEF vars, mqttVars
  <1> QED
    BY <1>1, <1>2, <1>3, <1>4, <1>5, <1>6 DEF Next, Mqtt, MqttStep

\* All that the steps do to the event that a callback has still to post.
LEMMA CallbackChanges ==
    ASSUME [Next]_vars
    PROVE  \/ callback' = callback \/ callback' = NoEvent \/ callback' \in Reports
           \/ OnConnack /\ callback' = Event("MQTT_CONNECTED")
           \/ /\ OnPuback /\ acks # <<>> /\ PubackExpected(Head(acks))
              /\ \E ok \in BOOLEAN : callback' = Result(active_publish_token, ok)
  <1> USE DEF helperVars
  <1>1. CASE EventWork \/ ReconnectWork \/ ServiceWork \/ Modem \/ UNCHANGED vars
    BY <1>1, Zenon DEF EventWork, HandleLteLost, HandleLteConnected, HandleMqttConnected,
       HandleMqttDisconnected, HandleMqttError, HandlePublishResult, ReconnectWork,
       ServiceWork, PublishWorkHandler, MeasurementWork, Modem, LteEvent, vars, mqttVars
  <1>2. CASE Mqtt /\ (Worker \/ PubackTimeout \/ Broker)
    BY <1>2, Zenon DEF Worker, ConnectWork, ConnectReturns, ConnectFails, DisconnectWork,
       PublishWork, TimeoutWork, Write, PublishSent, PublishFails, PubackTimeout, Broker,
       BrokerReceive, ConnectionLost, TrafficLost
  <1>3. CASE Mqtt /\ HelperThread
    <2>1. CASE OnPuback
      BY <2>1 DEF OnPuback
    <2>2. CASE ~OnPuback
      <3>1. \/ callback' = NoEvent \/ callback' = callback
            \/ OnConnack /\ callback' = Event("MQTT_CONNECTED")
            \/ callback' \in {Event("MQTT_ERROR"), Event("MQTT_DISCONNECTED")}
        BY <1>3, <2>2 DEF HelperThread, OnConnack, OnConnackRefused, OnDisconnect, OnError,
           CallbackPosts
      <3> QED
        BY <3>1, ReportsFacts
    <2> QED
      BY <2>1, <2>2
  <1> QED
    BY <1>1, <1>2, <1>3 DEF Next, Mqtt, MqttStep

-----------------------------------------------------------------------------
(* The types, one variable or group of variables at a time.                *)

\* The worker's queue holds each work once.
LEMMA QueueStep ==
    ASSUME IsQueue(mqtt_workqueue), [Next]_vars
    PROVE  IsQueue(mqtt_workqueue)'
  <1>1. IsQueue(NoTimeout)
    BY NoTimeoutEffect
  <1>2. \A work \in Works :
           IsQueue(Submit(mqtt_workqueue, work)) /\ IsQueue(Submit(NoTimeout, work))
    BY <1>1, SubmitEffect
  <1>3. mqtt_workqueue # <<>> => IsQueue(Tail(mqtt_workqueue))
    BY TakeEffect
  <1> QED
    BY <1>1, <1>2, <1>3, QueueChanges, WorkNames

\* The event queue holds at most QueueLength events.
LEMMA EventsStep ==
    ASSUME TypeOK, OnePublish, [Next]_vars
    PROVE  IsEvents(app_events)' /\ callback' \in Events \cup {NoEvent}
  <1>0. IsEvents(app_events) /\ callback \in Events \cup {NoEvent}
    BY DEF TypeOK, MqttTypeOK, IsEvents
  <1>1. app_events # <<>> => IsEvents(Rest)
    BY <1>0, RestType
  <1>2. \A e \in Events : /\ IsEvents(Enqueue(app_events, e))
                          /\ app_events # <<>> => IsEvents(Enqueue(Rest, e))
    BY <1>0, <1>1, EnqueueType
  <1>3. CallbackPosts => callback \in Events
    BY <1>0 DEF CallbackPosts
  <1>4. PublishFails /\ JobIsActive => Result(job.token, FALSE) \in Events
    <2>1. PublishFails => job.token \in 1 .. Tokens
      BY OrigMqttConstants DEF OnePublish, Sending, PublishFails, TypeOK, MqttTypeOK, Payload
    <2> QED
      BY <2>1, EventTypesOK
  <1>5. acks # <<>> /\ PubackExpected(Head(acks)) =>
            \A ok \in BOOLEAN : Result(active_publish_token, ok) \in Events
    <2>1. acks \in Seq(1 .. MsgIds) /\ (acks # <<>> => Head(acks) \in 1 .. MsgIds)
      BY HeadTailProperties DEF TypeOK, MqttTypeOK
    <2>2. acks # <<>> /\ PubackExpected(Head(acks)) => active_publish_token \in 1 .. Tokens
      BY <2>1 DEF PubackExpected, OnePublish, TypeOK, MqttTypeOK, Payload
    <2> QED
      BY <2>2, EventTypesOK
  <1>6. IsEvents(app_events)'
    BY <1>0, <1>1, <1>2, <1>3, <1>4, EventsChange, ReportsFacts
  <1>7. callback' \in Events \cup {NoEvent}
    <2>1. Event("MQTT_CONNECTED") \in Events
      BY EventTypesOK DEF EventTypes
    <2> QED
      BY <1>0, <1>5, <2>1, CallbackChanges, ReportsFacts
  <1> QED
    BY <1>6, <1>7

\* The types of the other variables of the MQTT client, of the connection and of
\* the broker.
ClientTypeOK ==
    /\ current \subseteq Generations
    /\ active_publish_id \in 0 .. MsgIds /\ active_publish_token \in 0 .. Tokens
    /\ publish \in Payload
    /\ next_publish_token \in 0 .. Tokens
    /\ worker \in {"idle", "connecting", "sending", "written"}
    /\ job \in [id : 0 .. MsgIds, token : 0 .. Tokens]
    /\ message_id \in 1 .. MsgIds
    /\ helper \in {"closed", "connecting", "open", "closing"}
    /\ up \in Seq(Message) /\ acks \in Seq(1 .. MsgIds) /\ stored \subseteq Readings
    /\ host_seq \in Seqs \cup {NoSeq} /\ host_bd \in Seqs \cup {NoSeq}
    /\ faults \in 0 .. MaxFaults

\* The types of the variables of the service and of the controller that are no
\* flags.
AppTypeOK ==
    /\ buffer \in Seq(Readings) /\ Len(buffer) <= Capacity
    /\ next_seq \in Seqs /\ bd_seq \in Seqs
    /\ pending_measurement_count \in 0 .. Capacity
    /\ pending_publish_token \in 0 .. Tokens
    /\ reconnect \in ReconnectState
    /\ led \in Statuses /\ modem \in Registrations

\* The parts of the types that the proofs below keep apart.
LEMMA TypeParts ==
    TypeOK <=> /\ Flags /\ IsQueue(mqtt_workqueue) /\ IsEvents(app_events)
               /\ callback \in Events \cup {NoEvent}
               /\ ClientTypeOK /\ AppTypeOK
  BY DEF TypeOK, MqttTypeOK, ServiceTypeOK, Flags, IsQueue, IsEvents, ClientTypeOK, AppTypeOK

LEMMA HeldType == AppTypeOK => Held \subseteq Readings
  BY DEF AppTypeOK, Held, Oldest

LEMMA FaultType ==
    faults \in 0 .. MaxFaults => (Fault \/ UNCHANGED faults => faults' \in 0 .. MaxFaults)
  BY OrigMqttConstants DEF Fault

\* The types of the MQTT client, the connection and the broker are kept.
LEMMA ClientStep ==
    ASSUME TypeOK, OnePublish, [Next]_vars
    PROVE  ClientTypeOK'
  <1> USE DEF ClientTypeOK, publishState, workerVars, helperVars, brokerVars,
              ForgetPublish, MqttDisconnect, NewGeneration
  <1>0. ClientTypeOK /\ AppTypeOK /\ 0 \in 0 .. MsgIds
    BY TypeParts, OrigMqttConstants
  <1>a. Fault \/ UNCHANGED faults => faults' \in 0 .. MaxFaults
    BY <1>0, FaultType
  <1>b. {"connect", "publish", "active", "job"} \subseteq Generations
    BY DEF Generations
  <1> HIDE DEF Fault
  <1>1. CASE EventWork
    <2>1. /\ current' = current \/ current' = {}
          /\ active_publish_id' = active_publish_id \/ active_publish_id' = 0
          /\ UNCHANGED <<active_publish_token, publish, next_publish_token, worker, job,
                         message_id, helper, brokerVars, faults>>
      BY <1>1 DEF EventWork, HandleLteLost, MqttLteLost, HandleLteConnected,
         HandleMqttConnected, HandleMqttDisconnected, HandleMqttError, HandlePublishResult
    <2> QED
      BY <2>1, <1>0
  <1>2. CASE ReconnectWork \/ Modem
    BY <1>2, <1>0, <1>a DEF ReconnectWork, Modem, LteEvent
  <1>3. CASE ServiceWork
    <2>1. CASE \E r \in Readings : MeasurementWork(r)
      BY <1>0, <2>1 DEF MeasurementWork
    <2>2. CASE PublishWorkHandler
      <3>1. NextToken \in 0 .. Tokens
        BY <1>0, NextTokenType
      <3>2. [token |-> NextToken, kind |-> "NBIRTH", number |-> bd_seq, data |-> {}] \in Payload
        BY <1>0, <3>1 DEF AppTypeOK, Payload
      <3>3. [token |-> NextToken, kind |-> "NDATA", number |-> next_seq, data |-> Held] \in Payload
        BY <1>0, <3>1, HeldType DEF AppTypeOK, Payload
      <3> HIDE DEF ClientTypeOK
      <3>4. /\ publish' \in Payload \/ publish' = publish
            /\ \/ UNCHANGED <<next_publish_token, current>>
               \/ next_publish_token' = NextToken /\ current' = current \cup {"publish"}
        BY <2>2, <3>2, <3>3 DEF PublishWorkHandler, Published, PublishUnchanged, MqttPublish
      <3>5. /\ Fault \/ faults' = faults
            /\ UNCHANGED <<active_publish_id, active_publish_token, worker, job,
                           helperVars, brokerVars>>
        BY <2>2 DEF PublishWorkHandler
      <3> QED
        BY <3>1, <3>4, <3>5, <1>0, <1>a, <1>b DEF ClientTypeOK
    <2> QED
      BY <1>3, <2>1, <2>2 DEF ServiceWork
  <1>4. CASE ConnectWork \/ ConnectReturns \/ ConnectFails \/ DisconnectWork
    BY <1>4, <1>0, <1>a, <1>b DEF ConnectWork, ConnectReturns, ConnectFails, DisconnectWork
  <1>5. CASE PublishWork
    <2>1. NextMessageId \in 1 .. MsgIds /\ publish.token \in 0 .. Tokens
      BY <1>0, NextIdType DEF Payload
    <2> QED
      BY <1>5, <2>1, <1>0, <1>b DEF PublishWork
  <1>6. CASE TimeoutWork
    BY <1>6, <1>0, <1>b DEF TimeoutWork
  <1>7. CASE Write
    <2>1. job.id \in 1 .. MsgIds
      BY <1>7, <1>0 DEF Write, OnePublish, Sending
    <2>2. [id |-> job.id, kind |-> publish.kind, number |-> publish.number,
           data |-> publish.data] \in Message
      BY <2>1, <1>0 DEF Payload, Message
    <2>3. up' \in Seq(Message)
      BY <1>7, <2>2, <1>0 DEF Write
    <2> QED
      BY <1>7, <2>3, <1>0 DEF Write
  <1>8. CASE PublishSent \/ PublishFails \/ PubackTimeout
    BY <1>8, <1>0, <1>a DEF PublishSent, PublishFails, PubackTimeout
  <1>9. CASE OnConnack \/ OnConnackRefused \/ OnDisconnect \/ OnError \/ CallbackPosts
    <2>1. CASE OnConnack
      BY <2>1, <1>0 DEF OnConnack
    <2>2. CASE OnConnackRefused
      BY <2>2, <1>0, <1>a DEF OnConnackRefused
    <2>3. CASE OnDisconnect
      BY <2>3, <1>0 DEF OnDisconnect
    <2>4. CASE OnError \/ CallbackPosts
      BY <2>4, <1>0, <1>a DEF OnError, CallbackPosts
    <2> QED
      BY <1>9, <2>1, <2>2, <2>3, <2>4
  <1>10. CASE OnPuback
    <2>1. acks # <<>> => Tail(acks) \in Seq(1 .. MsgIds)
      BY <1>0, HeadTailProperties
    <2> QED
      BY <1>10, <2>1, <1>0, <1>a DEF OnPuback
  <1>11. CASE BrokerReceive
    <2>1. Head(up) \in Message /\ up' \in Seq(Message)
      BY <1>11, <1>0, HeadTailProperties DEF BrokerReceive
    <2>2. /\ Head(up).id \in 1 .. MsgIds /\ Head(up).data \subseteq Readings
          /\ Head(up).number \in Seqs
      BY <2>1 DEF Message
    <2>3. acks' \in Seq(1 .. MsgIds)
      <3>1. Append(acks, Head(up).id) \in Seq(1 .. MsgIds)
        BY <2>2, <1>0
      <3> QED
        BY <1>11, <3>1, <1>0 DEF BrokerReceive
    <2>4. stored' \subseteq Readings
      BY <1>11, <2>2, <1>0 DEF BrokerReceive
    <2>5. host_seq' \in Seqs \cup {NoSeq} /\ host_bd' \in Seqs \cup {NoSeq}
      BY <1>11, <2>2, <1>0, NextSeqFacts DEF BrokerReceive
    <2> QED
      BY <1>11, <2>1, <2>3, <2>4, <2>5, <1>0 DEF BrokerReceive
  <1>12. CASE ConnectionLost \/ TrafficLost
    <2>1. CASE ConnectionLost
      BY <2>1, <1>0, <1>a DEF ConnectionLost
    <2>2. CASE TrafficLost
      BY <2>2, <1>0, <1>a DEF TrafficLost
    <2> QED
      BY <1>12, <2>1, <2>2
  <1>13. CASE UNCHANGED vars
    BY <1>13, <1>0 DEF vars, mqttVars
  <1> QED
    BY <1>1, <1>2, <1>3, <1>4, <1>5, <1>6, <1>7, <1>8, <1>9, <1>10, <1>11, <1>12, <1>13
       DEF Next, Mqtt, MqttStep, Worker, HelperThread, Broker

\* aitsm_reconnect_handle answers with a state (mqtt_reconnect.c:16-61).
LEMMA ReconnectType ==
    ASSUME NEW s \in ReconnectState
    PROVE  /\ HandleLteUp(s).state \in ReconnectState
           /\ HandleLteDown(s).state \in ReconnectState
           /\ HandleMqttUp(s).state \in ReconnectState
           /\ HandleFailure(s).state \in ReconnectState
           /\ HandleTimer(s).state \in ReconnectState
  <1>1. Doubled(s.next_delay) \in InitialDelay .. MaxDelay
    BY DelayAssumption DEF Doubled, ReconnectState
  <1> USE DelayAssumption DEF Answer, ReconnectState, Phases
  <1>2. HandleLteUp(s).state \in ReconnectState
    BY DEF HandleLteUp
  <1>3. HandleLteDown(s).state \in ReconnectState
    BY DEF HandleLteDown, ReconnectInit
  <1>4. HandleMqttUp(s).state \in ReconnectState
    <2>1. InitialDelay \in InitialDelay .. MaxDelay /\ "CONNECTED" \in Phases
      OBVIOUS
    <2>2. [s EXCEPT !.phase = "CONNECTED", !.next_delay = InitialDelay] \in ReconnectState
      BY <2>1
    <2> QED
      BY <2>2 DEF HandleMqttUp
  <1>5. HandleFailure(s).state \in ReconnectState
    BY <1>1 DEF HandleFailure
  <1>6. HandleTimer(s).state \in ReconnectState
    BY DEF HandleTimer
  <1> QED
    BY <1>2, <1>3, <1>4, <1>5, <1>6

\* The types of the service and the controller are kept; the buffer never overflows.
LEMMA AppStep ==
    ASSUME TypeOK, [Next]_vars
    PROVE  AppTypeOK'
  <1> USE DEF AppTypeOK, serviceVars, pendingVars
  <1>0. AppTypeOK
    BY TypeParts
  <1>1. CASE HandlePublishResult
    <2>1. 1 \in Seqs /\ NextSeq(next_seq) \in Seqs
      BY <1>0, NextSeqFacts, NextSeqType
    <2>2. \A n \in 1 .. Len(buffer) :
              /\ SubSeq(buffer, n + 1, Len(buffer)) \in Seq(Readings)
              /\ Len(SubSeq(buffer, n + 1, Len(buffer))) <= Capacity
      BY <1>0, CapacityAssumption
    <2> HIDE DEF AppTypeOK
    <2>3. /\ \/ buffer' = buffer
             \/ \E n \in 1 .. Len(buffer) : buffer' = SubSeq(buffer, n + 1, Len(buffer))
          /\ next_seq' \in {1, next_seq, NextSeq(next_seq)}
          /\ pending_measurement_count' \in {0, pending_measurement_count}
          /\ UNCHANGED <<bd_seq, pending_publish_token, reconnect, led, modem>>
      BY <1>1, Zenon DEF HandlePublishResult, PublishResult, BirthResult, DataResult, Commit
    <2>4. buffer' \in Seq(Readings) /\ Len(buffer') <= Capacity
      BY <2>2, <2>3, <1>0 DEF AppTypeOK
    <2>5. next_seq' \in Seqs /\ pending_measurement_count' \in 0 .. Capacity
      BY <2>1, <2>3, <1>0, CapacityAssumption DEF AppTypeOK
    <2> QED
      BY <2>3, <2>4, <2>5, <1>0 DEF AppTypeOK
  <1>2. CASE EventWork /\ ~HandlePublishResult
    <2>1. NextSeq(bd_seq) \in Seqs
      BY <1>0, NextSeqType
    <2>2. /\ UNCHANGED <<buffer, next_seq, pendingVars, modem>>
          /\ bd_seq' \in {bd_seq, NextSeq(bd_seq)}
          /\ led' \in {led} \cup Statuses
      BY <1>2 DEF EventWork, HandleLteLost, HandleLteConnected, HandleMqttConnected,
         HandleMqttDisconnected, HandleMqttError, ServiceConnected, ServiceDisconnected,
         Statuses
    <2>3. reconnect' \in ReconnectState
      BY <1>0, <1>2, ReconnectType DEF EventWork, HandleLteLost, HandleLteConnected,
         HandleMqttConnected, HandleMqttDisconnected, HandleMqttError, Apply, ApplyConnect
    <2> QED
      BY <2>1, <2>2, <2>3, <1>0
  <1>3. CASE ReconnectWork
    BY <1>0, <1>3, ReconnectType DEF ReconnectWork, ApplyConnect
  <1>4. CASE PublishWorkHandler /\ ServiceWork
    <2>1. NextToken \in 0 .. Tokens /\ Len(buffer) \in 0 .. Capacity
      BY <1>0, NextTokenType, CapacityAssumption DEF TypeOK, MqttTypeOK
    <2>2. UNCHANGED <<buffer, next_seq, bd_seq, reconnect, led, modem>>
      BY <1>4, Zenon DEF PublishWorkHandler, ServiceWork, Published, PublishUnchanged
    <2>3. /\ pending_publish_token' \in {pending_publish_token, NextToken}
          /\ pending_measurement_count' \in {pending_measurement_count, Len(buffer)}
      BY <1>4, Zenon DEF PublishWorkHandler, Published, PublishUnchanged
    <2> QED
      BY <1>0, <2>1, <2>2, <2>3
  <1>5. CASE ServiceWork /\ \E r \in Readings : MeasurementWork(r)
    <2>1. PICK r \in Readings : MeasurementWork(r)
      BY <1>5
    <2>2. buffer' \in Seq(Readings) /\ Len(buffer') <= Capacity
      BY <1>0, <2>1, CapacityAssumption DEF MeasurementWork, HasCapacity
    <2> QED
      BY <1>0, <1>5, <2>1, <2>2 DEF MeasurementWork, ServiceWork
  <1>6. CASE Modem
    BY <1>0, <1>6 DEF Modem, LteEvent
  <1>7. CASE Mqtt \/ UNCHANGED vars
    BY <1>0, <1>7 DEF Mqtt, vars
  <1> QED
    BY <1>1, <1>2, <1>3, <1>4, <1>5, <1>6, <1>7 DEF Next, EventWork, ServiceWork

\* All types are kept.
LEMMA TypeStep ==
    ASSUME TypeOK, OnePublish, [Next]_vars
    PROVE  TypeOK'
  <1>1. Flags'
    BY TypeParts, FlagsStep
  <1>2. /\ IsQueue(mqtt_workqueue)' /\ IsEvents(app_events)'
        /\ callback' \in Events \cup {NoEvent} /\ ClientTypeOK' /\ AppTypeOK'
    BY TypeParts, QueueStep, EventsStep, ClientStep, AppStep
  <1> QED
    BY <1>1, <1>2 DEF TypeOK, MqttTypeOK, ServiceTypeOK, Flags, IsQueue, IsEvents,
       ClientTypeOK, AppTypeOK

\* A payload, its token and its id stay together.
LEMMA OnePublishStep ==
    ASSUME TypeOK, OnePublish, [Next]_vars
    PROVE  OnePublish'
  <1> USE DEF OnePublish, Sending, publishState, workerVars, helperVars
  <1>0. /\ IsQueue(mqtt_workqueue) /\ publish_pending \in BOOLEAN
        /\ message_id \in 1 .. MsgIds /\ active_publish_id \in 0 .. MsgIds
        /\ next_publish_token \in 0 .. Tokens
    BY TypeParts DEF ClientTypeOK, Flags
  <1>1. CASE EventWork \/ ReconnectWork
    <2>1. Waits("publish")' <=> Waits("publish")
      BY <1>0, <1>1, QueueFacts, WorkNames DEF Waits, EventWork, ReconnectWork,
         HandleLteLost, MqttLteLost, HandleLteConnected, HandleMqttConnected,
         HandleMqttDisconnected, HandleMqttError, HandlePublishResult, MqttDisconnect,
         ApplyConnect, MqttConnect
    <2>2. /\ active_publish_id' \in {0, active_publish_id}
          /\ UNCHANGED <<publish_pending, active_publish_token, publish,
                         next_publish_token, worker, job, message_id>>
      BY <1>1 DEF EventWork, ReconnectWork, HandleLteLost, MqttLteLost,
         HandleLteConnected, HandleMqttConnected, HandleMqttDisconnected,
         HandleMqttError, HandlePublishResult, MqttDisconnect, ForgetPublish
    <2> QED
      BY <2>1, <2>2, <1>0
  <1>2. CASE PublishAccepted
    <2>1. Waits("publish")'
      BY <1>0, <1>2, QueueFacts, WorkNames DEF Waits, PublishAccepted, Published, MqttPublish
    <2>2. ~publish_pending /\ active_publish_id = 0 /\ NextToken # 0
      BY <1>0, <1>2, NextTokenType DEF PublishAccepted, PublishRefused
    <2>3. UNCHANGED <<active_publish_id, active_publish_token, worker, job, message_id>>
      BY <1>2 DEF PublishAccepted, PublishWorkHandler
    <2> QED
      BY <1>2, <2>1, <2>2, <2>3 DEF PublishAccepted, Published, MqttPublish
  <1>3. CASE \/ PublishWorkHandler /\ PublishUnchanged
             \/ \E r \in Readings : MeasurementWork(r)
             \/ Modem \/ UNCHANGED vars
    <2>1. UNCHANGED <<publishState, workerVars, message_id>>
      BY <1>3 DEF PublishWorkHandler, PublishUnchanged, MeasurementWork, Modem, LteEvent,
         vars, mqttVars
    <2> QED
      BY <2>1 DEF Waits
  <1>4. CASE ConnectWork \/ DisconnectWork
    <2>1. Waits("publish")' <=> Waits("publish")
      <3>1. /\ Head(mqtt_workqueue) # "publish" /\ mqtt_workqueue # <<>>
            /\ mqtt_workqueue' = Tail(mqtt_workqueue)
        BY <1>4 DEF ConnectWork, DisconnectWork, Take1
      <3> QED
        BY <3>1, <1>0, QueueFacts DEF Waits
    <2> QED
      BY <1>4, <2>1 DEF ConnectWork, DisconnectWork, Take1
  <1>5. CASE PublishWork
    <2>1. ~Waits("publish")' /\ Waits("publish")
      BY <1>0, <1>5, QueueFacts DEF Waits, PublishWork, Take1
    <2> QED
      BY <1>5, <2>1, <1>0 DEF PublishWork, Take1
  <1>6. CASE TimeoutWork
    <2>1. Waits("publish")' <=> Waits("publish")
      BY <1>0, <1>6, QueueFacts DEF Waits, TimeoutWork, Take1
    <2> QED
      BY <1>6, <2>1, <1>0 DEF TimeoutWork, Take1
  <1>7. CASE ConnectReturns \/ ConnectFails \/ Write
    <2>1. UNCHANGED <<publishState, mqtt_workqueue, job, message_id>>
      BY <1>7 DEF ConnectReturns, ConnectFails, Write
    <2>2. Sending' <=> Sending
      BY <1>7 DEF ConnectReturns, ConnectFails, Write
    <2> QED
      BY <2>1, <2>2 DEF Waits
  <1>8. CASE PublishSent
    BY <1>8, <1>0 DEF PublishSent, Waits
  <1>9. CASE PublishFails
    <2>1. Waits("publish")' <=> Waits("publish")
      BY <1>0, <1>9, QueueFacts DEF Waits, PublishFails, ForgetPublish
    <2> QED
      BY <1>9, <2>1, <1>0 DEF PublishFails, ForgetPublish
  <1>10. CASE Mqtt /\ (PubackTimeout \/ HelperThread \/ Broker)
    <2>1. Waits("publish")' <=> Waits("publish")
      <3>1. \/ mqtt_workqueue' = mqtt_workqueue \/ mqtt_workqueue' = NoTimeout
            \/ mqtt_workqueue' = Submit(NoTimeout, "disconnect")
            \/ mqtt_workqueue' = Submit(mqtt_workqueue, "timeout")
        BY <1>10, Zenon DEF PubackTimeout, HelperThread, OnConnack, OnConnackRefused,
           OnDisconnect, OnPuback, OnError, CallbackPosts, Broker, BrokerReceive,
           ConnectionLost, TrafficLost, MqttDisconnect, ForgetPublish
      <3> QED
        BY <3>1, <1>0, QueueFacts, WorkNames DEF Waits
    <2>2. /\ active_publish_id' \in {0, active_publish_id}
          /\ UNCHANGED <<publish_pending, active_publish_token, publish,
                         next_publish_token, worker, job, message_id>>
      BY <1>10 DEF PubackTimeout, HelperThread, OnConnack, OnConnackRefused,
         OnDisconnect, OnPuback, OnError, CallbackPosts, Broker, BrokerReceive,
         ConnectionLost, TrafficLost, MqttDisconnect, ForgetPublish
    <2> QED
      BY <2>1, <2>2, <1>0
  <1> QED
    BY <1>1, <1>2, <1>3, <1>4, <1>5, <1>6, <1>7, <1>8, <1>9, <1>10, PublishCases
       DEF Next, ServiceWork, Mqtt, MqttStep, Worker

\* The firmware starts with the types, and with nothing to publish.
LEMMA InitTypes == Init => TypeOK /\ OnePublish
  <1> SUFFICES ASSUME Init PROVE TypeOK /\ OnePublish
    OBVIOUS
  <1> USE DEF Init, MqttInit, ServiceInit
  <1>1. Flags
    BY Zenon DEF Flags
  <1>2. IsQueue(mqtt_workqueue) /\ IsEvents(app_events) /\ callback \in Events \cup {NoEvent}
    BY OrigMqttConstants DEF IsQueue, IsEvents, IsInjective
  <1>3. ClientTypeOK
    BY OrigMqttConstants DEF ClientTypeOK, Generations, Payload, Seqs, NoSeq
  <1>4. AppTypeOK
    BY OrigMqttConstants, CapacityAssumption, DelayAssumption
       DEF AppTypeOK, Seqs, ReconnectInit, ReconnectState, Phases, Statuses, Registrations
  <1>5. OnePublish
    BY OrigMqttConstants DEF OnePublish, Sending, Waits, Contains
  <1> QED
    BY <1>1, <1>2, <1>3, <1>4, <1>5, TypeParts

\* The variables have their types, and whatever the MQTT client keeps belongs to
\* one publish (mqtt_client.c:43-48).
THEOREM TypeCorrect == Spec => [](TypeOK /\ OnePublish)
  <1>1. TypeOK /\ OnePublish /\ [Next]_vars => (TypeOK /\ OnePublish)'
    BY TypeStep, OnePublishStep
  <1> QED
    BY InitTypes, <1>1, PTL DEF Spec

\* The types alone, as the runs check them.
THEOREM TypesHold == Spec => []TypeOK
  BY TypeCorrect, PTL

\* The payload that the worker may send again stays as it is: a new one is refused
\* as long as a write or a PUBACK is outstanding (mqtt_client.c:276-293).
THEOREM PayloadIsKept == Spec => PayloadKept
  <1>1. ASSUME TypeOK, OnePublish, [Next]_vars
        PROVE  [active_publish_id # 0 \/ worker \in {"sending", "written"}
                    => publish' = publish]_vars
    <2> SUFFICES ASSUME active_publish_id # 0 \/ Sending
                 PROVE  publish' = publish
      BY DEF Sending
    <2> USE DEF publishState
    <2>1. PublishRefused
      BY <1>1, TypeParts DEF OnePublish, PublishRefused, Sending, Flags
    <2>2. CASE ServiceWork
      BY <2>1, <2>2 DEF ServiceWork, PublishWorkHandler, PublishUnchanged, MeasurementWork
    <2>3. CASE EventWork \/ ReconnectWork \/ Modem
      BY <2>3 DEF EventWork, HandleLteLost, HandleLteConnected, HandleMqttConnected,
         HandleMqttDisconnected, HandleMqttError, HandlePublishResult, ReconnectWork,
         Modem, LteEvent
    <2>4. CASE Mqtt /\ (Worker \/ PubackTimeout)
      BY <2>4 DEF Worker, ConnectWork, ConnectReturns, ConnectFails, DisconnectWork,
         PublishWork, TimeoutWork, Write, PublishSent, PublishFails, PubackTimeout
    <2>5. CASE Mqtt /\ (HelperThread \/ Broker)
      BY <2>5 DEF HelperThread, OnConnack, OnConnackRefused, OnDisconnect, OnPuback,
         OnError, CallbackPosts, Broker, BrokerReceive, ConnectionLost, TrafficLost
    <2>6. CASE UNCHANGED vars
      BY <2>6 DEF vars, mqttVars
    <2> QED
      BY <1>1, <2>2, <2>3, <2>4, <2>5, <2>6 DEF Next, Mqtt, MqttStep
  <1> QED
    BY <1>1, TypeCorrect, PTL DEF Spec, PayloadKept
=============================================================================
