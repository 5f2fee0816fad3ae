--------------------------- MODULE SimpleApp_proofs ---------------------------
(* Theorems about SimpleApp for every value of its constants.              *)
EXTENDS SimpleApp, TLAPS

\* aitsm_sparkplug_next_seq gives a sequence number (sparkplug.c:159-162).
LEMMA NextSeqType ==
    ASSUME NEW n \in Seqs
    PROVE  NextSeq(n) \in Seqs
  BY MqttConstants DEF NextSeq, Seqs

\* The first NDATA of a session follows its NBIRTH (main.c:153-154).
LEMMA NextSeqOfBirth == NextSeq(0) = 1
  <1>1. SeqModulo \in Nat /\ SeqModulo > 1
    BY MqttConstants
  <1>2. 1 % SeqModulo = 1
    BY <1>1
  <1>3. 0 + 1 = 1
    OBVIOUS
  <1> QED
    BY <1>2, <1>3, Zenon DEF NextSeq

\* The id that mqtt_helper hands out next is never 0, which stands for no id
\* (mqtt_client.c:29-30).
LEMMA NextIdType ==
    ASSUME message_id \in 1 .. MsgIds
    PROVE  NextMessageId \in 1 .. MsgIds
  BY MqttConstants DEF NextMessageId

\* What is left of the buffer after a removal still fits (batch.c:44-51).
LEMMA BatchRemoveType ==
    ASSUME batch \in Seq(Readings), NEW n \in Nat
    PROVE  BatchRemove(n) \in Seq(Readings) /\ Len(BatchRemove(n)) <= Len(batch)
  BY DEF BatchRemove

\* A reading is added only when there is room for it (batch.c:19-27).
LEMMA BatchAddType ==
    ASSUME batch \in Seq(Readings), Len(batch) <= BatchCapacity, NEW r \in Readings
    PROVE  BatchAdd(r) \in Seq(Readings) /\ Len(BatchAdd(r)) <= BatchCapacity
  BY AppConstants DEF BatchAdd

\* What publish_next hands to the broker is a message (main.c:236-262).
LEMMA PayloadType ==
    ASSUME TypeOK, birth_acknowledged => sent_count <= Len(batch)
    PROVE  Payload \in Message
  BY DEF Payload, SentReadings, Message, TypeOK, MqttTypeOK

\* The flags, apart from the rest of TypeOK.
Flags ==
    /\ birth_acknowledged \in BOOLEAN
    /\ awaiting_puback \in BOOLEAN
    /\ puback_overdue \in BOOLEAN
    /\ reconnect_due \in BOOLEAN
    /\ registered \in BOOLEAN

LEMMA InitTypeOK == Init => TypeOK
  <1> SUFFICES ASSUME Init PROVE TypeOK
    OBVIOUS
  <1>1. MqttTypeOK
    BY MqttConstants DEF Init, MqttInit, MqttTypeOK, Seqs, NoSeq
  <1>2. batch \in Seq(Readings) /\ Len(batch) = 0
    BY DEF Init
  <1>3. measurement_queue \in Seq(Readings) /\ Len(measurement_queue) = 0
    BY DEF Init
  <1>4. Flags
    BY Zenon DEF Init, Flags
  <1> QED
    BY <1>1, <1>2, <1>3, <1>4, MqttConstants, AppConstants
       DEF Init, TypeOK, Flags, Seqs, States, Steps, Colors

USE DEF Post, Fault, Goto, At

\* No step makes a flag anything but a flag.
LEMMA FlagsStep == Flags /\ [Next]_vars => Flags'
  <1> SUFFICES ASSUME Flags, [Next]_vars PROVE Flags'
    OBVIOUS
  <1> USE DEF Flags, sessionVars, otherThreads
  <1>1. CASE HandlePuback
    BY <1>1, Zenon DEF HandlePuback, Acknowledge
  <1>2. CASE CheckPubackTimeout
    BY <1>2, Zenon DEF CheckPubackTimeout
  <1>3. CASE UpdateConnection
    BY <1>3, Zenon DEF UpdateConnection, EndSession, ScheduleReconnect
  <1>4. CASE Connect
    BY <1>4, Zenon DEF Connect, ScheduleReconnect
  <1>5. CASE ConnectReturns
    BY <1>5, Zenon DEF ConnectReturns
  <1>6. CASE PublishNext
    BY <1>6, Zenon DEF PublishNext
  <1>7. CASE Sent
    BY <1>7, Zenon DEF Sent
  <1>8. CASE UpdateLed \/ ChooseWakeup \/ WakeUp \/ CollectMeasurement \/ QueueEmpty
             \/ NothingToPublish \/ Send
    BY <1>8, Zenon DEF UpdateLed, ChooseWakeup, WakeUp, CollectMeasurement, QueueEmpty,
       NothingToPublish, Send
  <1>9. CASE Sampler
    BY <1>9, Zenon DEF Sampler, TimeReady, Measure, PostMeasurement
  <1>10. CASE Lte
    BY <1>10, Zenon DEF Lte, Registered, NetworkLost, StatusRepeated, NetworkHandler
  <1>11. CASE Clock
    BY <1>11, Zenon DEF Clock, PubackDeadline, ReconnectDue
  <1>12. CASE MqttThread
    BY <1>12, Zenon DEF MqttThread
  <1>13. CASE UNCHANGED vars
    BY <1>13, Zenon DEF vars
  <1> QED
    BY <1>1, <1>2, <1>3, <1>4, <1>5, <1>6, <1>7, <1>8, <1>9, <1>10, <1>11, <1>12,
       <1>13, Zenon DEF Next, AppThread

\* TypeOK is inductive once it is known that an NDATA about to be sent is all of
\* the buffer: only then is its data a set of readings.
SendsWhatIsThere == pc = "send" /\ birth_acknowledged => sent_count = Len(batch)

LEMMA AppThreadTypeOK ==
    ASSUME TypeOK, Flags', SendsWhatIsThere, AppThread
    PROVE  TypeOK'
  <1> USE DEF TypeOK, MqttTypeOK, Flags, mqttVars, loopVars, sessionVars, otherThreads, Steps
  <1>1. CASE UpdateLed
    BY <1>1 DEF UpdateLed, LedColor, Colors
  <1>2. CASE ChooseWakeup
    BY <1>2 DEF ChooseWakeup, NextWakeup
  <1>3. CASE WakeUp
    BY <1>3 DEF WakeUp
  <1>4. CASE CollectMeasurement
    <2>1. Head(measurement_queue) \in Readings
      BY <1>4 DEF CollectMeasurement
    <2>2. batch' \in Seq(Readings) /\ Len(batch') <= BatchCapacity
      BY <1>4, <2>1, BatchAddType DEF CollectMeasurement
    <2>3. measurement_queue' \in Seq(Readings) /\ Len(measurement_queue') <= QueueLength
      BY <1>4, AppConstants DEF CollectMeasurement
    <2> QED
      BY <1>4, <2>2, <2>3 DEF CollectMeasurement
  <1>5. CASE QueueEmpty
    BY <1>5 DEF QueueEmpty
  <1>6. CASE HandlePuback
    <2>1. batch' \in Seq(Readings) /\ Len(batch') <= BatchCapacity
      <3>1. sent_count \in Nat /\ Len(batch) \in Nat
        BY AppConstants
      <3>2. BatchRemove(sent_count) \in Seq(Readings) /\ Len(BatchRemove(sent_count)) <= Len(batch)
        BY <3>1, BatchRemoveType
      <3> HIDE DEF TypeOK, Flags
      <3>3. batch' = batch \/ batch' = BatchRemove(sent_count)
        BY <1>6, Zenon DEF HandlePuback, Acknowledge
      <3> QED
        BY <3>1, <3>2, <3>3, AppConstants DEF TypeOK
    <2>2. seq' \in Seqs
      <3>1. 1 \in Seqs
        BY MqttConstants DEF Seqs
      <3> QED
        BY <1>6, <3>1, NextSeqType, Zenon DEF HandlePuback, Acknowledge
    <2> QED
      BY <1>6, <2>1, <2>2 DEF HandlePuback
  <1>7. CASE CheckPubackTimeout
    <2>1. /\ mqtt_state' \in States
          /\ helper' \in {"closed", "connecting", "open", "closing"}
          /\ app_events' \subseteq Events
      BY <1>7 DEF CheckPubackTimeout, Disconnect, Events, States
    <2> QED
      BY <1>7, <2>1 DEF CheckPubackTimeout
  <1>8. CASE UpdateConnection
    <2>1. mqtt_state' \in States /\ bd_seq' \in Seqs
      BY <1>8, NextSeqType DEF UpdateConnection, EndSession, ScheduleReconnect, States
    <2> QED
      BY <1>8, <2>1 DEF UpdateConnection
  <1>9. CASE Connect
    <2>1. faults' \in 0 .. MaxFaults
      BY <1>9, MqttConstants DEF Connect, HelperConnect, HelperConnectFails
    <2>2. /\ pc' \in Steps /\ mqtt_state' \in States
          /\ helper' \in {"closed", "connecting", "open", "closing"}
      BY <1>9 DEF Connect, HelperConnect, HelperConnectFails, ScheduleReconnect, States
    <2> QED
      BY <1>9, <2>1, <2>2 DEF Connect
  <1>10. CASE ConnectReturns
    BY <1>10 DEF ConnectReturns, States
  <1>11. CASE NothingToPublish
    BY <1>11 DEF NothingToPublish
  <1>12. CASE PublishNext
    BY <1>12, NextIdType, AppConstants DEF PublishNext, ClaimPending, PublishBusy
  <1>13. CASE Send
    <2>1. Payload \in Message
      BY <1>13, PayloadType, AppConstants DEF SendsWhatIsThere, Send
    <2>2. faults' \in 0 .. MaxFaults
      BY <1>13, MqttConstants DEF Send, HelperPublish, HelperPublishFails
    <2>3. up' \subseteq Message
      BY <1>13, <2>1 DEF Send, HelperPublish, HelperPublishFails
    <2>4. pc' \in Steps /\ pending_message_id' \in 0 .. MsgIds
      BY <1>13, MqttConstants DEF Send, HelperPublish, HelperPublishFails
    <2> QED
      BY <1>13, <2>2, <2>3, <2>4 DEF Send
  <1>14. CASE Sent
    BY <1>14 DEF Sent
  <1> QED
    BY <1>1, <1>2, <1>3, <1>4, <1>5, <1>6, <1>7, <1>8, <1>9, <1>10, <1>11,
       <1>12, <1>13, <1>14 DEF AppThread

LEMMA OthersTypeOK ==
    ASSUME TypeOK, Flags', Sampler \/ Lte \/ Clock \/ MqttThread \/ UNCHANGED vars
    PROVE  TypeOK'
  <1> USE DEF TypeOK, MqttTypeOK, Flags, mqttVars, loopVars, sessionVars, otherThreads
  <1>1. CASE TimeReady \/ PostMeasurement
    BY <1>1 DEF TimeReady, PostMeasurement, Events
  <1>2. ASSUME NEW r \in Readings, Measure(r) PROVE TypeOK'
    BY <1>2, AppConstants DEF Measure
  <1>3. CASE Lte
    <2>1. \/ UNCHANGED faults
          \/ faults < MaxFaults /\ faults' = faults + 1
      BY <1>3, Zenon DEF Lte, Registered, NetworkLost, StatusRepeated, NetworkHandler
    <2>3. app_events' \in {app_events, app_events \cup {"NETWORK"}}
      BY <1>3, Zenon DEF Lte, Registered, NetworkLost, StatusRepeated, NetworkHandler
    <2>4. lte' \in {"idle", "post"}
      BY <1>3, Zenon DEF Lte, Registered, NetworkLost, StatusRepeated, NetworkHandler
    <2>2. UNCHANGED <<pending_message_id, message_id, helper, up, acks, stored, host_seq,
                      host_bd, pc, loopVars, sessionVars, batch, measurement_queue, sampler>>
      BY <1>3, Zenon DEF Lte, Registered, NetworkLost, StatusRepeated, NetworkHandler
    <2> QED
      BY <2>1, <2>2, <2>3, <2>4, MqttConstants DEF Events
  <1>4. CASE PubackDeadline
    <2>1. faults' \in 0 .. MaxFaults
      BY <1>4, MqttConstants DEF PubackDeadline
    <2> QED
      BY <1>4, <2>1 DEF PubackDeadline
  <1>5. CASE ReconnectDue
    BY <1>5 DEF ReconnectDue
  <1>6. CASE MqttThread /\ OnConnack
    BY <1>6 DEF MqttThread, OnConnack, Events
  <1>7. CASE MqttThread /\ (OnConnackRefused \/ ConnectionLost \/ TrafficLost)
    <2>1. /\ faults < MaxFaults /\ faults' = faults + 1
          /\ up' \in {up, {}} /\ acks' \in {acks, {}} /\ helper' \in {helper, "closing"}
      BY <1>7, Zenon DEF OnConnackRefused, ConnectionLost, TrafficLost
    <2>2. UNCHANGED <<app_events, pending_message_id, message_id, stored, host_seq, host_bd>>
      BY <1>7, Zenon DEF OnConnackRefused, ConnectionLost, TrafficLost
    <2> QED
      BY <1>7, <2>1, <2>2, MqttConstants DEF MqttThread
  <1>8. CASE MqttThread /\ OnDisconnect
    BY <1>8, MqttConstants DEF MqttThread, OnDisconnect, Events
  <1>9. ASSUME NEW id \in 1 .. MsgIds, MqttThread, OnPuback(id) PROVE TypeOK'
    <2>1. /\ pending_message_id' \in 0 .. MsgIds
          /\ app_events' \in {app_events, app_events \cup {"PUBACK"}}
      BY <1>9, MqttConstants DEF OnPuback
    <2> QED
      BY <1>9, <2>1 DEF MqttThread, OnPuback, Events
  <1>10. ASSUME NEW m \in up, MqttThread, BrokerReceive(m) PROVE TypeOK'
    <2>1. /\ m.id \in 1 .. MsgIds /\ m.data \subseteq Readings /\ m.number \in Seqs
      BY DEF Message
    <2>2. 0 \in Seqs
      BY MqttConstants DEF Seqs
    <2> QED
      BY <1>10, <2>1, <2>2 DEF MqttThread, BrokerReceive
  <1>11. CASE UNCHANGED vars
    BY <1>11 DEF vars
  <1> HIDE DEF TypeOK
  <1> QED
    BY <1>1, <1>2, <1>3, <1>4, <1>5, <1>6, <1>7, <1>8, <1>9, <1>10, <1>11, Zenon
       DEF Sampler, Clock, MqttThread, Callbacks, Broker

LEMMA SendsWhatIsThereStep ==
    ASSUME TypeOK, SendsWhatIsThere, [Next]_vars
    PROVE  SendsWhatIsThere'
  <1> USE DEF SendsWhatIsThere, sessionVars
  <1>1. CASE PublishNext
    <2> SUFFICES ASSUME pc' = "send", birth_acknowledged' PROVE sent_count' = Len(batch')
      OBVIOUS
    <2>1. SendsBirth \/ SendsData
      BY <1>1, Zenon DEF PublishNext
    <2>2. birth_acknowledged
      BY <1>1, Zenon DEF PublishNext
    <2>3. SendsData
      BY <2>1, <2>2, Zenon DEF SendsBirth
    <2>4. sent_count' = Len(batch) /\ batch' = batch
      BY <1>1, <2>3, Zenon DEF PublishNext
    <2> QED
      BY <2>4
  <1>2. CASE AppThread /\ ~PublishNext
    BY <1>2 DEF AppThread, UpdateLed, ChooseWakeup, WakeUp, CollectMeasurement, QueueEmpty,
       HandlePuback, CheckPubackTimeout, UpdateConnection, Connect, ConnectReturns,
       NothingToPublish, Send, Sent
  <1>3. CASE UNCHANGED <<pc, birth_acknowledged, sent_count, batch>>
    BY <1>3
  <1> QED
    BY <1>1, <1>2, <1>3, Zenon DEF Next, vars, Sampler, TimeReady, Measure, PostMeasurement,
       Lte, Registered, NetworkLost, StatusRepeated, NetworkHandler,
       Clock, PubackDeadline, ReconnectDue, MqttThread

LEMMA TypeStep ==
    ASSUME TypeOK, SendsWhatIsThere, [Next]_vars
    PROVE  TypeOK' /\ SendsWhatIsThere'
  <1>1. Flags'
    BY FlagsStep, Zenon DEF TypeOK, Flags
  <1>2. CASE AppThread
    BY <1>1, <1>2, AppThreadTypeOK, SendsWhatIsThereStep
  <1>3. CASE Sampler \/ Lte \/ Clock \/ MqttThread \/ UNCHANGED vars
    BY <1>1, <1>3, OthersTypeOK, SendsWhatIsThereStep
  <1> QED
    BY <1>2, <1>3 DEF Next

\* Every variable keeps its type, for any number of readings, any buffer sizes and
\* any modulus: no index runs out of the batch buffer and no message is malformed.
THEOREM TypeCorrect == Spec => []TypeOK
  <1>1. Init => TypeOK /\ SendsWhatIsThere
    BY InitTypeOK DEF Init, SendsWhatIsThere
  <1>2. TypeOK /\ SendsWhatIsThere /\ [Next]_vars => (TypeOK /\ SendsWhatIsThere)'
    BY TypeStep
  <1> QED
    BY <1>1, <1>2, PTL DEF Spec

-----------------------------------------------------------------------------
(* Sequences as buffers.                                                   *)

\* What is added at the end of a buffer does not change its front.
LEMMA PrefixAppend ==
    ASSUME NEW S, NEW s \in Seq(S), NEW r \in S, NEW n \in 0 .. Len(s)
    PROVE  {Append(s, r)[i] : i \in 1 .. n} = {s[i] : i \in 1 .. n}
  OBVIOUS

LEMMA RangeAppend ==
    ASSUME NEW S, NEW s \in Seq(S), NEW r \in S
    PROVE  Range1(Append(s, r)) = Range1(s) \cup {r}
  BY DEF Range1

LEMMA RangeTail ==
    ASSUME NEW S, NEW s \in Seq(S), s # <<>>
    PROVE  Range1(s) = Range1(Tail(s)) \cup {Head(s)}
  BY DEF Range1

\* What a removal takes away was in the front.
LEMMA RangeSuffix ==
    ASSUME NEW S, NEW s \in Seq(S), NEW n \in 0 .. Len(s)
    PROVE  LET rest == SubSeq(s, n + 1, Len(s))
           IN  /\ Range1(rest) \subseteq Range1(s)
               /\ Range1(s) \ Range1(rest) \subseteq {s[i] : i \in 1 .. n}
  <1> DEFINE rest == SubSeq(s, n + 1, Len(s))
  <1>1. /\ Len(rest) = Len(s) - n
        /\ \A i \in 1 .. Len(rest) : rest[i] = s[i + n]
    OBVIOUS
  <1>2. Range1(rest) \subseteq Range1(s)
    <2> SUFFICES ASSUME NEW i \in 1 .. Len(rest) PROVE rest[i] \in Range1(s)
      BY DEF Range1
    <2>1. rest[i] = s[i + n] /\ i + n \in 1 .. Len(s)
      BY <1>1
    <2> QED
      BY <2>1 DEF Range1
  <1>3. ASSUME NEW i \in 1 .. Len(s), s[i] \notin Range1(rest)
        PROVE  s[i] \in {s[j] : j \in 1 .. n}
    <2>1. CASE i <= n
      BY <2>1
    <2>2. CASE i > n
      <3>1. i - n \in 1 .. Len(rest) /\ (i - n) + n = i
        BY <1>1, <2>2
      <3>2. rest[i - n] = s[i]
        BY <1>1, <3>1
      <3> QED
        BY <1>3, <3>1, <3>2 DEF Range1
    <2> QED
      BY <2>1, <2>2
  <1> QED
    BY <1>2, <1>3 DEF Range1

-----------------------------------------------------------------------------
(* The inductive invariant: first what it says about the connection, the    *)
(* outstanding message and seq; the names of readings follow.              *)

Agreement ==
    /\ EventsAreLocal
    /\ HelperFollows
    /\ ControlFits
    /\ CleanStart
    /\ Quiet
    /\ InOnePlace
    /\ SparkplugOrder

USE DEF mqttVars, sessionVars, loopVars, otherThreads, Told, Attempting, Outstanding

LEMMA InitAgreement == Init => Agreement
  BY DEF Init, MqttInit, Agreement, EventsAreLocal, HelperFollows, ControlFits,
     CleanStart, Quiet, InOnePlace, SparkplugOrder

\* The measurement thread, the LTE callback and the clock do not disturb it. That
\* reconnect_due may become TRUE rests on the timing assumption in ReconnectDue.
LEMMA OthersAgreement ==
    ASSUME TypeOK, TypeOK', NamesAreFresh, Agreement,
           Sampler \/ Lte \/ Clock \/ UNCHANGED vars
    PROVE  Agreement'
  <1> USE DEF TypeOK, MqttTypeOK, Agreement, EventsAreLocal, HelperFollows, ControlFits,
              CleanStart, Quiet, InOnePlace, SparkplugOrder, Payload, SentReadings
  <1>1. CASE TimeReady
    BY <1>1 DEF TimeReady
  <1>2. ASSUME NEW r \in Readings, Measure(r) PROVE Agreement'
    <2> HIDE DEF SentReadings
    <2>1. InOnePlace'
      <3>1. SentReadings' = SentReadings
        BY <1>2 DEF Measure, SentReadings
      <3>2. r \notin Range1(batch)
        BY <1>2, Zenon DEF Measure, InUse
      <3>3. Outstanding /\ birth_acknowledged /\ SentReadings \subseteq stored =>
               SentReadings \subseteq stored'
        BY <1>2, <3>2 DEF Measure, SentReadings, Range1
      <3> QED
        BY <1>2, <3>1, <3>3 DEF Measure
    <2> QED
      BY <1>2, <2>1 DEF Measure
  <1>3. CASE PostMeasurement
    BY <1>3 DEF PostMeasurement
  <1>4. CASE Registered
    BY <1>4 DEF Registered
  <1>5. CASE NetworkLost
    BY <1>5 DEF NetworkLost
  <1>6. CASE StatusRepeated
    BY <1>6 DEF StatusRepeated
  <1>7. CASE NetworkHandler
    BY <1>7 DEF NetworkHandler
  <1>8. CASE PubackDeadline
    BY <1>8 DEF PubackDeadline
  <1>9. CASE ReconnectDue
    BY <1>9 DEF ReconnectDue
  <1>10. CASE UNCHANGED vars
    BY <1>10 DEF vars
  <1> HIDE DEF Agreement
  <1> QED
    BY <1>1, <1>2, <1>3, <1>4, <1>5, <1>6, <1>7, <1>8, <1>9, <1>10, Zenon
       DEF Sampler, Lte, Clock

\* mqtt_helper's thread and the broker: a CONNACK finds nothing of the session
\* before, and a PUBACK is reported for the outstanding message only.
LEMMA MqttAgreement ==
    ASSUME TypeOK, TypeOK', Agreement, MqttThread
    PROVE  Agreement'
  <1> USE DEF TypeOK, MqttTypeOK, Agreement, EventsAreLocal, HelperFollows, ControlFits,
              CleanStart, Quiet, InOnePlace, SparkplugOrder, Payload, SentReadings,
              MqttThread
  <1>1. CASE OnConnack
    BY <1>1 DEF OnConnack
  <1>2. CASE OnConnackRefused
    BY <1>2 DEF OnConnackRefused
  <1>3. CASE OnDisconnect
    BY <1>3 DEF OnDisconnect
  <1>4. ASSUME NEW id \in 1 .. MsgIds, OnPuback(id) PROVE Agreement'
    <2>1. EventsAreLocal' /\ ControlFits' /\ SparkplugOrder'
      BY <1>4 DEF OnPuback
    <2>2. HelperFollows'
      BY <1>4 DEF OnPuback
    <2>3. CleanStart' /\ Quiet'
      BY <1>4 DEF OnPuback
    <2>4. InOnePlace'
      BY <1>4 DEF OnPuback
    <2> HIDE DEF EventsAreLocal, HelperFollows, ControlFits, CleanStart, Quiet, InOnePlace,
                 SparkplugOrder
    <2> QED
      BY <2>1, <2>2, <2>3, <2>4
  <1>5. ASSUME NEW m \in up, BrokerReceive(m) PROVE Agreement'
    <2>1. EventsAreLocal' /\ ControlFits' /\ CleanStart'
      BY <1>5 DEF BrokerReceive
    <2>2. HelperFollows'
      BY <1>5 DEF BrokerReceive
    <2>3. Quiet' /\ SparkplugOrder'
      BY <1>5 DEF BrokerReceive
    <2>4. InOnePlace'
      BY <1>5 DEF BrokerReceive
    <2> HIDE DEF EventsAreLocal, HelperFollows, ControlFits, CleanStart, Quiet, InOnePlace,
                 SparkplugOrder
    <2> QED
      BY <2>1, <2>2, <2>3, <2>4
  <1>6. CASE ConnectionLost
    BY <1>6 DEF ConnectionLost
  <1>7. CASE TrafficLost
    BY <1>7 DEF TrafficLost
  <1> HIDE DEF Agreement
  <1> QED
    BY <1>1, <1>2, <1>3, <1>4, <1>5, <1>6, <1>7, Zenon DEF MqttThread, Callbacks, Broker

\* Moving a measurement into the buffer leaves the readings of the NDATA in place.
LEMMA CollectAgreement ==
    ASSUME TypeOK, TypeOK', Agreement, CollectMeasurement
    PROVE  Agreement'
  <1> USE DEF TypeOK, MqttTypeOK
  <1>1. Head(measurement_queue) \in Readings
    BY DEF CollectMeasurement
  <1>2. ASSUME birth_acknowledged, sent_count <= Len(batch)
        PROVE  sent_count <= Len(batch') /\ SentReadings' = SentReadings
    <2>1. sent_count \in 0 .. Len(batch)
      BY <1>2, AppConstants
    <2>2. CASE batch' = Append(batch, Head(measurement_queue))
      <3>1. {Append(batch, Head(measurement_queue))[i] : i \in 1 .. sent_count}
              = {batch[i] : i \in 1 .. sent_count}
        <4>1. batch \in Seq(Readings)
          OBVIOUS
        <4> HIDE DEF TypeOK, MqttTypeOK
        <4> QED
          BY <1>1, <2>1, <4>1, PrefixAppend
      <3>2. Len(batch') = Len(batch) + 1
        BY <1>1, <2>2
      <3>3. sent_count' = sent_count
        BY DEF CollectMeasurement
      <3> QED
        BY <2>1, <2>2, <3>1, <3>2, <3>3 DEF SentReadings
    <2>3. CASE batch' = batch
      BY <2>1, <2>3 DEF CollectMeasurement, SentReadings
    <2> QED
      BY <2>2, <2>3, Zenon DEF CollectMeasurement, BatchAdd
  <1> USE DEF Agreement, EventsAreLocal, HelperFollows, ControlFits, CleanStart, Quiet,
              InOnePlace, SparkplugOrder
  <1>3. InOnePlace'
    BY <1>2 DEF CollectMeasurement, Payload
  <1> QED
    BY <1>3 DEF CollectMeasurement

\* handle_puback: an acknowledged NBIRTH was seq 0, an acknowledged NDATA was seq.
LEMMA AcknowledgeAgreement ==
    ASSUME TypeOK, TypeOK', Agreement, HandlePuback
    PROVE  Agreement'
  <1> USE DEF TypeOK, MqttTypeOK, Agreement, EventsAreLocal, HelperFollows, ControlFits,
              CleanStart, Quiet, InOnePlace, SparkplugOrder, Payload, SentReadings
  <1>1. CASE "PUBACK" \in events /\ awaiting_puback
    <2>1. /\ up = {} /\ acks = {} /\ "PUBACK" \notin app_events /\ pending_message_id = 0
          /\ mqtt_state = "CONNECTED"
      BY <1>1
    <2>2. ~awaiting_puback'
      BY <1>1, Zenon DEF HandlePuback, Acknowledge
    <2>3. birth_acknowledged' /\ host_seq' # NoSeq /\ seq' = NextSeq(host_seq')
      <3>1. CASE birth_acknowledged
        <4>1. host_seq = seq
          BY <1>1, <3>1
        <4>2. seq' = NextSeq(seq) /\ birth_acknowledged' = birth_acknowledged
          BY <1>1, <3>1, Zenon DEF HandlePuback, Acknowledge
        <4> QED
          BY <3>1, <4>1, <4>2, MqttConstants DEF HandlePuback, Seqs, NoSeq
      <3>2. CASE ~birth_acknowledged
        <4>1. host_seq = 0
          BY <1>1, <3>2
        <4>2. seq' = 1 /\ birth_acknowledged'
          BY <1>1, <3>2, Zenon DEF HandlePuback, Acknowledge
        <4>3. NextSeq(0) = 1
          BY NextSeqOfBirth
        <4> QED
          BY <4>1, <4>2, <4>3 DEF HandlePuback, NoSeq
      <3> QED
        BY <3>1, <3>2
    <2> QED
      BY <1>1, <2>1, <2>2, <2>3 DEF HandlePuback
  <1>2. CASE ~("PUBACK" \in events /\ awaiting_puback)
    BY <1>2 DEF HandlePuback
  <1> QED
    BY <1>1, <1>2

\* A message is sent only when nothing is on the way, with the seq that follows.
LEMMA SendAgreement ==
    ASSUME TypeOK, TypeOK', Agreement, Send
    PROVE  Agreement'
  <1> USE DEF TypeOK, MqttTypeOK, Agreement, EventsAreLocal, HelperFollows, ControlFits,
              CleanStart, Quiet, InOnePlace, SparkplugOrder
  <1>1. CASE HelperPublish(Payload) /\ Goto("sent")
    <2>1. up = {} /\ acks = {} /\ ~Told("PUBACK")
      BY <1>1 DEF Send
    <2>2. up' = {Payload} /\ Payload' = Payload
      BY <1>1, <2>1 DEF Send, HelperPublish, Payload, SentReadings
    <2>3. InOnePlace'
      <3>1. acks' = {} /\ ~Told("PUBACK")'
        BY <1>1, <2>1 DEF Send
      <3>2. birth_acknowledged' => sent_count' <= Len(batch')
        BY <1>1 DEF Send
      <3> QED
        BY <2>2, <3>1, <3>2
    <2>4. SparkplugOrder'
      BY <1>1, <2>1, <2>2 DEF Send, HelperPublish, Payload
    <2>5. EventsAreLocal' /\ HelperFollows' /\ ControlFits' /\ CleanStart' /\ Quiet'
      BY <1>1, <2>1 DEF Send, HelperPublish
    <2> HIDE DEF EventsAreLocal, HelperFollows, ControlFits, CleanStart, Quiet, InOnePlace,
                 SparkplugOrder
    <2> QED
      BY <2>3, <2>4, <2>5
  <1>2. CASE HelperPublishFails /\ Goto("led")
    BY <1>2 DEF Send, HelperPublishFails, Payload, SentReadings
  <1> QED
    BY <1>1, <1>2 DEF Send

\* The steps of the loop that touch the connection or publish.
LEMMA ConnectionAgreement ==
    ASSUME TypeOK, TypeOK', Agreement,
           CheckPubackTimeout \/ UpdateConnection \/ Connect \/ ConnectReturns
    PROVE  Agreement'
  <1> USE DEF TypeOK, MqttTypeOK, Agreement, EventsAreLocal, HelperFollows, ControlFits,
              CleanStart, Quiet, InOnePlace, SparkplugOrder, Payload, SentReadings
  <1>1. CASE CheckPubackTimeout
    BY <1>1 DEF CheckPubackTimeout, Disconnect
  <1>2. CASE UpdateConnection
    BY <1>2 DEF UpdateConnection, ConnectionEnded, ConnectionEstablished, ReconnectNow,
       EndSession, ScheduleReconnect
  <1>3. CASE Connect
    BY <1>3 DEF Connect, HelperConnect, HelperConnectFails, ScheduleReconnect
  <1>4. CASE ConnectReturns
    BY <1>4 DEF ConnectReturns
  <1> HIDE DEF Agreement
  <1> QED
    BY <1>1, <1>2, <1>3, <1>4

\* The other steps of the loop.
LEMMA LoopAgreement ==
    ASSUME TypeOK, TypeOK', Agreement,
           \/ UpdateLed \/ ChooseWakeup \/ WakeUp \/ QueueEmpty
           \/ NothingToPublish \/ PublishNext \/ Sent
    PROVE  Agreement'
  <1> USE DEF TypeOK, MqttTypeOK, Agreement, EventsAreLocal, HelperFollows, ControlFits,
              CleanStart, Quiet, InOnePlace, SparkplugOrder, Payload, SentReadings
  <1>1. CASE UpdateLed
    BY <1>1 DEF UpdateLed
  <1>2. CASE ChooseWakeup
    BY <1>2 DEF ChooseWakeup
  <1>3. CASE WakeUp
    BY <1>3 DEF WakeUp
  <1>4. CASE QueueEmpty
    BY <1>4 DEF QueueEmpty
  <1>5. CASE NothingToPublish
    BY <1>5 DEF NothingToPublish
  <1>6. CASE PublishNext
    BY <1>6 DEF PublishNext, ClaimPending, PublishBusy, SendsBirth, SendsData
  <1>7. CASE Sent
    BY <1>7 DEF Sent
  <1> HIDE DEF Agreement
  <1> QED
    BY <1>1, <1>2, <1>3, <1>4, <1>5, <1>6, <1>7

LEMMA AgreementStep ==
    ASSUME TypeOK, TypeOK', NamesAreFresh, Agreement, [Next]_vars
    PROVE  Agreement'
  BY OthersAgreement, MqttAgreement, CollectAgreement, AcknowledgeAgreement, SendAgreement,
     ConnectionAgreement, LoopAgreement, Zenon DEF Next, AppThread

-----------------------------------------------------------------------------
(* The names of readings.                                                  *)

Front(n) == {batch[i] : i \in 1 .. n}

LEMMA NamesKept ==
    ASSUME NamesAreFresh, UNCHANGED <<batch, stored, measurement_queue>>,
           up' = up \/ up' = {}
    PROVE  NamesAreFresh'
  <1>1. CASE up' = up
    BY <1>1 DEF NamesAreFresh, Range1
  <1>2. CASE up' = {}
    BY <1>2 DEF NamesAreFresh, Range1
  <1> QED
    BY <1>1, <1>2

LEMMA MeasureNames ==
    ASSUME TypeOK, NamesAreFresh, NEW r \in Readings, Measure(r)
    PROVE  NamesAreFresh'
  <1> DEFINE q == measurement_queue
  <1>1. q \in Seq(Readings) /\ q' = Append(q, r) /\ r \notin InUse
    BY DEF TypeOK, Measure
  <1>2. r \notin Range1(q) \cup Range1(batch)
    BY <1>1, Zenon DEF InUse
  <1>3. \A i, j \in 1 .. Len(q') : q'[i] = q'[j] => i = j
    BY <1>1, <1>2 DEF NamesAreFresh, Range1
  <1>4. Range1(q)' = Range1(q) \cup {r}
    <2>1. Range1(Append(q, r)) = Range1(q) \cup {r}
      BY <1>1, RangeAppend
    <2> QED
      BY <1>1, <2>1, Zenon DEF Range1
  <1>5. stored' = stored \ {r} /\ UNCHANGED <<batch, up>>
    BY DEF Measure
  <1>6. (Range1(q) \cap (Range1(batch) \cup stored))' = {}
    <2>1. Range1(batch)' = Range1(batch)
      BY <1>5 DEF Range1
    <2> QED
      BY <1>2, <1>4, <1>5, <2>1 DEF NamesAreFresh
  <1> QED
    BY <1>3, <1>5, <1>6 DEF NamesAreFresh

LEMMA CollectNames ==
    ASSUME TypeOK, NamesAreFresh, CollectMeasurement
    PROVE  NamesAreFresh'
  <1> DEFINE q == measurement_queue
             r == Head(measurement_queue)
  <1>1. q \in Seq(Readings) /\ q # <<>> /\ q' = Tail(q) /\ r \in Readings
    BY DEF TypeOK, CollectMeasurement
  <1>2. batch \in Seq(Readings) /\ (batch' = batch \/ batch' = Append(batch, r))
    BY Zenon DEF TypeOK, CollectMeasurement, BatchAdd
  <1>3. UNCHANGED <<up, stored>>
    BY DEF CollectMeasurement
  <1>4. \A i, j \in 1 .. Len(q') : q'[i] = q'[j] => i = j
    BY <1>1 DEF NamesAreFresh
  <1>5. Range1(q) = Range1(q)' \cup {r}
    BY <1>1, RangeTail, Zenon DEF Range1
  <1>6. r \notin Range1(q)'
    <2> SUFFICES ASSUME NEW i \in 1 .. Len(Tail(q)), Tail(q)[i] = r PROVE FALSE
      BY <1>1 DEF Range1
    <2>1. Tail(q)[i] = q[i + 1] /\ r = q[1] /\ i + 1 \in 1 .. Len(q) /\ 1 \in 1 .. Len(q)
      BY <1>1
    <2> QED
      BY <2>1 DEF NamesAreFresh
  <1>7. Range1(batch)' \subseteq Range1(batch) \cup {r}
    <2>1. Range1(Append(batch, r)) = Range1(batch) \cup {r}
      BY <1>1, <1>2, RangeAppend
    <2> QED
      BY <1>2, <2>1, Zenon DEF Range1
  <1>8. (Range1(q) \cap (Range1(batch) \cup stored))' = {}
    BY <1>3, <1>5, <1>6, <1>7 DEF NamesAreFresh
  <1>9. ASSUME NEW m \in up
        PROVE  \E n \in 0 .. Len(batch') : m.data = Front(n)'
    <2>1. PICK n \in 0 .. Len(batch) : m.data = Front(n)
      BY DEF NamesAreFresh, Front
    <2>2. Front(n)' = Front(n) /\ n \in 0 .. Len(batch')
      <3>1. CASE batch' = batch
        BY <3>1 DEF Front
      <3>2. CASE batch' = Append(batch, r)
        BY <1>1, <1>2, <3>2, PrefixAppend DEF Front
      <3> QED
        BY <1>2, <3>1, <3>2
    <2> QED
      BY <2>1, <2>2
  <1> QED
    BY <1>3, <1>4, <1>8, <1>9 DEF NamesAreFresh, Front

\* aitsm_batch_remove: nothing is on its way when a batch is removed.
LEMMA AcknowledgeNames ==
    ASSUME TypeOK, Agreement, NamesAreFresh, HandlePuback
    PROVE  NamesAreFresh'
  <1>1. UNCHANGED <<up, stored, measurement_queue>>
    BY DEF HandlePuback
  <1>2. CASE batch' = batch
    BY <1>1, <1>2, NamesKept
  <1>3. CASE batch' # batch
    <2>1. "PUBACK" \in events /\ awaiting_puback /\ birth_acknowledged
      BY <1>3, Zenon DEF HandlePuback, Acknowledge
    <2>2. up = {} /\ sent_count \in 0 .. Len(batch)
      BY <2>1, AppConstants DEF Agreement, InOnePlace, TypeOK
    <2>3. batch' = SubSeq(batch, sent_count + 1, Len(batch))
      <3>1. batch' = BatchRemove(sent_count)
        BY <2>1, Zenon DEF HandlePuback, Acknowledge
      <3>2. (IF sent_count < Len(batch) THEN sent_count ELSE Len(batch)) = sent_count
        BY <2>2 DEF TypeOK
      <3> QED
        BY <3>1, <3>2, Zenon DEF BatchRemove
    <2>4. Range1(batch)' \subseteq Range1(batch)
      <3>1. Range1(SubSeq(batch, sent_count + 1, Len(batch))) \subseteq Range1(batch)
        BY <2>2, RangeSuffix DEF TypeOK
      <3> QED
        BY <2>3, <3>1, Zenon DEF Range1
    <2>5. Range1(measurement_queue)' = Range1(measurement_queue)
      BY <1>1 DEF Range1
    <2> QED
      BY <1>1, <2>2, <2>4, <2>5 DEF NamesAreFresh
  <1> QED
    BY <1>2, <1>3

LEMMA SendNames ==
    ASSUME TypeOK, Agreement, NamesAreFresh, Send
    PROVE  NamesAreFresh'
  <1>1. UNCHANGED <<batch, stored, measurement_queue>>
    BY DEF Send
  <1>2. CASE up' = up
    BY <1>1, <1>2, NamesKept
  <1>3. CASE up' # up
    <2>1. up' = up \cup {Payload} /\ up = {} /\ pc = "send"
      BY <1>3 DEF Send, HelperPublish, HelperPublishFails, Agreement, ControlFits, Quiet
    <2>2. Payload.data = Front(0) \/ Payload.data = Front(Len(batch))
      <3>1. CASE birth_acknowledged
        BY <2>1, <3>1 DEF Payload, SentReadings, Front, Agreement, ControlFits
      <3>2. CASE ~birth_acknowledged
        BY <3>2 DEF Payload, Front
      <3> QED
        BY <3>1, <3>2
    <2>3. \E n \in 0 .. Len(batch) : Payload.data = Front(n)
      BY <2>2 DEF TypeOK
    <2> QED
      BY <1>1, <2>1, <2>3 DEF NamesAreFresh, Range1, Front
  <1> QED
    BY <1>2, <1>3

LEMMA ReceiveNames ==
    ASSUME TypeOK, NamesAreFresh, NEW m \in up, BrokerReceive(m), MqttThread
    PROVE  NamesAreFresh'
  <1>1. UNCHANGED <<batch, measurement_queue>> /\ up' = up \ {m}
        /\ stored' = stored \cup m.data
    BY DEF BrokerReceive, MqttThread
  <1>2. m.data \subseteq Range1(batch)
    <2>1. PICK n \in 0 .. Len(batch) : m.data = Front(n)
      BY DEF NamesAreFresh, Front
    <2> QED
      BY <2>1 DEF Front, Range1, TypeOK
  <1>3. (Range1(measurement_queue) \cap (Range1(batch) \cup stored))' = {}
    <2>1. Range1(batch)' = Range1(batch) /\ Range1(measurement_queue)' = Range1(measurement_queue)
      BY <1>1 DEF Range1
    <2> QED
      BY <1>1, <1>2, <2>1 DEF NamesAreFresh
  <1>4. ASSUME NEW w \in up' PROVE \E n \in 0 .. Len(batch)' : w.data = Front(n)'
    BY <1>1 DEF NamesAreFresh, Front
  <1> QED
    BY <1>1, <1>3, <1>4 DEF NamesAreFresh, Front

LEMMA NamesStep ==
    ASSUME TypeOK, Agreement, NamesAreFresh, [Next]_vars
    PROVE  NamesAreFresh'
  <1>1. CASE \E r \in Readings : Measure(r)
    BY <1>1, MeasureNames
  <1>2. CASE CollectMeasurement
    BY <1>2, CollectNames
  <1>3. CASE HandlePuback
    BY <1>3, AcknowledgeNames
  <1>4. CASE Send
    BY <1>4, SendNames
  <1>5. CASE MqttThread
    <2>1. CASE \E m \in up : BrokerReceive(m)
      BY <1>5, <2>1, ReceiveNames
    <2>2. CASE UNCHANGED <<batch, stored, measurement_queue>> /\ (up' = up \/ up' = {})
      BY <2>2, NamesKept
    <2> QED
      BY <1>5, <2>1, <2>2, Zenon DEF MqttThread, Callbacks, Broker, OnConnack, OnConnackRefused,
         OnDisconnect, OnPuback, ConnectionLost, TrafficLost
  <1>6. CASE UNCHANGED <<batch, stored, measurement_queue, up>>
    BY <1>6, NamesKept
  <1>7. AppThread => \/ CollectMeasurement \/ HandlePuback \/ Send
                     \/ UNCHANGED <<batch, stored, measurement_queue, up>>
    BY Zenon DEF AppThread, UpdateLed, ChooseWakeup, WakeUp, QueueEmpty, CheckPubackTimeout,
       UpdateConnection, Connect, ConnectReturns, NothingToPublish, PublishNext, Sent
  <1>8. Sampler \/ Lte \/ Clock \/ UNCHANGED vars =>
           \/ \E r \in Readings : Measure(r)
           \/ UNCHANGED <<batch, stored, measurement_queue, up>>
    BY Zenon DEF Sampler, TimeReady, PostMeasurement, Lte, Registered, NetworkLost,
       StatusRepeated, NetworkHandler, Clock, PubackDeadline, ReconnectDue, vars
  <1> QED
    BY <1>1, <1>2, <1>3, <1>4, <1>5, <1>6, <1>7, <1>8, Zenon DEF Next

-----------------------------------------------------------------------------
(* The theorems.                                                           *)

\* Init implies the inductive invariant and every step of any thread preserves it.
\* TypeOK needs ControlFits (SendsWhatIsThere), and Agreement needs NamesAreFresh.
THEOREM InductiveInvariant == Spec => []Inductive
  <1>1. Init => Inductive
    <2> SUFFICES ASSUME Init PROVE Inductive
      OBVIOUS
    <2>1. NamesAreFresh
      BY DEF Init, MqttInit, NamesAreFresh, Range1
    <2> QED
      BY <2>1, InitTypeOK, InitAgreement, Zenon DEF Inductive, Agreement
  <1>2. Inductive /\ [Next]_vars => Inductive'
    <2> SUFFICES ASSUME Inductive, [Next]_vars PROVE Inductive'
      OBVIOUS
    <2>1. TypeOK /\ Agreement /\ NamesAreFresh /\ SendsWhatIsThere
      BY Zenon DEF Inductive, Agreement, ControlFits, SendsWhatIsThere
    <2>2. TypeOK'
      BY <2>1, TypeStep
    <2>3. Agreement'
      BY <2>1, <2>2, AgreementStep
    <2>4. NamesAreFresh'
      BY <2>1, NamesStep
    <2> QED
      BY <2>2, <2>3, <2>4, Zenon DEF Inductive, Agreement
  <1> QED
    BY <1>1, <1>2, PTL DEF Spec

\* A PUBACK that the application will act on means that the broker has every reading
\* of the outstanding NDATA, so no earlier message's PUBACK is taken for it.
THEOREM PubackIsGenuine == Spec => []PubackMeansStored
  <1>1. Inductive => PubackMeansStored
    <2> SUFFICES ASSUME Inductive, awaiting_puback, birth_acknowledged
                 PROVE  /\ sent_count <= Len(batch)
                        /\ \A m \in up : m.data = SentReadings
                        /\ pending_message_id \in acks \/ "PUBACK" \in app_events \cup events =>
                              SentReadings \subseteq stored
      BY DEF PubackMeansStored
    <2> QED
      BY DEF Inductive, InOnePlace, Payload
  <1> QED
    BY <1>1, InductiveInvariant, PTL

\* Within a session the broker sees NBIRTH and then NDATAs without a hole in seq.
THEOREM SessionsInOrder == Spec => []SparkplugOrder
  <1>1. Inductive => SparkplugOrder
    BY DEF Inductive
  <1> QED
    BY <1>1, InductiveInvariant, PTL

\* aitsm_mqtt_publish is never refused with -EBUSY.
THEOREM PublishNeverBusy == Spec => []NeverBusy
  <1>1. Inductive => NeverBusy
    BY DEF Inductive, NeverBusy, Quiet, SendsBirth, SendsData
  <1> QED
    BY <1>1, InductiveInvariant, PTL

\* The application's idea of the connection and mqtt_helper's never part for good.
THEOREM ConnectionAgreed == Spec => []StatesAgree
  <1>1. Inductive => StatesAgree
    BY DEF Inductive, StatesAgree, HelperFollows
  <1> QED
    BY <1>1, InductiveInvariant, PTL

\* What handle_puback takes from the buffer is the NDATA that was acknowledged.
LEMMA AcknowledgeReleases ==
    ASSUME Inductive, HandlePuback
    PROVE  \/ UNCHANGED batch
           \/ /\ sent_count \in 0 .. Len(batch)
              /\ batch' = SubSeq(batch, sent_count + 1, Len(batch))
              /\ Front(sent_count) \subseteq stored
  <1> SUFFICES ASSUME batch' # batch
               PROVE  /\ sent_count \in 0 .. Len(batch)
                      /\ batch' = SubSeq(batch, sent_count + 1, Len(batch))
                      /\ Front(sent_count) \subseteq stored
    BY Zenon
  <1>1. "PUBACK" \in events /\ awaiting_puback /\ birth_acknowledged
    BY Zenon DEF HandlePuback, Acknowledge
  <1>2. batch' = BatchRemove(sent_count)
    BY <1>1, Zenon DEF HandlePuback, Acknowledge
  <1>3. sent_count \in 0 .. Len(batch)
    BY <1>1, AppConstants DEF Inductive, InOnePlace, TypeOK
  <1>4. (IF sent_count < Len(batch) THEN sent_count ELSE Len(batch)) = sent_count
    BY <1>3 DEF Inductive, TypeOK
  <1>5. batch' = SubSeq(batch, sent_count + 1, Len(batch))
    BY <1>2, <1>4, Zenon DEF BatchRemove
  <1>6. Front(sent_count) \subseteq stored
    BY <1>1 DEF Inductive, InOnePlace, SentReadings, Front
  <1> QED
    BY <1>3, <1>5, <1>6

\* Only two steps change the buffer.
LEMMA BufferSteps ==
    ASSUME [Next]_vars, batch' # batch
    PROVE  CollectMeasurement \/ HandlePuback
  BY Zenon DEF Next, AppThread, UpdateLed, ChooseWakeup, WakeUp, QueueEmpty,
     CheckPubackTimeout, UpdateConnection, Connect, ConnectReturns, NothingToPublish,
     PublishNext, Send, Sent, Sampler, TimeReady, Measure, PostMeasurement, Lte, Registered,
     NetworkLost, StatusRepeated, NetworkHandler, Clock, PubackDeadline, ReconnectDue,
     MqttThread, vars

\* No reading leaves the buffer before the broker has it.
THEOREM NothingReleasedEarly == Spec => ReleasedOnlyStored
  <1>1. Inductive /\ [Next]_vars => [Range1(batch) \ Range1(batch') \subseteq stored]_vars
    <2> SUFFICES ASSUME Inductive, [Next]_vars
                 PROVE  Range1(batch) \ Range1(batch') \subseteq stored
      OBVIOUS
    <2>1. CASE batch' = batch
      BY <2>1
    <2>2. CASE HandlePuback
      <3>1. CASE batch' = SubSeq(batch, sent_count + 1, Len(batch))
                 /\ sent_count \in 0 .. Len(batch) /\ Front(sent_count) \subseteq stored
        BY <3>1, RangeSuffix DEF Front, Inductive, TypeOK
      <3> QED
        BY <2>1, <2>2, <3>1, AcknowledgeReleases
    <2>3. CASE CollectMeasurement
      <3>1. Head(measurement_queue) \in Readings /\ batch \in Seq(Readings)
        BY <2>3 DEF CollectMeasurement, Inductive, TypeOK
      <3>2. batch' = batch \/ batch' = Append(batch, Head(measurement_queue))
        BY <2>3, Zenon DEF CollectMeasurement, BatchAdd
      <3>3. Range1(Append(batch, Head(measurement_queue)))
              = Range1(batch) \cup {Head(measurement_queue)}
        BY <3>1, RangeAppend
      <3> QED
        BY <3>2, <3>3
    <2> QED
      BY <2>1, <2>2, <2>3, BufferSteps
  <1> QED
    BY <1>1, InductiveInvariant, PTL DEF Spec, ReleasedOnlyStored

-----------------------------------------------------------------------------
(* The firmware implements Outbox: every step is one of Outbox's, or none.  *)

\* Only two steps change what the broker has.
LEMMA StoredSteps ==
    ASSUME [Next]_vars, stored' # stored
    PROVE  \/ \E r \in Readings : Measure(r)
           \/ \E m \in up : BrokerReceive(m) /\ MqttThread
  BY Zenon DEF Next, AppThread, UpdateLed, ChooseWakeup, WakeUp, CollectMeasurement, QueueEmpty,
     HandlePuback, CheckPubackTimeout, UpdateConnection, Connect, ConnectReturns,
     NothingToPublish, PublishNext, Send, Sent, Sampler, TimeReady, PostMeasurement, Lte,
     Registered, NetworkLost, StatusRepeated, NetworkHandler, Clock, PubackDeadline,
     ReconnectDue, MqttThread, Callbacks, Broker, OnConnack, OnConnackRefused, OnDisconnect,
     OnPuback, ConnectionLost, TrafficLost, vars

LEMMA MeasureIsName ==
    ASSUME TypeOK, NEW r \in Readings, Measure(r)
    PROVE  Outbox!Next
  <1>1. r \notin Outbox!Held /\ stored' = stored \ {r} /\ UNCHANGED batch
    BY Zenon DEF Measure, InUse, Range1, Outbox!Held
  <1> QED
    BY <1>1, Zenon DEF Outbox!Next, Outbox!Name

LEMMA CollectIsAccept ==
    ASSUME Inductive, CollectMeasurement, batch' # batch
    PROVE  Outbox!Next
  <1> DEFINE r == Head(measurement_queue)
  <1>1. batch' = Append(batch, r) /\ Len(batch) < BatchCapacity /\ UNCHANGED stored
    BY Zenon DEF CollectMeasurement, BatchAdd
  <1>2. r \in Readings /\ r \in Range1(measurement_queue)
    BY DEF CollectMeasurement, Inductive, TypeOK, Range1
  <1>3. r \notin Outbox!Held /\ r \notin stored
    BY <1>2 DEF Inductive, NamesAreFresh, Range1, Outbox!Held
  <1>4. stored' = stored \ {r}
    <2> HIDE DEF r
    <2> QED
      BY <1>1, <1>3
  <1>5. Outbox!Accept(r)
    BY <1>1, <1>3, <1>4, Zenon DEF Outbox!Accept
  <1> QED
    BY <1>2, <1>5, Zenon DEF Outbox!Next

LEMMA AcknowledgeIsRelease ==
    ASSUME Inductive, HandlePuback, batch' # batch
    PROVE  Outbox!Next
  <1>1. /\ sent_count \in 0 .. Len(batch)
        /\ batch' = SubSeq(batch, sent_count + 1, Len(batch))
        /\ Front(sent_count) \subseteq stored
    BY AcknowledgeReleases
  <1>2. sent_count \in 1 .. Len(batch)
    <2>1. SubSeq(batch, 1, Len(batch)) = batch
      BY DEF Inductive, TypeOK
    <2> QED
      BY <1>1, <2>1
  <1>3. UNCHANGED stored
    BY DEF HandlePuback
  <1>4. Outbox!Release(sent_count)
    BY <1>1, <1>3, Zenon DEF Outbox!Release, Outbox!Oldest, Front
  <1> QED
    BY <1>2, <1>4, Zenon DEF Outbox!Next

LEMMA ReceiveIsDeliver ==
    ASSUME Inductive, NEW m \in up, BrokerReceive(m), MqttThread, stored' # stored
    PROVE  Outbox!Next
  <1>1. PICK n \in 0 .. Len(batch) : m.data = Front(n)
    BY DEF Inductive, NamesAreFresh, Front
  <1>2. stored' = stored \cup Front(n) /\ UNCHANGED batch
    BY <1>1 DEF BrokerReceive, MqttThread
  <1>3. n # 0
    BY <1>2 DEF Front
  <1>4. n \in 1 .. Len(batch)
    BY <1>3 DEF Inductive, TypeOK
  <1>5. Outbox!Deliver(n)
    BY <1>2, Zenon DEF Outbox!Deliver, Outbox!Oldest, Front
  <1> QED
    BY <1>4, <1>5, Zenon DEF Outbox!Next

\* Whatever the network does, the firmware is a bounded buffer in measuring order
\* that skips only the newest reading and releases only what the broker has.
THEOREM ImplementsTheOutbox == Spec => ImplementsOutbox
  <1>1. Init => Outbox!Init
    BY DEF Init, MqttInit, Outbox!Init
  <1>2. Inductive /\ [Next]_vars => [Outbox!Next]_(Outbox!outboxVars)
    <2> SUFFICES ASSUME Inductive, [Next]_vars, ~UNCHANGED <<batch, stored>>
                 PROVE  Outbox!Next
      BY Zenon DEF Outbox!outboxVars
    <2>1. CASE batch' # batch
      BY <2>1, BufferSteps, CollectIsAccept, AcknowledgeIsRelease
    <2>2. CASE stored' # stored
      <3>1. TypeOK
        BY DEF Inductive
      <3> QED
        BY <2>2, <3>1, StoredSteps, MeasureIsName, ReceiveIsDeliver
    <2> QED
      BY <2>1, <2>2
  <1> QED
    BY <1>1, <1>2, InductiveInvariant, PTL DEF Spec, ImplementsOutbox, Outbox!Spec

-----------------------------------------------------------------------------
(* Waking up.                                                              *)

\* A callback has posted a bit that was not read, or is about to.
Woken == app_events # {} \/ lte = "post" \/ sampler = "post"
WokenByLte == app_events # {} \/ lte = "post"

\* From the step in which the application thread looked at something until it reads
\* its bits, a change of it comes with a bit.
Awake ==
    /\ pc # "collect" => measurement_queue = <<>> \/ Woken
    /\ pc \in {"sleep", "wait"} => led = LedColor \/ WokenByLte
    /\ pc = "wait" => wakeup = NextWakeup \/ WokenByLte

LEMMA AwakeStep ==
    ASSUME Awake, [Next]_vars
    PROVE  Awake'
  <1> USE DEF Awake, Woken, WokenByLte, LedColor, NextWakeup, sessionVars, loopVars,
              otherThreads, mqttVars
  <1>1. CASE UpdateLed \/ ChooseWakeup \/ WakeUp
    BY <1>1 DEF UpdateLed, ChooseWakeup, WakeUp, At, Goto
  <1>2. CASE CollectMeasurement \/ QueueEmpty
    BY <1>2 DEF CollectMeasurement, QueueEmpty, At, Goto
  <1>3. CASE HandlePuback \/ CheckPubackTimeout \/ UpdateConnection
    BY <1>3 DEF HandlePuback, CheckPubackTimeout, Disconnect, Post, UpdateConnection, At, Goto
  <1>4. CASE Connect \/ ConnectReturns
    BY <1>4 DEF Connect, ConnectReturns, At, Goto
  <1>5. CASE NothingToPublish \/ PublishNext \/ Send \/ Sent
    BY <1>5 DEF NothingToPublish, PublishNext, Send, Sent, At, Goto
  <1>6. CASE Sampler
    BY <1>6 DEF Sampler, TimeReady, Measure, PostMeasurement, Post
  <1>7. CASE Lte
    BY <1>7 DEF Lte, Registered, NetworkLost, StatusRepeated, NetworkHandler, Post
  <1>8. CASE Clock \/ UNCHANGED vars
    BY <1>8 DEF Clock, PubackDeadline, ReconnectDue, vars
  <1>9. CASE MqttThread
    <2>1. app_events \subseteq app_events'
      BY <1>9 DEF MqttThread, Callbacks, OnConnack, OnConnackRefused, OnDisconnect, OnPuback,
         Broker, BrokerReceive, ConnectionLost, TrafficLost, Post
    <2> QED
      BY <1>9, <2>1 DEF MqttThread
  <1> QED
    BY <1>1, <1>2, <1>3, <1>4, <1>5, <1>6, <1>7, <1>8, <1>9 DEF Next, AppThread

\* The application thread never sleeps over a measurement, a colour of the LED or a
\* deadline that it has not acted on (main.c:297-306, 337-347).
THEOREM WakeupNeverLost == Spec => []NoLostWakeup
  <1>1. Init => Awake
    BY DEF Init, Awake
  <1>2. Awake /\ [Next]_vars => Awake'
    BY AwakeStep
  <1>3. Awake => NoLostWakeup
    BY DEF Awake, Woken, WokenByLte, NoLostWakeup, At
  <1> QED
    BY <1>1, <1>2, <1>3, PTL DEF Spec

-----------------------------------------------------------------------------
(* bdSeq.                                                                  *)

\* bdSeq n is unused: it is neither that of the last NBIRTH the broker saw nor
\* that of one still on its way.
Fresh(n) == n # host_bd /\ \A m \in up : m.kind = "NBIRTH" => m.number # n

\* bdSeq, which wraps (main.c:205), comes back to a value only when the broker has seen an
\* NBIRTH with another one in between.
FreshBdSeqs == [][bd_seq' # bd_seq => Fresh(bd_seq)']_vars

\* The NBIRTH of this session, or of the next one, is not yet sent.
BirthToCome ==
    \/ mqtt_state \in {"IDLE", "CONNECTING"}
    \/ mqtt_state = "CONNECTED" /\ ~birth_acknowledged /\ ~Outstanding
BirthIsNew == BirthToCome => Fresh(bd_seq)

Births == BirthsDiffer /\ BirthIsNew

\* A session that ends takes the next bdSeq, which is another one (main.c:194-218).
LEMMA EndSessionIsNew ==
    ASSUME bd_seq \in Seqs, EndSession
    PROVE  bd_seq' # bd_seq
  <1>1. SeqModulo \in Nat /\ SeqModulo > 1 /\ bd_seq \in 0 .. SeqModulo - 1
    BY MqttConstants DEF Seqs
  <1>2. CASE bd_seq = SeqModulo - 1
    <2>1. (bd_seq + 1) % SeqModulo = 0
      BY <1>1, <1>2
    <2> QED
      BY <1>1, <1>2, <2>1 DEF EndSession, NextSeq
  <1>3. CASE bd_seq # SeqModulo - 1
    <2>1. (bd_seq + 1) % SeqModulo = bd_seq + 1
      BY <1>1, <1>3
    <2> QED
      BY <1>1, <2>1 DEF EndSession, NextSeq
  <1> QED
    BY <1>2, <1>3

\* What a step changes of what Births is about: only EndSession, Send, the broker and a new
\* connection do.
LEMMA BirthsStep ==
    ASSUME Inductive, Births, [Next]_vars, bd_seq' # bd_seq => Fresh(bd_seq)'
    PROVE  Births'
  <1> USE DEF Births, BirthsDiffer, BirthIsNew, BirthToCome, Fresh, Outstanding, mqttVars,
              loopVars, sessionVars, otherThreads
  <1>1. CASE UpdateLed \/ ChooseWakeup \/ WakeUp \/ CollectMeasurement \/ QueueEmpty
             \/ NothingToPublish
    BY <1>1 DEF UpdateLed, ChooseWakeup, WakeUp, CollectMeasurement, QueueEmpty, NothingToPublish
  <1>2. CASE HandlePuback
    BY <1>2 DEF HandlePuback, Acknowledge
  <1>3. CASE CheckPubackTimeout
    BY <1>3 DEF CheckPubackTimeout
  <1>4. CASE UpdateConnection
    <2>1. UNCHANGED <<up, host_bd, pc>> \/ UNCHANGED <<up, host_bd>>
      BY <1>4 DEF UpdateConnection
    <2>2. CASE EndSession
      <3>1. bd_seq' # bd_seq
        BY <2>2, EndSessionIsNew DEF Inductive, TypeOK
      <3> QED
        BY <2>1, <3>1
    <2>3. CASE ~EndSession
      BY <1>4, <2>3 DEF UpdateConnection, ConnectionEstablished, Inductive, EventsAreLocal
    <2> QED
      BY <2>2, <2>3
  <1>5. CASE Connect
    BY <1>5 DEF Connect, ScheduleReconnect, Inductive, ControlFits
  <1>6. CASE ConnectReturns
    BY <1>6 DEF ConnectReturns, Inductive, ControlFits
  <1>7. CASE PublishNext
    BY <1>7 DEF PublishNext
  <1>8. CASE Send
    <2>1. mqtt_state = "CONNECTED" /\ ~awaiting_puback /\ up = {}
      BY <1>8 DEF Send, Inductive, ControlFits, Quiet
    <2>2. CASE birth_acknowledged
      <3>1. Payload.kind = "NDATA"
        BY <2>2 DEF Payload
      <3> QED
        BY <1>8, <2>1, <2>2, <3>1 DEF Send, HelperPublish, HelperPublishFails
    <2>3. CASE ~birth_acknowledged
      <3>1. Payload.number = bd_seq /\ bd_seq # host_bd
        BY <1>8, <2>1, <2>3 DEF Payload, Send
      <3> QED
        BY <1>8, <2>1, <2>3, <3>1 DEF Send, HelperPublish, HelperPublishFails
    <2> QED
      BY <2>2, <2>3
  <1>9. CASE Sent
    BY <1>9 DEF Sent
  <1>10. CASE Sampler
    BY <1>10 DEF Sampler, TimeReady, Measure, PostMeasurement
  <1>11. CASE Lte
    BY <1>11 DEF Lte, Registered, NetworkLost, StatusRepeated, NetworkHandler
  <1>12. CASE Clock \/ UNCHANGED vars
    BY <1>12 DEF Clock, PubackDeadline, ReconnectDue, vars
  <1>13. CASE MqttThread
    <2>1. UNCHANGED <<pc, sessionVars>>
      BY <1>13 DEF MqttThread
    <2>2. CASE \E m \in up : BrokerReceive(m)
      <3>1. PICK m \in up : BrokerReceive(m)
        BY <2>2
      <3>2. up = {m} /\ up' = {}
        BY <3>1 DEF BrokerReceive, Inductive, InOnePlace
      <3>3. host_bd' = IF m.kind = "NBIRTH" THEN m.number ELSE host_bd
        BY <3>1 DEF BrokerReceive
      <3> QED
        BY <2>1, <3>2, <3>3
    <2>3. CASE UNCHANGED host_bd /\ (up' = up \/ up' = {})
      BY <2>1, <2>3
    <2> QED
      BY <1>13, <2>2, <2>3, Zenon DEF MqttThread, Callbacks, Broker, OnConnack, OnConnackRefused,
         OnDisconnect, OnPuback, ConnectionLost, TrafficLost
  <1> QED
    BY <1>1, <1>2, <1>3, <1>4, <1>5, <1>6, <1>7, <1>8, <1>9, <1>10, <1>11, <1>12, <1>13
       DEF Next, AppThread

LEMMA InitBirths == Init => Births
  BY MqttConstants DEF Init, MqttInit, Births, BirthsDiffer, BirthIsNew, Fresh, Seqs, NoSeq

\* Two successive NBIRTHs that reach the broker carry different bdSeq, as long as bdSeq does not
\* wrap onto the one that is still in use.
THEOREM BirthsTellSessionsApart == Spec /\ FreshBdSeqs => []BirthsDiffer
  <1>1. Inductive /\ Births /\ [Next]_vars /\ [bd_seq' # bd_seq => Fresh(bd_seq)']_vars => Births'
    <2> SUFFICES ASSUME Inductive, Births, [Next]_vars,
                        [bd_seq' # bd_seq => Fresh(bd_seq)']_vars
                 PROVE  Births'
      OBVIOUS
    <2>1. bd_seq' # bd_seq => Fresh(bd_seq)'
      BY DEF vars, sessionVars
    <2> QED
      BY <2>1, BirthsStep
  <1>2. Births => BirthsDiffer
    BY DEF Births
  <1> QED
    BY <1>1, <1>2, InitBirths, InductiveInvariant, PTL DEF Spec, FreshBdSeqs

\* The answer that the outstanding message gets is the one aitsm_mqtt_publish waits for.
AnswerFits ==
    /\ pc = "send" /\ helper = "open" => pending_message_id = message_id
    /\ Outstanding /\ helper = "open" =>
          /\ acks \subseteq {message_id}
          /\ up # {} \/ acks # {} => pending_message_id = message_id

\* The session will end without another fault: the fault that ends it was there.
Doomed ==
    /\ mqtt_state # "IDLE" \/ pc = "connecting"
    /\ \/ helper \in {"closing", "closed"}
       \/ Told("DISCONNECTED")
       \/ mqtt_state = "DISCONNECTING"
       \/ awaiting_puback /\ puback_overdue
       \/ Outstanding /\ up = {} /\ acks = {} /\ ~Told("PUBACK")

\* Every closed connection has cost a fault, so that bdSeq, before it wraps, is not above
\* their number, and the broker's is not above it.
BdSeqCounts ==
    /\ AnswerFits
    /\ bd_seq <= faults
    /\ Doomed => bd_seq < faults
    /\ host_bd <= bd_seq
    /\ \A m \in up : m.kind = "NBIRTH" => m.number <= bd_seq

LEMMA AnswerFitsStep ==
    ASSUME Inductive, AnswerFits, [Next]_vars
    PROVE  AnswerFits'
  <1> USE DEF AnswerFits, Outstanding, mqttVars, loopVars, sessionVars, otherThreads
  <1>1. CASE UpdateLed \/ ChooseWakeup \/ WakeUp \/ CollectMeasurement \/ QueueEmpty
             \/ NothingToPublish
    BY <1>1 DEF UpdateLed, ChooseWakeup, WakeUp, CollectMeasurement, QueueEmpty, NothingToPublish
  <1>2. CASE HandlePuback
    BY <1>2 DEF HandlePuback, Acknowledge
  <1>3. CASE CheckPubackTimeout
    BY <1>3 DEF CheckPubackTimeout, Disconnect
  <1>4. CASE UpdateConnection
    BY <1>4 DEF UpdateConnection, EndSession
  <1>5. CASE Connect
    BY <1>5 DEF Connect, Inductive, ControlFits
  <1>6. CASE ConnectReturns
    BY <1>6 DEF ConnectReturns
  <1>7. CASE PublishNext
    BY <1>7 DEF PublishNext, ClaimPending, PublishBusy, SendsBirth, SendsData, Inductive, Quiet
  <1>8. CASE Send
    BY <1>8 DEF Send, HelperPublish, HelperPublishFails, Inductive, ControlFits, Quiet
  <1>9. CASE Sent
    BY <1>9 DEF Sent
  <1>10. CASE Sampler
    BY <1>10 DEF Sampler, TimeReady, Measure, PostMeasurement
  <1>11. CASE Lte
    BY <1>11 DEF Lte, Registered, NetworkLost, StatusRepeated, NetworkHandler
  <1>12. CASE Clock \/ UNCHANGED vars
    BY <1>12 DEF Clock, PubackDeadline, ReconnectDue, vars
  <1>13. CASE MqttThread
    <2>1. UNCHANGED <<pc, sessionVars>>
      BY <1>13 DEF MqttThread
    <2>2. CASE OnConnack
      BY <2>1, <2>2 DEF OnConnack, Inductive, HelperFollows, Attempting, ControlFits
    <2>3. CASE OnConnackRefused \/ OnDisconnect \/ ConnectionLost \/ TrafficLost
      BY <2>1, <2>3 DEF OnConnackRefused, OnDisconnect, ConnectionLost, TrafficLost
    <2>4. CASE \E id \in 1 .. MsgIds : OnPuback(id)
      BY <2>1, <2>4 DEF OnPuback, Inductive, InOnePlace, ControlFits, Quiet
    <2>5. CASE \E m \in up : BrokerReceive(m)
      <3>1. PICK m \in up : BrokerReceive(m)
        BY <2>5
      <3>2. Outstanding => m.id = message_id
        BY DEF Inductive, InOnePlace, Payload
      <3>3. ~(pc = "send")
        BY DEF Inductive, ControlFits, Quiet
      <3>4. Outstanding => up' = {}
        BY <3>1 DEF BrokerReceive, Inductive, InOnePlace
      <3> QED
        BY <2>1, <3>1, <3>2, <3>3, <3>4 DEF BrokerReceive
    <2> QED
      BY <1>13, <2>2, <2>3, <2>4, <2>5 DEF MqttThread, Callbacks, Broker
  <1> QED
    BY <1>1, <1>2, <1>3, <1>4, <1>5, <1>6, <1>7, <1>8, <1>9, <1>10, <1>11, <1>12, <1>13
       DEF Next, AppThread

\* The part of BdSeqCounts that only EndSession, and the faults, touch.
LEMMA DoomedStep ==
    ASSUME Inductive, AnswerFits, [Next]_vars, ~Doomed, Doomed'
    PROVE  faults' = faults + 1 /\ bd_seq' = bd_seq
  <1> USE DEF Doomed, Told, Outstanding, mqttVars, loopVars, sessionVars, otherThreads
  <1>1. CASE UpdateLed \/ ChooseWakeup \/ QueueEmpty \/ NothingToPublish
    BY <1>1 DEF UpdateLed, ChooseWakeup, QueueEmpty, NothingToPublish
  <1>2. CASE WakeUp
    BY <1>2 DEF WakeUp, Inductive, EventsAreLocal
  <1>3. CASE CollectMeasurement
    BY <1>3 DEF CollectMeasurement
  <1>4. CASE HandlePuback
    BY <1>4 DEF HandlePuback, Acknowledge
  <1>5. CASE CheckPubackTimeout
    BY <1>5 DEF CheckPubackTimeout, Inductive, ControlFits
  <1>6. CASE UpdateConnection
    BY <1>6 DEF UpdateConnection, EndSession, ScheduleReconnect, Inductive, EventsAreLocal,
       ControlFits, ConnectionEstablished, ConnectionEnded
  <1>7. CASE Connect
    BY <1>7 DEF Connect, HelperConnect, HelperConnectFails, ScheduleReconnect, Inductive,
       EventsAreLocal, HelperFollows, ControlFits
  <1>8. CASE ConnectReturns
    BY <1>8 DEF ConnectReturns, Inductive, ControlFits
  <1>9. CASE PublishNext
    BY <1>9 DEF PublishNext
  <1>10. CASE Send
    BY <1>10 DEF Send, HelperPublish, HelperPublishFails, Inductive, ControlFits
  <1>11. CASE Sent
    BY <1>11 DEF Sent
  <1>12. CASE Sampler
    BY <1>12 DEF Sampler, TimeReady, Measure, PostMeasurement
  <1>13. CASE Lte
    BY <1>13 DEF Lte, Registered, NetworkLost, StatusRepeated, NetworkHandler
  <1>14. CASE Clock
    BY <1>14 DEF Clock, PubackDeadline, ReconnectDue, AnswerOnTheWay
  <1>15. CASE UNCHANGED vars
    BY <1>15 DEF vars
  <1>16. CASE MqttThread
    <2>1. UNCHANGED <<pc, events, sessionVars>>
      BY <1>16 DEF MqttThread
    <2>2. CASE OnConnack
      BY <2>1, <2>2 DEF OnConnack, Inductive, HelperFollows, Attempting, ControlFits
    <2>3. CASE OnConnackRefused \/ OnDisconnect \/ ConnectionLost \/ TrafficLost
      BY <2>1, <2>3 DEF OnConnackRefused, OnDisconnect, ConnectionLost, TrafficLost
    <2>4. CASE \E id \in 1 .. MsgIds : OnPuback(id)
      BY <2>1, <2>4 DEF OnPuback, AnswerFits
    <2>5. CASE \E m \in up : BrokerReceive(m)
      <3>1. Outstanding => helper # "connecting"
        BY DEF Inductive, HelperFollows, Attempting, ControlFits
      <3>2. helper \in {"closed", "connecting", "open", "closing"}
        BY DEF Inductive, TypeOK, MqttTypeOK
      <3> QED
        BY <2>1, <2>5, <3>1, <3>2 DEF BrokerReceive
    <2> QED
      BY <1>16, <2>2, <2>3, <2>4, <2>5 DEF MqttThread, Callbacks, Broker
  <1> QED
    BY <1>1, <1>2, <1>3, <1>4, <1>5, <1>6, <1>7, <1>8, <1>9, <1>10, <1>11, <1>12, <1>13,
       <1>14, <1>15, <1>16 DEF Next, AppThread

\* With fewer faults than bdSeq has values, bdSeq never wraps.
LEMMA CountsStep ==
    ASSUME MaxFaults < SeqModulo, Inductive, BdSeqCounts, [Next]_vars
    PROVE  BdSeqCounts' /\ (bd_seq' # bd_seq => Fresh(bd_seq)')
  <1> USE DEF mqttVars, loopVars, sessionVars, otherThreads
  <1>1. AnswerFits'
    BY AnswerFitsStep DEF BdSeqCounts
  <1>2. /\ bd_seq \in Nat /\ faults \in Nat /\ faults <= MaxFaults
        /\ SeqModulo \in Nat /\ MaxFaults \in Nat /\ host_bd \in Int
    BY MqttConstants DEF Inductive, TypeOK, MqttTypeOK, Seqs, NoSeq
  <1>3. faults' \in Nat /\ faults' >= faults
    <2>1. faults' = faults \/ faults' = faults + 1
      BY Zenon DEF Next, AppThread, UpdateLed, ChooseWakeup, WakeUp, CollectMeasurement,
         QueueEmpty, HandlePuback, CheckPubackTimeout, UpdateConnection, Connect,
         HelperConnect, HelperConnectFails, ConnectReturns, NothingToPublish, PublishNext, Send,
         HelperPublish, HelperPublishFails, Sent, Sampler, TimeReady, Measure, PostMeasurement,
         Lte, Registered, NetworkLost, StatusRepeated, NetworkHandler, Clock, PubackDeadline,
         ReconnectDue, MqttThread, Callbacks, OnConnack, OnConnackRefused, OnDisconnect,
         OnPuback, Broker, BrokerReceive, ConnectionLost, TrafficLost, vars
    <2> QED
      BY <1>2, <2>1
  <1>4. CASE bd_seq' # bd_seq
    <2>1. UpdateConnection /\ ConnectionEnded /\ EndSession
      BY <1>4, Zenon DEF Next, AppThread, UpdateLed, ChooseWakeup, WakeUp, CollectMeasurement,
         QueueEmpty, HandlePuback, Acknowledge, CheckPubackTimeout, UpdateConnection, Connect,
         ConnectReturns, NothingToPublish, PublishNext, Send, Sent, Sampler, TimeReady, Measure,
         PostMeasurement, Lte, Registered, NetworkLost, StatusRepeated, NetworkHandler, Clock,
         PubackDeadline, ReconnectDue, MqttThread, vars
    <2>2. bd_seq < faults
      BY <2>1 DEF BdSeqCounts, Doomed, Told, ConnectionEnded
    <2>3. bd_seq' = bd_seq + 1
      <3>1. (bd_seq + 1) % SeqModulo = bd_seq + 1
        BY <1>2, <2>2
      <3> QED
        BY <2>1, <3>1 DEF EndSession, NextSeq
    <2>4. UNCHANGED <<up, host_bd, faults>> /\ ~Doomed'
      BY <2>1, Zenon DEF UpdateConnection, EndSession, ScheduleReconnect, Doomed
    <2>5. bd_seq' <= faults' /\ host_bd' < bd_seq'
      BY <1>2, <2>2, <2>3, <2>4 DEF BdSeqCounts
    <2>6. ASSUME NEW m \in up', m.kind = "NBIRTH" PROVE m.number \in Nat /\ m.number < bd_seq'
      <3>1. m.number \in Nat
        BY <2>4 DEF Inductive, TypeOK, MqttTypeOK, Message, Seqs
      <3> QED
        BY <1>2, <2>3, <2>4, <2>6, <3>1 DEF BdSeqCounts
    <2>7. bd_seq' \in Nat /\ host_bd' \in Int
      BY <1>2, <2>3, <2>4
    <2>8. host_bd' <= bd_seq' /\ \A m \in up' : m.kind = "NBIRTH" => m.number <= bd_seq'
      BY <2>5, <2>6, <2>7
    <2>9. Fresh(bd_seq)'
      BY <2>5, <2>6, <2>7 DEF Fresh
    <2> QED
      BY <1>1, <2>4, <2>5, <2>8, <2>9, Zenon DEF BdSeqCounts
  <1>5. CASE bd_seq' = bd_seq
    <2>1. bd_seq' <= faults'
      BY <1>2, <1>3, <1>5 DEF BdSeqCounts
    <2>2. Doomed' => bd_seq' < faults'
      <3>1. CASE Doomed
        BY <1>2, <1>3, <1>5, <3>1 DEF BdSeqCounts
      <3>2. CASE ~Doomed
        <4>1. Doomed' => faults' = faults + 1
          BY <3>2, DoomedStep DEF BdSeqCounts
        <4> QED
          BY <1>2, <1>5, <4>1 DEF BdSeqCounts
      <3> QED
        BY <3>1, <3>2
    <2>3. host_bd' <= bd_seq' /\ \A m \in up' : m.kind = "NBIRTH" => m.number <= bd_seq'
      <3>1. CASE \E m \in up : BrokerReceive(m)
        BY <1>5, <3>1 DEF BrokerReceive, BdSeqCounts
      <3>2. CASE Send
        <4>1. Payload.kind = "NBIRTH" => Payload.number = bd_seq
          BY DEF Payload
        <4>2. host_bd' = host_bd /\ up' \subseteq up \cup {Payload}
          BY <3>2 DEF Send, HelperPublish, HelperPublishFails
        <4> QED
          BY <1>2, <1>5, <4>1, <4>2 DEF BdSeqCounts
      <3>3. CASE host_bd' = host_bd /\ up' \subseteq up
        BY <1>5, <3>3 DEF BdSeqCounts
      <3>4. MqttThread => \/ \E m \in up : BrokerReceive(m)
                          \/ host_bd' = host_bd /\ (up' = up \/ up' = {})
        BY Zenon DEF MqttThread, Callbacks, OnConnack, OnConnackRefused,
           OnDisconnect, OnPuback, Broker, ConnectionLost, TrafficLost
      <3>5. AppThread \/ Sampler \/ Lte \/ Clock \/ UNCHANGED vars =>
               Send \/ (host_bd' = host_bd /\ up' = up)
        BY Zenon DEF AppThread, UpdateLed, ChooseWakeup, WakeUp, CollectMeasurement,
           QueueEmpty, HandlePuback, CheckPubackTimeout, UpdateConnection, Connect,
           ConnectReturns, NothingToPublish, PublishNext, Sent, Sampler, TimeReady, Measure,
           PostMeasurement, Lte, Registered, NetworkLost, StatusRepeated, NetworkHandler, Clock,
           PubackDeadline, ReconnectDue, vars
      <3> QED
        BY <3>1, <3>2, <3>3, <3>4, <3>5 DEF Next
    <2> QED
      BY <1>1, <1>5, <2>1, <2>2, <2>3, Zenon DEF BdSeqCounts
  <1> QED
    BY <1>4, <1>5

LEMMA InitCounts == Init => BdSeqCounts
  BY MqttConstants DEF Init, MqttInit, BdSeqCounts, AnswerFits, Doomed, Outstanding, NoSeq

\* Every closed connection costs a fault: while there are fewer of them than bdSeq has values,
\* FreshBdSeqs is no premise but a consequence, and NBIRTHs differ.
THEOREM BirthsDifferBeforeTheWrap ==
    ASSUME MaxFaults < SeqModulo
    PROVE  Spec => []BirthsDiffer
  <1>1. Inductive /\ BdSeqCounts /\ [Next]_vars => BdSeqCounts'
    BY CountsStep
  <1>2. Spec => FreshBdSeqs
    <2>1. Inductive /\ BdSeqCounts /\ [Next]_vars => [bd_seq' # bd_seq => Fresh(bd_seq)']_vars
      BY CountsStep
    <2> QED
      BY <1>1, <2>1, InitCounts, InductiveInvariant, PTL DEF Spec, FreshBdSeqs
  <1> QED
    BY <1>2, BirthsTellSessionsApart, PTL
=============================================================================
