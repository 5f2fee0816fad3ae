# A TLA+ model of AITSM

AITSM measures chip temperature and battery level on a Thingy:91 X, sends the readings as Sparkplug B
over MQTT (QoS 1, NB-IoT/LTE-M) and stores them in QuestDB behind a web dashboard. This directory models
the parts of it that lose, repeat or mix up readings when something goes wrong: TLC checks the models
on small instances, TLAPS proves the central theorems for every value of the constants.

Paths below are relative to `src/`. Line numbers are those of the sources the modules were written from.

## 1. The system

| Component | State it keeps | Operations | Talks to |
|---|---|---|---|
| Simple firmware, application thread (`Simple/app/src/main.c`) | `mqtt_state`, `birth_acknowledged`, `bd_seq`, `seq`, `awaiting_puback`, `sent_count`, two deadlines, an event word, the measurement queue | one loop: sleep, read events, collect, PUBACK, timeout, connection, publish | everything below |
| – MQTT client (`mqtt_client.c`) | `pending_message_id` | connect, publish, disconnect; `on_connack`, `on_disconnect`, `on_puback` in another thread | NCS `mqtt_helper`, the broker |
| – batch (`batch.c`) | `buffer`, `count` | add, is_ready, remove | application thread only |
| – measurement thread (`main.c`, `sensor.c`) | – | wait for time, read, queue, post an event | application thread, by queue and event |
| – network (`network.c`) | `registered` | LTE callback | application thread, by flag and event |
| – Sparkplug encoder, LED (`sparkplug.c`, `led.c`) | – | encode, next_seq; set colour | application thread |
| Original firmware (`Original/app/src`) | reconnect phase, 16-entry event queue; publish/connect generations, pending publish and its retransmission timer; buffer with a session token; LED status | event loop plus several work queues and timers | `mqtt_helper`, LTE, broker |
| Cloud ingest (`cloud/mqtt/ingest.py`) | `connection`, delivery queue | network thread: on_connect, on_message, on_disconnect; main thread: parse, write, retry, ack | broker (persistent session), QuestDB |
| QuestDB schema (`cloud/mqtt/questdb_schema.py`, `migrations/`) | table with deduplication | migrate, verify | QuestDB |
| Ingest deployment (`cloud/mqtt/deploy_ingest.py`, `verify_ingest_outage.py`) | installed file, service | replace, restart, verify, roll back | ingest, systemd/docker |
| Dashboard (`cloud/visualization`) | filters, page, cursors, readings, request in flight | load, page, filter, refresh; paged SQL | QuestDB over `api.php` |

What is hard here, and what must hold nevertheless:

* **Interleavings.** `mqtt_helper`'s callbacks, the LTE callback and the measurement thread run between
  any two statements of the application thread. The application learns of them by event *bits*, which
  carry no message id, no order and no count: a PUBACK read late must not be taken for that of a newer message.
* **Partial failure.** A connection can be refused, be lost, or die without a report; a publish can fail
  after its id was claimed; a PUBACK can be late. A reading may leave the device only when the broker has
  it, and the device must always come back.
* **Order.** The host recognises lost messages by `seq` and new sessions by `bdSeq`; both are advanced
  in other places than where messages are sent.
* **Limits.** Batch, queues, `seq`/`bdSeq` and message ids all wrap, fill or are reused.
* **Crash and redelivery.** The ingest process may die between the write and the PUBACK; packet ids are
  reused over connections; a PUBACK for the wrong message would lose readings silently.

The list with lines and the properties that watch over each is `hazards` in `PROJECT.json`.

## 2. Modules

| Module | What it is |
|---|---|
| `Outbox` | abstract: what a measuring device promises about its readings |
| `SimpleMqtt` | Simple `mqtt_client.c`; external: `mqtt_helper`, the connection, the broker, the host |
| `SimpleApp` | EXTENDS `SimpleMqtt`; `main.c`, `batch.c`, `network.c`, `sensor.c`; the properties; refinement of `Outbox` |
| `OrigMqtt` | Original `mqtt_client.c` with its worker; external: `mqtt_helper`, the connection, the broker |
| `OrigMeasurement` | EXTENDS `OrigMqtt`; `measurement_service.c`, `data_transmission.c` |
| `OrigReconnect` | `mqtt_reconnect.c`, as functions from state to state and action |
| `OrigApp` | EXTENDS both; `app_controller.c`, `network.c`, the event queue; the properties; refinement of `Outbox` |
| `OrigBackoff` | EXTENDS `OrigReconnect`; the controller and its timer with seconds |
| `OrigLed` | `led_status.c` |
| `Ingest` | `ingest.py`; external: the broker's session, QuestDB, paho |
| `DeployIngest` | `deploy_ingest.py`, `verify_ingest_outage.py`; external: Docker, systemd |
| `ReadingsApi` | `api.php`, as a function from table, filter, cursor and size to a page |
| `ReadingsView` | EXTENDS `ReadingsApi`; `use-readings.ts` with the buttons of the dashboard |
| `MCSimpleApp`, `MCIngest`, `MCOrigApp`, `MCDeployIngest`, `MCReadingsView` | instances: values, symmetry, views, a history variable |
| `SimpleApp_proofs`, `Ingest_proofs`, `OrigBackoff_proofs`, `OrigLed_proofs`, `DeployIngest_proofs` | proofs |
| `ReadingsView_proofs` | EXTENDS `MCReadingsView`, whose history variable it needs; proofs |
| `OrigApp_types` | facts about the queues and works of `OrigApp`, and the types of its variables |
| `OrigApp_proofs` | EXTENDS `OrigApp_types`; the inductive invariant of `OrigApp` and what follows from it |

### Simple firmware

One turn of the loop of `main()` is a cycle of `pc` values; every boundary is a place where another
thread can act on, or see, what the application thread touches:

| `pc` | action | code |
|---|---|---|
| led, sleep, wait | `UpdateLed`, `ChooseWakeup`, `WakeUp` | `main.c:338-341` with `update_led`, `next_wakeup` |
| collect | `CollectMeasurement`*, `QueueEmpty` | `collect_measurements` |
| ack | `HandlePuback` | `handle_puback` |
| timeout | `CheckPubackTimeout` | `check_puback_timeout` |
| update, connect, connecting | `UpdateConnection`, `Connect`, `ConnectReturns` | `update_connection`; the CONNACK may come before `mqtt_helper_connect` has returned |
| publish, send, sent | `NothingToPublish`, `PublishNext`, `Send`, `Sent` | `publish_next`, `publish`; the PUBACK may come before `awaiting_puback` is set |

`mqtt_handler` and `network_handler` set bits in `app_events`; `WakeUp` reads and clears all of them in
one step, as `k_event_wait_safe` does, into `events`, which lives for one turn.

Abstractions, and why they lose nothing the properties speak of:

* *Time.* A deadline is a flag which the clock sets (`puback_overdue`, `reconnect_due`). The length of the
  back-off and the count of skipped measurements are left out.
* *Readings* are names. A name may be used again when it stands for nothing on the device any more; that
  a new measurement takes a name off `stored` is what lets a finite set of names serve for ever.
* *Messages* keep kind, id, one number (`bdSeq` of an NBIRTH, `seq` of an NDATA) and the set of readings.
* Steps that change nothing (a failing sensor, a measurement dropped at a full queue) are no steps.
* `Init` is the state after the init calls at the top of `main()` have succeeded.
* `mqtt_helper` is external: `connect` is refused unless it is closed; every connection that was opened or
  is being opened ends with exactly one `on_disconnect`; a broker that gets a new connection of a client
  drops what is left of the old one. A PUBACK timeout finds the connection open (`StatesAgree` is what the
  code relies on), so the DISCONNECTED that `check_puback_timeout` would post itself is not needed.

Two assumptions about scheduling are built in. `ReconnectDue` assumes that `on_disconnect` comes, and is
read, within the at least five seconds of back-off. `Measure` does not run while the application thread
empties the queue, because `MEASUREMENT_PRIORITY` is below that of the main thread.

Faults – lost registration, refused or lost connection, silently dead connection, failing connect or
publish, late PUBACK – come at any time, `MaxFaults` of them.

### Ingest

Messages are numbered in the order in which the broker took them in; each is of one `Kind` (rows; rows
that QuestDB refuses with 400; nothing to store or rejected by parsing; parsing raises something else).
The persistent session is `waiting`; `inflight` maps the packet ids of the current connection to
messages, within Receive Maximum, the oldest unsent message first. `net` is the network thread: `up`,
`lost` (before `connection += 1`), `drain` (the loop over the queue, one element per step, against the
worker taking from the same queue), `down`. paho calls all callbacks from one thread and reconnects only after
`on_disconnect` has returned, so `submit` and `connection_lost` do not overlap. `step` is where
`process()` is. `client.ack` only queues a packet; it is gone if the socket is already lost. A crash
forgets everything but the session and QuestDB. Writing the same rows twice is the same as writing them
once: the table deduplicates on device and timestamp.

The session exists from the start, and does not expire (86400 s in the code); the broker keeps it over
its own restarts.

### Original firmware

Four threads act on the shared state: the system workqueue (the event work of the controller, the
reconnect work, the publish and measurement works), the MQTT worker, `mqtt_helper`'s thread and the
modem's. A handler of the system workqueue is one action, since nothing else on that queue runs
meanwhile, and the non-blocking calls it makes into `mqtt_client.c` are operators in it
(`MqttConnect`, `MqttDisconnect`, `MqttLteLost`, `MqttPublish`).

| Thread | actions | code |
|---|---|---|
| event work | `HandleLteLost`, `HandleLteConnected`, `HandleMqttConnected`, `HandleMqttDisconnected`, `HandleMqttError`, `HandlePublishResult` | `handle_event`, one action per case |
| timers on the same queue | `ReconnectWork`, `PublishWorkHandler`, `MeasurementWork` | `app_controller.c:41-45`, `measurement_service.c:123-172` |
| MQTT worker | `ConnectWork`, `ConnectReturns`, `ConnectFails`, `DisconnectWork`, `PublishWork`, `TimeoutWork`, `Write`, `PublishSent`, `PublishFails` | `mqtt_client.c:168-337`; the call into `mqtt_helper` is a step of its own, as its answer may come before it returns |
| `mqtt_helper` | `OnConnack`, `OnConnackRefused`, `OnDisconnect`, `OnPuback`, `OnError`, `CallbackPosts` | `mqtt_client.c:91-157`; the event is posted in a second step, outside the lock |
| modem | `LteEvent` | `network.c:13-37` |

* *Generations.* `generation` is only incremented and compared with copies of it. The set `current` holds the
  names of the copies that still equal it.
* *The works* submitted to the worker are a sequence without repetition, as `k_work_submit_to_queue` keeps it.
* *Tokens and message ids* are reused in turn, as the counters wrap.
* *When a buffer that is neither empty nor full is flushed* depends on the clock and is nondeterministic
  (`ShouldFlush`). Time is left out of `OrigApp`; `OrigBackoff` has the seconds of the reconnect
  work, with the same `OrigReconnect`, and leaves out everything else.
* *The event queue* drops what does not fit (`Enqueue`), as `k_msgq_put` with `K_NO_WAIT` does.
* Faults: loss of LTE, refused, lost or failing connection, silently lost traffic, failing write, a
  PUBACK that is late or reports a failure.

`OrigLed` has the two delayable works on the system workqueue and `led_mutex`, which only main can hold while they
run. A PWM write may fail in front of or between the three channels.

### Deployment and outage test

`job.phase` is the next statement of `deploy` or `verify`; between any two of them the job may be killed, the
container may exit (Docker starts it with what is installed by then) or the machine may restart. Each command may
fail. `noted` is whether the log holds the subscription's line with a time from `since` on, and since `since` has no
fraction, a subscription of the old process may be among them. `timer` is the transient systemd timer of
`restore_ingest`. Jobs never overlap: the workflows share the concurrency group `ingest-session`.

### Dashboard

A load is a request that counts (`Count`), reads the page (`Answer`) and is shown (`Show`) in three steps, in any
order with those of other loads and with rows that are stored (`Insert`); or fails (`Fail`). What starts a load is the
timer, a page button, the page size or the filters; the buttons that `loading` disables are guards. `current` and
`cursors` are the refs of those names, `view` is the React state. One filter, by device, stands for all six.

## 3. What TLC checks

| Run | Question | Result |
|---|---|---|
| `simple_safety` | Can a reading leave the device before the broker has it, or `seq` have a hole, or application and `mqtt_helper` disagree, or a wake-up be lost? | `TypeOK`, `PubackMeansStored`, `SparkplugOrder`, `BirthsDiffer`, `StatesAgree`, `NoLostWakeup`, `ImplementsOutbox` hold |
| `simple_liveness` | Does the device always come back and deliver? | `Delivers`, `Recovers` hold |
| `ingest` | Can a message leave the session unhandled, or a PUBACK hit another message, or the queue fill? Does every message leave the session in the end? | `TypeOK`, `NoLoss`, `NoForeignAck`, `QueueNeverFull`, `EventuallyHandled` hold |
| `orig_safety` | Is a publish, an attempt or a full buffer ever forgotten? Does the LED tell the truth? | `TypeOK`, `BirthsDiffer`, `InFlightIsAnswered`, `ControllerIsServed`, `ServiceIsServed`, `LedTellsTruth` hold |
| `orig_lossy` | Does a lost event ever cost a measurement, the payload of a retransmission or the order of a session? | `ResultMeansStored`, `SparkplugOrder`, `PayloadKept`, `ImplementsOutbox`, `NamesAreFresh` hold |
| `orig_liveness` | Does the Original firmware always come back and deliver? | `Recovers`, `Delivers` hold |
| `orig_backoff` | When do the retries come? | `DeadlineKept`, `BackoffDoubles` hold |
| `led` | Does the LED end on the stable status, and is it never left dark? | `NeverLeftDark`, `WorksServeDisplay`, `ReturnsToStable` hold |
| `deploy` | Does what runs equal what is installed? Does ingest run again after the test? | `TypeOK`, `RunsWhatIsInstalled`, `StoppedIsStarted` hold |
| `deploy_interrupted` | Does a deployment that finds the script installed leave it running? | no: finding 1 |
| `view` | Does the screen show what it says, while one load follows the other? Does it end on the last filters whatever overlapped? Are the pages the whole history? | `SerialFilters`, `SerialPosition`, `LoadingIsServed`, `WholeHistory`, `EndsOnLastFilters` hold |
| `view_ties` | Are the pages the whole history when two rows have one timestamp? | no: finding 2 |

Each property of a passing run has a mutant in `PROJECT.json`: a plausible mistake in one definition, given
as a "variant" next to it, which makes the property fail.

### Bounds

* `simple_safety`: 3 names, capacity 2, batch size 1, queue 1. A batch of 1 is sent while a second reading
  arrives and a third finds the buffer full; 2 message ids and `SeqModulo` 3 make ids and `seq` wrap soon.
  Two faults are enough to lose a message and then disturb its repetition, or to end a session and disturb
  the next attempt. `BirthsDiffer` holds only while fewer than `SeqModulo` connections close between two NBIRTHs that
  arrive; two faults close at most two, and `BirthsDifferBeforeTheWrap` (section 4) makes a theorem of that. In the code
  the modulus is 256.
* `simple_liveness`, `orig_liveness`: one fault, of any kind; what follows it is the same after every last fault.
* The names of readings are symmetric (only equality of names is used, and the liveness runs use no
  symmetry). `View` leaves out variables that are dead in the state: written again before they are read, by the
  steps and by the properties; and names that stand for nothing.
* `orig_safety`: 3 names, capacity 2, so that measurements arrive while an NDATA is in flight and one
  finds the buffer full; 3 tokens and 3 message ids, one more than can be in flight or on their way for one
  session; two faults. An event queue of 8 never fills: at most five events wait at a time in this instance.
* `orig_lossy`: the same with a queue of 3, where events are lost. What the code promises then is less: a
  `PUBLISH_RESULT` or `MQTT_DISCONNECTED` that finds the queue full is gone, and the device may wait for ever, so the
  invariants of `orig_safety` about being served do not hold and deadlock is not checked. A bounded queue
  that drops is the design; what must hold is that no data is lost with the event.
* `orig_backoff`: the delays of `Kconfig`, 5 and 60 s, and seven failures: past the maximum.
* `led`: `LED_STATUS_TRANSIENT_BLINKS` as in the code, two PWM writes that fail.
* `ingest`: 5 messages (rows, refused rows, nothing, rows, one that raises), 2 packet ids, Receive Maximum 2, 3
  faults: ids are reused both within a connection and over connections, the queue can hold entries of two
  connections, and a restart can follow a reconnect. The last message raises in the parser; behind it nothing
  would be reached. When all messages are handled the system rests, so deadlock is not checked.
* `deploy`: two scripts that work and one that does not, two faults, one restart of the machine.
* `view`: two rows, two devices, page sizes 1 and 2, two loads at a time, one of which fails. This is the
  boundary of a page: as many rows as fit, and one more. `disturbed` is a history variable: TRUE once two
  loads have overlapped or one has failed (see section 5 for what may be seen on the screen then).

### Fairness

`SimpleApp!FairSpec`: weak fairness of each thread (Zephyr schedules a ready thread; the priorities
starve none, since every thread blocks in each turn), of the clock, of `mqtt_helper`'s callbacks and of the
broker when no fault interferes. Registration is strongly fair: the modem goes on searching, but status
reports that change nothing may come in between for ever. Faults are never forced, nor ruled out.
The deadline's fairness covers only the case where no answer is on its way.

`OrigApp!FairSpec`: weak fairness of the event work, the reconnect work, the publish and the measurement work, the
worker, `mqtt_helper`'s thread, the broker and the return of LTE. The reconnect timer (at least 5 s) is
made to fire only when nothing of the previous attempt is under way (`Unsettled`), the PUBACK timer when no
answer is on its way; both may fire at any other time too.

`OrigLed!FairSpec`: the two works, and main, which a cooperative workqueue preempts but does not stop.
`ReturnsToStable` speaks of the time after the last call, without a PWM failure. Its premise `NoMoreCalls` is a
formula over state changes: `SEARCHING` set again in its dark half changes the state just as a blink does, so
the premise allows the steps that are both.

`Ingest!FairSpec`: weak fairness of the broker's deliveries and of its taking in PUBACKs, of each step of
paho's network thread (reconnect is automatic, `reconnect_delay_set`; the container restarts,
`cloud/docker/compose.yml:54`) and of the worker. A write succeeds or is refused in the end; nothing makes a
device publish. `EventuallyHandled` excepts the time in which the session holds a message that ends the process.

`DeployIngest!FairSpec`: a job goes on unless it is killed, and an armed timer goes off. `StoppedIsStarted` tolerates one
failure after the stop (the job's own start, or a kill), as the timer is there for it, and no restart of the machine.

`ReadingsView!Fairness`: each request is counted, answered and shown, and the 30 s timer goes off between the
user's clicks (strongly fair, as the bound on loads in flight may disable it for a while).
`EndsOnLastFilters` speaks of the time after the last click that asks for something new (`CalmDown`). On page 0 with no
cursor stored, a click on the page size that is shown, or on filters that are set, starts the very load that the
timer starts, so "no click at all" would rule the timer out there, and with it every ending on a single page of
matches; the premise therefore lets a click be the timer's step. The variant `TimerOfFirstRender` breaks the
property on such endings too.

## 4. What TLAPS proves

For every number of ids, modulus, capacity, batch size, queue length, set of readings and number of faults
(`MqttConstants`, `AppConstants`: at least one id, modulus at least 2, a batch that fits the
buffer, a queue of at least one):

| Theorem (`SimpleApp_proofs`) | |
|---|---|
| `TypeCorrect` | `Spec => []TypeOK` |
| `InductiveInvariant` | `Spec => []Inductive` |
| `PubackIsGenuine` | `Spec => []PubackMeansStored` |
| `SessionsInOrder` | `Spec => []SparkplugOrder` |
| `PublishNeverBusy` | `Spec => []NeverBusy` |
| `ConnectionAgreed` | `Spec => []StatesAgree` |
| `WakeupNeverLost` | `Spec => []NoLostWakeup` |
| `NothingReleasedEarly` | `Spec => ReleasedOnlyStored` |
| `ImplementsTheOutbox` | `Spec => ImplementsOutbox` |
| `BirthsTellSessionsApart` | `Spec /\ FreshBdSeqs => []BirthsDiffer` |
| `BirthsDifferBeforeTheWrap` | `Spec => []BirthsDiffer`, if `MaxFaults < SeqModulo` |

None of these is inductive alone. What makes the id-less PUBACK bit safe is that nothing of a session
outlives it, which `Inductive` states in parts: the turn's events are local (`EventsAreLocal`);
`mqtt_helper` is where the application's state and unread events say (`HelperFollows`); a new attempt finds no
id, PUBACK or message of the old session (`CleanStart`); between two publishes nothing is on the way and the
broker has seen exactly what was acknowledged (`Quiet`); the one outstanding message is in one place – on the
way, acknowledged, or reported – and from the broker on its readings are stored (`InOnePlace`); and the names
of readings are fresh (`NamesAreFresh`). The refinement follows: the buffer loses a prefix only in
`Acknowledge`, and `InOnePlace` says that the prefix is stored. `NoLostWakeup` has an invariant of its own, `Awake`: at
each `pc` of the turn, what the steps before it have dealt with (the queue, the deadlines, the LED) is either still as
they left it, or somebody who changed it since has posted an event or is about to.

`FreshBdSeqs` is what `BirthsDiffer` rests on: whenever the application takes another bdSeq, no NBIRTH with that number is
left, at the broker or on the way to it. The code does not check it; bdSeq comes back after 256 ends of a connection
(`main.c:205`). The invariant `Births` then says that the number a session announces is new until its NBIRTH has arrived
(`BirthToCome`, `BirthIsNew`). `BirthsDifferBeforeTheWrap` discharges the premise: an end of a connection that the
application has yet to count is `Doomed`, each has cost a fault of its own (`BdSeqCounts`), so with fewer faults than
numbers bdSeq never comes back at all.

For `Ingest`, for any messages and kinds, packet ids, Receive Maximum and number of faults
(`IngestConstants`):

| Theorem (`Ingest_proofs`) | |
|---|---|
| `InductiveInvariant` | `Spec => []Inductive` |
| `TypeCorrect` | `Spec => []TypeOK` |
| `AcksAreGenuine` | `Spec => []NoForeignAck` |
| `NothingIsLost` | `Spec => []NoLoss` |
| `QueueHasRoom` | `Spec => []QueueNeverFull` |

The invariant follows a delivery of the *current* connection from the wire through the queue to the worker:
wherever it is, it is in flight at the broker under its own packet id, no other such delivery has that id, and
the id is not yet being acknowledged. Entries of older connections have a smaller number, so `ack()` drops
them; while the connection is down there are no others. A PUBACK thus hits the message just handled.
`QueueHasRoom` counts: whenever a delivery is put into the queue, all entries are of the current connection, in flight
under different packet ids, and the broker has at most Receive Maximum of these; the one being put has one more id, so
there are fewer entries than that.


For the reconnect timer, for any two delays (`ReconnectConstants`) and any number of failures:

| Theorem (`OrigBackoff_proofs`) | |
|---|---|
| `TypeCorrect` | the state and the delays keep their types, the next delay is between the two of `Kconfig` |
| `TimerCorrect` | `Spec => []TimerMatchesPhase` |
| `DeadlineCorrect` | `Spec => DeadlineKept` |
| `DoublingCorrect` | `Spec => BackoffDoubles` |

`TimerMatchesPhase`, which `ControllerIsServed` states of the whole firmware, is inductive with the types;
`DeadlineKept` follows, as the work is scheduled only in a phase other than WAITING, in which it is not scheduled
already. `BackoffDoubles` compares with `Delay`, a function defined by recursion: `DelayIsDefined` first shows that
there is such a function (each beginning of it exists and is unique, by least counterexamples), then `Doubling` says
that `next_delay` is the delay of the failure that comes next.

For the Original firmware, for any ids, tokens, modulus, capacity, queue length, set of readings, delays and number of
faults (`MqttConstants`, `ServiceConstants`, `DelayAssumption`):

| Theorem (`OrigApp_types`, `OrigApp_proofs`) | |
|---|---|
| `TypesHold` | `Spec => []TypeOK` |
| `PayloadIsKept` | `Spec => PayloadKept` |
| `LedIsTruthful` | `Spec => []LedTellsTruth` |
| `Safety` | `Spec /\ NamesAreFresh => []Inv` |
| `ResultIsTrue` | `Spec /\ NamesAreFresh => []ResultMeansStored` |
| `SparkplugOrderHolds` | `Spec /\ NamesAreFresh => []SparkplugOrder` |
| `ServiceServed` | `Spec /\ NamesAreFresh => []ServiceIsServed` |
| `ControllerServed` | `Spec /\ []HasRoom => []ControllerIsServed` |
| `InFlightAnswered` | `Spec /\ []HasRoom => []InFlightIsAnswered` |
| `ImplementsTheOutbox` | `Spec /\ NamesAreFresh => ImplementsOutbox` |
| `BirthsTellSessionsApart` | `Spec /\ FreshBdSeqs => []BirthsDiffer` |

`ControllerServed` and `InFlightAnswered`, and only these, assume that the event queue never fills (`HasRoom`): an event
that finds it full is lost, and the device may wait for it for ever. In `orig_safety`, with room for 8, `HasRoom` holds
in every state. `NamesAreFresh` is the premise of those that speak of what the broker has: when a token or a message id is
given, no result with that token, and no message or PUBACK with that id, is left from its last use. The code relies on
it without a check: tokens are given again after 2^32 publishes (`mqtt_client.c:292`), ids after 2^16, and what can be
left over is no more than the 16 events of the queue and the traffic of one connection. With constants as small as
those of `orig_lossy` it is a property that TLC checks, and it holds there.

The invariant has these parts, each of which rests on the ones before it:

* `OnePublish` (with the types): `publish_pending` holds exactly while the work waits or the worker is sending; what waits
  to be sent waits for no PUBACK; job, id and token are those of the one payload the client has a copy of.
* `Connection`: what is to be published or waits for a PUBACK belongs to the connection that is there. No connect
  waits in front of it and none goes on beside it, although both are works of one queue.
* `Controller`: phase, timer, `mqtt_connected` of the service and LED agree; the service is down before LTE is.
* `InFlight`: what the service waits for is the last publish: its token, its kind, its readings (the oldest of the
  buffer) and its number.
* `Session`: once the session is announced no attempt and no news of the connection is on its way, and none is behind
  the result of the publish in flight; no result is on its way for a publish that still waits.
* `Order`: by what the events on their way and the worker's copy say, the session has had everything up to `next_seq`,
  once or twice, and nothing else (`Chain`).
* `Genuine`: messages, PUBACKs and results that carry the name of the last publish are its own.
* `Data`: readings on their way are stored or the oldest ones of the buffer, within what the result will remove.

`Order` and `Genuine` rest on each other: that a result is believed only when the broker has the message needs the messages
of a session to be in order (a PUBACK of the first copy answers for the second), and that the order is kept needs the
result, which advances `next_seq`, to be genuine. `ServiceServed` and the refinement follow from `Inv`.

`ControllerServed` and `InFlightAnswered` need none of the names, only `OnePublish`, `Connection` and `Controller`, and two
parts of their own:

* `Attempt`: a CONNECTING controller has a connect that waits, or an attempt of the current generation, or its news on the
  way; a CONNECTED one has the connection; or else an event that ends both is on its way (`Doomed`). That the news of a
  connection is still true when it is handled is the hard part: if the connection was lost meanwhile, the event that says
  so is behind the news in the queue (`Covered`).
* `Answered`: the publish in flight is accepted in the current generation, or is the worker's job, or waits for a PUBACK
  with the timer on or its work submitted (`Busy`). A new generation, which makes the worker drop a payload without a
  result, comes only with an event after which the service is not in flight (`GenerationStays`).

`BirthsTellSessionsApart` needs neither names nor room. Its premise `FreshBdSeqs` says that bdSeq, which the service steps at
every loss of LTE, ERROR and DISCONNECTED and which wraps at 256 (`measurement_service.c:246-257`), does not come back to
a number that an NBIRTH at the broker, on its way or with the worker still has; with the constants of `orig_safety` TLC
finds it true in every step. The invariant `Births` has the reason why one number per session is enough: once the
worker has the NBIRTH of a session no attempt to connect is under way until the controller has handled the end of the
connection, and with that the service has taken the next number.

For the LED, for any number of flashes and of PWM writes that fail (`LedConstants`):

| Theorem (`OrigLed_proofs`) | |
|---|---|
| `InductiveInvariant` | `Spec => []Inductive` |
| `TypeCorrect` | `Spec => []TypeOK` |
| `WorksCorrect` | `Spec => []WorksServeDisplay` |
| `DarkIsTemporary` | `Spec => []NeverLeftDark` |

Neither property is inductive alone: that the next turn of a work lights the LED needs the colour to be what that
work left (`ColorFollows`), and that a work is left to do so needs the works to follow what is displayed
(`WorksFollow`). A step of main between a flash's two halves keeps both, as it cancels the one and sets the other.

For the deployment, for any scripts, any of which work, and any number of faults and restarts
(`DeployConstants`):

| Theorem (`DeployIngest_proofs`) | |
|---|---|
| `TypeCorrect` | `Spec => []TypeOK` |
| `InstalledCorrect` | `Spec => []RunsWhatIsInstalled` |

The invariant says, phase by phase, when the process runs what is installed: from the restart to the end of the
job, in the whole of the outage test, and while idle after `deployed`, `rolled_back` or a test that followed them.

For the dashboard, for any table, timestamps, devices, page sizes and number of loads in flight and of failures
(`ReadingsConstants`, `ViewConstants`):

| Theorem (`ReadingsView_proofs`) | |
|---|---|
| `LoadingServed` | `Spec => []LoadingIsServed` |
| `FiltersStay` | `HistorySpec => []SerialFilters` |
| `PositionStays` | `HistorySpec => []SerialPosition` |
| `PagesAreTheHistory` | `HistorySpec => [](TimesDiffer(table) => WholeHistory)` |

They rest on what a page is. `Sorted` says that `ORDER BY timestamp DESC` has a result for every finite set of rows,
by induction on its size (the least counterexample, `WFMin`, loses its oldest row). `PageFacts` and `NextPageIsFurther`
say that the rows of a page lie below its cursor, and that with `next_cursor` at least one page size more lie in front.
The invariant `Serial` then says what the code never writes down: between two loads the refs `current` and
`cursors` are those of the screen, and the cursor of page `i` has at least `i * page_size` matching rows in front
(`Settled`, `CursorsFit`); the one load in flight asks for what the refs say, and what it has got is of that
(`RequestFits`); all of this survives rows that are stored meanwhile (`GrowingTable`). The premise `~disturbed` is
needed: see section 5.

`PagesAreTheHistory` has the premise `TimesDiffer`, that no two stored readings have one timestamp; finding 2 shows that it
cannot be dropped. The pages are defined by recursion over the cursors, so the proof first shows that there is such a
function (`WalkExists`, `PagesExist`: without ties each next cursor has fewer rows below it) and what flattening does
(`FlattenIsDefined`, `FlattenCons`). The order of `ORDER BY` is unique (`SortedIs`), so that what follows a page in it is
exactly what lies below its last row (`RestIsBelow`, `PageAndRest`); `WalkIsAll` puts the pages together, by the cursor
with the fewest rows below it for which they would not fit.

Every invariant and action property that a passing run checks is thus stated by a theorem, but for `NamesAreFresh`, which
is a premise: ids and tokens come back after 2^16 and 2^32 publishes, and nothing in the code asks whether the last use
is over. Only model-checked are it and all liveness (`Delivers`, `Recovers`, `EventuallyHandled`, `ReturnsToStable`,
`StoppedIsStarted`, `EndsOnLastFilters`), which is out of the prover's reach, and that `FreshBdSeqs` and `HasRoom` hold
for the constants of `orig_safety`.

## 5. Findings

Shown by a run:

1. *An interrupted deployment is never finished.* After a kill between `os.replace` and the restart, the new file is
   installed and the old process runs; the repeated deployment finds the content identical (`deploy_ingest.py:68`)
   and reports success without a restart. The same after a rollback whose restart failed.
2. *Readings of one timestamp are lost at a page boundary.* The cursor is a bare timestamp with an exclusive
   bound (`api.php:164`): a row of another device with the timestamp of the last row of a page is on no page.

Other differences between a comment or document and the code that were met while modelling. Each is a
behaviour of the model; the property that it breaks is given, to be checked with the constants of the run named.

| What | Breaks | With |
|---|---|---|
| A repeated NDATA has another `seq`, as the session starts again at 1 (Simple `main.c:154`, Original `data_transmission.c:157`). | `docs/sparkplug.md:57-58`: it keeps it | `simple_safety` |
| `bdSeq` counts every end of an attempt (Simple `main.c:205`); the Original counts the loss of LTE, ERROR and DISCONNECTED of one connection each (`measurement_service.c:216`). | `main.c:56`: it counts sessions; `measurement_service.c:24`: connections | `simple_safety`, `orig_safety`: an action property on `host_bd` |
| The MQTT_DISCONNECTED that LTE loss causes sets the LED to red while the modem searches (`app_controller.c:101-102`). | `led_status.h:9`: searching is blue, blinking | `orig_safety`: `~Unsettled /\ modem = "LTE_SEARCHING" => led = "SEARCHING"` |
| LTE that comes back before the old connection is closed starts no attempt: `connect` returns -EALREADY (`mqtt_client.c:395`) and the controller backs off. | `docs/mqtt-reconnect.md:8-9`: a new registration starts an attempt at once | `orig_safety` |
| A PWM write that fails at the start of a flash leaves the flash displayed (`led_status.c:274`). | `led_status.h:50-52`: it returns automatically | `led`: `NoMoreCalls => <>[](displayed_status = stable_status)` |
| Ingest can store a message before an earlier one: `connection_lost` counts first and empties the queue afterwards; the worker, having given up a retry, may take the next entry of the old connection. Rows are ordered by timestamp, so the table ends up the same. | `ingest.py:274`: stored in order | `ingest` |
| A payload that raises something other than ValueError or TypeError (`struct.error`, `AttributeError`, `OSError`, `OverflowError`) is never acknowledged (`ingest.py:316`); the process ends, is restarted, and gets it again, with other messages behind it. | `ingest.py:276-277`: an invalid payload is handled | `ingest`: `EventuallyHandled` without its exception |
| A subscription that the old process logged in the second in which the deployment starts, or before the restart, makes a script that never subscribes count as deployed (`deploy_ingest.py:55, 73`). | `cloud/mqtt/README.md:157-159` | `deploy`: `Finished({"deployed"}) => container.script \in Works` |
| A restart of the machine during the outage test takes the transient timer with it; the stopped container stays stopped. | `verify_ingest_outage.py:2`: always restarted | `deploy`: `At("stopped") ~> container.up` |
| The answer to a load started with other filters is shown under the current ones (`use-readings.ts:84`), until the next load. | `cloud/visualization/README.md:36` | `view`: `FiltersAreShown` |
| A load started before a change of page size leaves its cursor among those of the new size (`use-readings.ts:72`); after a failed load of the first page "next" shows it as the second (`use-readings.ts:54`). | `use-readings.ts:42` | `view`: `PositionIsTrue` |

## 6. Plan

Done: `Outbox`, the Simple firmware with proofs, `Ingest` with proofs, the Original firmware (controller, MQTT
client, measurement service, LED) with proofs, the deployment with proofs, the dashboard.
What is left, in this order:

1. `Pipeline`: device (as `Outbox`), broker, `Ingest` and a deduplicating table composed; abstract
   specification: every accepted reading is stored, once.
2. Operators checked against references over bounded inputs: varint, grouping by timestamp.

## 7. Not modelled

Byte layout of Sparkplug and line protocol, values and units, averages of the dashboard, TLS and the provisioning of
credentials, LED hardware. Failures of the start-up in the two `main.c`, after which the firmware stops. The
modem's reports of PSM, eDRX, RRC and mode, which `network.c` only logs. Schema migration and verification
(`questdb_schema.py`, `migrations/`): one SQL statement and its read-back. The query that judges the outage test. The
user interface apart from its data hook and the buttons that call it. Documents and build files.
