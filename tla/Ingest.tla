-------------------------------- MODULE Ingest --------------------------------
(***************************************************************************)
(* The cloud ingest (cloud/mqtt/ingest.py): paho's network thread with its *)
(* callbacks, the DeliveryWorker in the main thread with the queue between *)
(* them, and, as external parts, the broker's persistent session and       *)
(* QuestDB. The process may die at any step and is started again. The      *)
(* session exists from the start: an earlier process has subscribed.       *)
(*                                                                         *)
(* Messages are numbered in the order in which the broker took them in.    *)
(***************************************************************************)
EXTENDS Integers, Sequences, FiniteSets

CONSTANTS
    MaxMessages,        \* bound: how many messages are published
    Kind,               \* what each message is
    PacketIds,          \* MQTT packet identifiers
    ReceiveMaximum,     \* MQTT_RECEIVE_MAXIMUM, 10 in the code
    MaxFaults           \* bound: how many faults the environment commits

Messages == 1 .. MaxMessages

\* "readings": parsed to rows; "refused": rows that QuestDB answers with HTTP 400;
\* "nothing": an NBIRTH, or a payload for which parsing raises ValueError or
\* TypeError; "raises": a payload for which parsing raises something else, such as
\* struct.error for a metric value of the wrong size (ingest.py:175).
ASSUME IngestConstants ==
    /\ MaxMessages \in Nat
    /\ Kind \in [Messages -> {"readings", "refused", "nothing", "raises"}]
    /\ ReceiveMaximum \in Nat \ {0}
    /\ MaxFaults \in Nat

VARIABLES
    published,      \* how many messages the broker has taken in
    waiting,        \* messages in the persistent session, not acknowledged
    inflight,       \* packet id -> the message sent under it on this connection
    wire,           \* deliveries on the way to the client
    pubacks,        \* packet ids of PUBACKs on the way to the broker
    net,            \* paho's network thread
    connection, queue,  \* of DeliveryWorker
    step, item,     \* where run/process is and the delivery it works on
    rows,           \* messages whose rows QuestDB has
    faults

brokerVars == <<published, waiting, inflight, wire, pubacks>>
workerVars == <<step, item>>
vars == <<brokerVars, net, connection, queue, workerVars, rows, faults>>

None == 0
Delivery == [connection : Nat, id : PacketIds, message : Messages]
NoDelivery == [connection |-> 0, id |-> None, message |-> None]

TypeOK ==
    /\ published \in 0 .. MaxMessages
    /\ waiting \subseteq 1 .. published
    /\ inflight \in [PacketIds -> Messages \cup {None}]
    /\ wire \in Seq([id : PacketIds, message : Messages])
    /\ pubacks \subseteq PacketIds
    /\ net \in {"up", "lost", "drain", "down"}
    /\ connection \in 0 .. faults
    /\ queue \in Seq(Delivery)
    /\ step \in {"idle", "parse", "write", "retry", "ack"}
    /\ item \in Delivery \cup {NoDelivery} /\ (item = NoDelivery <=> step = "idle")
    /\ rows \subseteq Messages
    /\ faults \in 0 .. MaxFaults

Init ==
    /\ published = 0 /\ waiting = {}
    /\ inflight = [id \in PacketIds |-> None]
    /\ wire = <<>> /\ pubacks = {}
    /\ net = "down"
    /\ connection = 0 /\ queue = <<>>
    /\ step = "idle" /\ item = NoDelivery
    /\ rows = {}
    /\ faults = 0

Fault == faults < MaxFaults /\ faults' = faults + 1

-----------------------------------------------------------------------------
(* The broker (external): a persistent session with a fixed client id.     *)

\* A device publishes on a subscribed topic.
Publish ==
    /\ published < MaxMessages
    /\ published' = published + 1
    /\ waiting' = waiting \cup {published + 1}
    /\ UNCHANGED <<inflight, wire, pubacks, net, connection, queue, workerVars, rows, faults>>

Sent == {inflight[id] : id \in PacketIds} \ {None}
Used == {id \in PacketIds : inflight[id] # None}

\* The oldest message that was not yet sent on this connection is sent under a
\* free packet id, within Receive Maximum. The comment in ack() counts on no
\* more: a redelivered message may have a new id.
Deliver(m, id) ==
    /\ net = "up"
    /\ m \in waiting \ Sent /\ \A other \in waiting \ Sent : m <= other
    /\ id \notin Used /\ Cardinality(Used) < ReceiveMaximum
    /\ inflight' = [inflight EXCEPT ![id] = m]
    /\ wire' = Append(wire, [id |-> id, message |-> m])
    /\ UNCHANGED <<published, waiting, pubacks, net, connection, queue, workerVars, rows, faults>>

\* A PUBACK arrives, perhaps when the client has already lost the connection:
\* the message leaves the session.
Acknowledged(id) ==
    /\ id \in pubacks
    /\ pubacks' = pubacks \ {id}
    /\ waiting' = waiting \ {inflight[id]}
    /\ inflight' = [inflight EXCEPT ![id] = None]
    /\ UNCHANGED <<published, wire, net, connection, queue, workerVars, rows, faults>>

-----------------------------------------------------------------------------
(* paho's network thread, one thread for all callbacks.                    *)

\* Variant: a new connection is counted, too.
ConnectCounts ==
    /\ net = "down"
    /\ net' = "up"
    /\ inflight' = [id \in PacketIds |-> None]
    /\ wire' = <<>> /\ pubacks' = {}
    /\ connection' = connection + 1
    /\ UNCHANGED <<published, waiting, queue, workerVars, rows, faults>>

\* connect_client, or paho's own reconnect: clean_start is FALSE, so the session
\* stays; what was queued for the old socket is gone, and every unacknowledged
\* message will be sent again.
Connect ==
    /\ net = "down"
    /\ net' = "up"
    /\ inflight' = [id \in PacketIds |-> None]
    /\ wire' = <<>> /\ pubacks' = {}
    /\ UNCHANGED <<published, waiting, connection, queue, workerVars, rows, faults>>

\* on_connect with rc # 0: paho calls on_disconnect next.
ConnectRefused ==
    /\ net = "down" /\ Fault
    /\ net' = "lost"
    /\ UNCHANGED <<brokerVars, connection, queue, workerVars, rows>>

\* on_message: submit puts the delivery in the queue with the number of the
\* connection; a full queue leaves it unacknowledged.
Submit ==
    /\ net = "up" /\ wire # <<>>
    /\ wire' = Tail(wire)
    /\ queue' = IF Len(queue) < ReceiveMaximum
                THEN Append(queue, [connection |-> connection, id |-> Head(wire).id,
                                    message |-> Head(wire).message])
                ELSE queue
    /\ UNCHANGED <<published, waiting, inflight, pubacks, net, connection, workerVars,
                   rows, faults>>

SocketLost ==
    /\ net = "up" /\ Fault
    /\ net' = "lost"
    /\ UNCHANGED <<brokerVars, connection, queue, workerVars, rows>>

\* Variant: connection_lost does not count.
CountLostForgets ==
    /\ net = "lost"
    /\ net' = "drain"
    /\ UNCHANGED <<brokerVars, connection, queue, workerVars, rows, faults>>

\* connection_lost, under the lock.
CountLost ==
    /\ net = "lost"
    /\ net' = "drain"
    /\ connection' = connection + 1
    /\ UNCHANGED <<brokerVars, queue, workerVars, rows, faults>>

\* Variant: connection_lost leaves the queue alone.
DrainKeepsQueue ==
    /\ net = "drain"
    /\ net' = "down"
    /\ UNCHANGED <<brokerVars, connection, queue, workerVars, rows, faults>>

\* Its loop over the queue, which the worker may empty at the same time. paho
\* connects again only after on_disconnect has returned.
Drain ==
    /\ net = "drain"
    /\ IF queue # <<>> THEN queue' = Tail(queue) /\ UNCHANGED net
                       ELSE net' = "down" /\ UNCHANGED queue
    /\ UNCHANGED <<brokerVars, connection, workerVars, rows, faults>>

-----------------------------------------------------------------------------
(* DeliveryWorker.run and process, in the main thread.                     *)

TakeNext == step' = "idle" /\ item' = NoDelivery

Take ==
    /\ step = "idle" /\ queue # <<>>
    /\ step' = "parse"
    /\ item' = Head(queue)
    /\ queue' = Tail(queue)
    /\ UNCHANGED <<brokerVars, net, connection, rows, faults>>

\* parse_message: a payload that is invalid or has no readings is acknowledged.
Parse ==
    /\ step = "parse"
    /\ Kind[item.message] # "raises"
    /\ step' = IF Kind[item.message] = "nothing" THEN "ack" ELSE "write"
    /\ UNCHANGED <<brokerVars, net, connection, queue, item, rows, faults>>

\* write_questdb: accepted; refused for good; accepted, but the answer is lost;
\* or not accepted, for a reason that may pass.
Written ==
    /\ step = "write" /\ Kind[item.message] = "readings"
    /\ step' = "ack"
    /\ rows' = rows \cup {item.message}
    /\ UNCHANGED <<brokerVars, net, connection, queue, item, faults>>

Refused ==
    /\ step = "write" /\ Kind[item.message] = "refused"
    /\ step' = "ack"
    /\ UNCHANGED <<brokerVars, net, connection, queue, item, rows, faults>>

WriteFails ==
    /\ step = "write" /\ Fault
    /\ step' = "retry"
    /\ rows' \in {rows} \cup
                 (IF Kind[item.message] = "readings" THEN {rows \cup {item.message}} ELSE {})
    /\ UNCHANGED <<brokerVars, net, connection, queue, item>>

IsCurrent == item.connection = connection

\* After the sleep: again, unless the broker will deliver the message again.
Retry ==
    /\ step = "retry"
    /\ IF IsCurrent THEN step' = "write" /\ UNCHANGED item ELSE TakeNext
    /\ UNCHANGED <<brokerVars, net, connection, queue, rows, faults>>

\* Variant: the connection is not compared.
AckAnyConnection ==
    /\ step = "ack" /\ TakeNext
    /\ pubacks' = IF net = "up" THEN pubacks \cup {item.id} ELSE pubacks
    /\ UNCHANGED <<published, waiting, inflight, wire, net, connection, queue, rows,
                   faults>>

\* ack, under the lock. The PUBACK is queued in paho and is gone if the socket
\* is already lost.
Ack ==
    /\ step = "ack" /\ TakeNext
    /\ pubacks' = IF IsCurrent /\ net = "up" THEN pubacks \cup {item.id} ELSE pubacks
    /\ UNCHANGED <<published, waiting, inflight, wire, net, connection, queue, rows,
                   faults>>

-----------------------------------------------------------------------------
(* The process dies and is started again (restart: unless-stopped); only   *)
(* the broker and QuestDB remember.                                        *)

Restart ==
    /\ net' = "down" /\ connection' = 0 /\ queue' = <<>> /\ TakeNext
    /\ UNCHANGED <<brokerVars, rows>>

Crash == Fault /\ Restart

\* parse_message raises what process() does not catch: run() ends, and main().
ParseRaises ==
    /\ step = "parse" /\ Kind[item.message] = "raises"
    /\ Restart
    /\ UNCHANGED faults

-----------------------------------------------------------------------------
Broker == Publish \/ (\E m \in Messages, id \in PacketIds : Deliver(m, id))
                  \/ (\E id \in PacketIds : Acknowledged(id))
Network == Connect \/ ConnectRefused \/ Submit \/ SocketLost \/ CountLost \/ Drain
Worker == Take \/ Parse \/ Written \/ Refused \/ WriteFails \/ Retry \/ Ack
          \/ ParseRaises

Next == Broker \/ Network \/ Worker \/ Crash

Spec == Init /\ [][Next]_vars

\* The broker delivers and takes in what arrives, both threads run, QuestDB
\* answers in the end; nothing forces a device to publish or a fault to happen.
Fairness ==
    /\ WF_vars(\E m \in Messages, id \in PacketIds : Deliver(m, id))
    /\ WF_vars(\E id \in PacketIds : Acknowledged(id))
    /\ WF_vars(Connect) /\ WF_vars(Submit) /\ WF_vars(CountLost) /\ WF_vars(Drain)
    /\ WF_vars(Take \/ Parse \/ ParseRaises \/ Written \/ Refused \/ Retry \/ Ack)

FairSpec == Spec /\ Fairness

-----------------------------------------------------------------------------
Handled(m) == m \in rows \/ Kind[m] \in {"refused", "nothing"}

\* The docstring of DeliveryWorker: a message stays unacknowledged, so that the
\* session delivers it again, until QuestDB has its rows or it has none that
\* QuestDB could take. No crash, lost connection or lost answer loses a reading.
NoLoss == \A m \in 1 .. published : m \in waiting \/ Handled(m)

\* ack() compares connections because a packet id is used again: whatever the
\* broker has in flight under an id that is being acknowledged was handled.
NoForeignAck == \A id \in pubacks : inflight[id] # None /\ Handled(inflight[id])

\* submit(): the queue is full "only if the broker ignores Receive Maximum". An
\* entry left over from an earlier connection would take the place of a delivery,
\* which would then wait for the next reconnect.
QueueNeverFull == net = "up" /\ wire # <<>> => Len(queue) < ReceiveMaximum

\* Every message leaves the session in the end, stored if it has readings, when
\* restarts, lost connections and temporary errors come to an end. The exception is
\* one that makes the parser raise what process() does not catch (ingest.py:316): it
\* ends each process that reaches it, and no other message is sure to be handled
\* while the session holds it.
EventuallyHandled ==
    \A m \in Messages :
        m \in waiting ~> \/ m \notin waiting /\ Handled(m)
                         \/ \E other \in waiting : Kind[other] = "raises"
=============================================================================
