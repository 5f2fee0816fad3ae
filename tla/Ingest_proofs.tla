---------------------------- MODULE Ingest_proofs ----------------------------
(***************************************************************************)
(* Proofs about Ingest, for any number and kind of messages, any set of    *)
(* packet ids, any Receive Maximum and any number of faults.               *)
(***************************************************************************)
EXTENDS Ingest, FiniteSetTheorems, TLAPS

\* What is on the wire is in flight under its id, once, and not yet being
\* acknowledged.
WireInFlight ==
    /\ \A i \in 1 .. Len(wire) : /\ inflight[wire[i].id] = wire[i].message
                                 /\ wire[i].id \notin pubacks
    /\ \A i, j \in 1 .. Len(wire) : i # j => wire[i].id # wire[j].id

\* The same for a delivery that the client holds, if it is one of this connection.
HeldInFlight(d) ==
    /\ d.connection <= connection
    /\ d.connection = connection =>
          /\ net \in {"up", "lost"}
          /\ inflight[d.id] = d.message
          /\ d.id \notin pubacks
          /\ \A i \in 1 .. Len(wire) : wire[i].id # d.id

QueueInFlight ==
    /\ \A i \in 1 .. Len(queue) : HeldInFlight(queue[i])
    /\ \A i, j \in 1 .. Len(queue) :
          i # j /\ queue[i].connection = connection /\ queue[j].connection = connection
             => queue[i].id # queue[j].id

ItemInFlight ==
    step # "idle" =>
       /\ HeldInFlight(item)
       /\ item.connection = connection =>
             \A i \in 1 .. Len(queue) :
                queue[i].connection = connection => queue[i].id # item.id

\* A connection that is lost was not counted yet.
LostOnce == net = "lost" => connection < faults

AckHandled == step = "ack" => Handled(item.message)

Inductive ==
    /\ TypeOK
    /\ LostOnce
    /\ WireInFlight
    /\ QueueInFlight
    /\ ItemInFlight
    /\ AckHandled
    /\ NoForeignAck
    /\ NoLoss

-----------------------------------------------------------------------------
USE DEF brokerVars, workerVars, Fault, TakeNext, None

\* What taking from the front of a queue and adding at its end leave in it.
LEMMA TailFacts ==
    ASSUME NEW S, NEW s \in Seq(S), s # <<>>
    PROVE  /\ Head(s) = s[1] /\ Head(s) \in S /\ 1 \in 1 .. Len(s)
           /\ Tail(s) \in Seq(S)
           /\ \A i \in 1 .. Len(Tail(s)) : i + 1 \in 1 .. Len(s) /\ Tail(s)[i] = s[i + 1]
  OBVIOUS

LEMMA AppendFacts ==
    ASSUME NEW S, NEW s \in Seq(S), NEW e \in S
    PROVE  /\ Append(s, e) \in Seq(S)
           /\ Len(Append(s, e)) = Len(s) + 1
           /\ \A i \in 1 .. Len(s) : Append(s, e)[i] = s[i]
           /\ Append(s, e)[Len(s) + 1] = e
  OBVIOUS

Wired == [id : PacketIds, message : Messages]

DeliverAny == \E m \in Messages, id \in PacketIds : Deliver(m, id)
AcknowledgedAny == \E id \in PacketIds : Acknowledged(id)

\* Every step is one of the actions.
LEMMA NextCases ==
    ASSUME [Next]_vars
    PROVE  \/ Publish \/ DeliverAny \/ AcknowledgedAny
           \/ Connect \/ ConnectRefused \/ Submit \/ SocketLost \/ CountLost \/ Drain
           \/ Take \/ Parse \/ Written \/ Refused \/ WriteFails \/ Retry \/ Ack
           \/ ParseRaises \/ Crash \/ UNCHANGED vars
  BY Zenon DEF Next, Broker, Network, Worker, DeliverAny, AcknowledgedAny

LEMMA InitInductive == Init => Inductive
  <1> SUFFICES ASSUME Init PROVE Inductive
    OBVIOUS
  <1>1. TypeOK /\ LostOnce
    BY IngestConstants DEF Init, TypeOK, LostOnce
  <1>2. WireInFlight /\ QueueInFlight
    BY DEF Init, WireInFlight, QueueInFlight
  <1>3. ItemInFlight /\ AckHandled /\ NoForeignAck /\ NoLoss
    BY DEF Init, ItemInFlight, AckHandled, NoForeignAck, NoLoss
  <1> QED
    BY <1>1, <1>2, <1>3 DEF Inductive

LEMMA TypeStep ==
    ASSUME TypeOK, LostOnce, [Next]_vars
    PROVE  TypeOK' /\ LostOnce'
  <1>1. CASE Publish
    BY IngestConstants, <1>1 DEF Publish, TypeOK, LostOnce, Messages
  <1>2. CASE DeliverAny
    BY <1>2 DEF DeliverAny, Deliver, TypeOK, LostOnce, Messages
  <1>3. CASE AcknowledgedAny
    BY <1>3 DEF AcknowledgedAny, Acknowledged, TypeOK, LostOnce
  <1>4. CASE Connect
    BY <1>4 DEF Connect, TypeOK, LostOnce
  <1>5. CASE ConnectRefused
    BY IngestConstants, <1>5 DEF ConnectRefused, TypeOK, LostOnce
  <1>6. CASE Submit
    <2> DEFINE d == [connection |-> connection, id |-> Head(wire).id,
                     message |-> Head(wire).message]
    <2>1. Head(wire) \in Wired /\ Tail(wire) \in Seq(Wired)
      BY <1>6, TailFacts, Zenon DEF Submit, TypeOK, Wired
    <2>2. d \in Delivery
      BY <2>1 DEF TypeOK, Delivery, Wired
    <2>3. Append(queue, d) \in Seq(Delivery)
      BY <2>2, AppendFacts, Zenon DEF TypeOK
    <2>4. wire' \in Seq(Wired) /\ queue' \in Seq(Delivery)
      BY <1>6, <2>1, <2>3 DEF Submit, TypeOK
    <2> QED
      BY <1>6, <2>4 DEF Submit, TypeOK, LostOnce, Wired
  <1>7. CASE SocketLost
    BY IngestConstants, <1>7 DEF SocketLost, TypeOK, LostOnce
  <1>8. CASE CountLost
    BY IngestConstants, <1>8 DEF CountLost, TypeOK, LostOnce
  <1>9. CASE Drain
    <2>1. queue # <<>> => Tail(queue) \in Seq(Delivery)
      BY TailFacts, Zenon DEF TypeOK
    <2>2. queue' \in Seq(Delivery)
      BY <1>9, <2>1 DEF Drain, TypeOK
    <2> QED
      BY <1>9, <2>2 DEF Drain, TypeOK, LostOnce
  <1>10. CASE Take
    <2>1. Head(queue) \in Delivery /\ Tail(queue) \in Seq(Delivery)
      BY <1>10, TailFacts, Zenon DEF Take, TypeOK
    <2>2. NoDelivery \notin Delivery
      BY DEF NoDelivery, Delivery, Messages
    <2> QED
      BY <1>10, <2>1, <2>2 DEF Take, TypeOK, LostOnce
  <1>11. CASE Parse
    BY <1>11 DEF Parse, TypeOK, LostOnce
  <1>12. CASE Written
    BY <1>12 DEF Written, TypeOK, LostOnce, Delivery
  <1>13. CASE Refused
    BY <1>13 DEF Refused, TypeOK, LostOnce
  <1>14. CASE WriteFails
    BY IngestConstants, <1>14 DEF WriteFails, TypeOK, LostOnce, Delivery
  <1>15. CASE Retry
    BY <1>15 DEF Retry, TypeOK, LostOnce
  <1>16. CASE Ack
    <2>1. item.id \in PacketIds
      BY <1>16 DEF Ack, TypeOK, Delivery
    <2> QED
      BY <1>16, <2>1 DEF Ack, TypeOK, LostOnce
  <1>17. CASE ParseRaises
    BY <1>17 DEF ParseRaises, Restart, TypeOK, LostOnce
  <1>18. CASE Crash
    BY IngestConstants, <1>18 DEF Crash, Restart, TypeOK, LostOnce
  <1>19. CASE UNCHANGED vars
    BY <1>19 DEF vars, TypeOK, LostOnce
  <1> QED
    BY NextCases, <1>1, <1>2, <1>3, <1>4, <1>5, <1>6, <1>7, <1>8, <1>9, <1>10, <1>11,
       <1>12, <1>13, <1>14, <1>15, <1>16, <1>17, <1>18, <1>19, Zenon

\* The types of what the invariant speaks of, apart from TypeOK.
LEMMA Typed ==
    ASSUME TypeOK
    PROVE  /\ wire \in Seq(Wired) /\ queue \in Seq(Delivery)
           /\ \A i \in 1 .. Len(wire) : wire[i].id \in PacketIds /\ wire[i].message \in Messages
           /\ \A i \in 1 .. Len(queue) : /\ queue[i] \in Delivery
                                         /\ queue[i].id \in PacketIds
                                         /\ queue[i].message \in Messages
                                         /\ queue[i].connection \in Nat
           /\ step # "idle" => /\ item \in Delivery /\ item.id \in PacketIds
                               /\ item.message \in Messages /\ item.connection \in Nat
           /\ connection \in Nat
           /\ None \notin Messages
  <1>1. wire \in Seq(Wired) /\ queue \in Seq(Delivery) /\ connection \in Nat
    BY DEF TypeOK, Wired
  <1>2. \A i \in 1 .. Len(wire) : wire[i] \in Wired
    BY <1>1
  <1>3. \A i \in 1 .. Len(queue) : queue[i] \in Delivery
    BY <1>1
  <1>4. step # "idle" => item \in Delivery
    BY DEF TypeOK
  <1> QED
    BY <1>1, <1>2, <1>3, <1>4 DEF Wired, Delivery, Messages

\* The steps that change nothing that WireInFlight, QueueInFlight and ItemInFlight
\* speak of, but perhaps let the worker go on or drop what it has.
Quiet ==
    /\ UNCHANGED <<inflight, wire, pubacks, net, connection, queue>>
    /\ (UNCHANGED item /\ step # "idle") \/ step' = "idle" \/ (UNCHANGED <<step, item>>)

LEMMA QuietSteps ==
    ASSUME Publish \/ Parse \/ Written \/ Refused \/ WriteFails \/ Retry \/ UNCHANGED vars
    PROVE  Quiet
  <1>1. CASE Publish
    BY <1>1 DEF Publish, Quiet
  <1>2. CASE Parse
    BY <1>2 DEF Parse, Quiet
  <1>3. CASE Written
    BY <1>3 DEF Written, Quiet
  <1>4. CASE Refused
    BY <1>4 DEF Refused, Quiet
  <1>5. CASE WriteFails
    BY <1>5 DEF WriteFails, Quiet
  <1>6. CASE Retry
    BY <1>6 DEF Retry, Quiet
  <1>7. CASE UNCHANGED vars
    BY <1>7 DEF vars, Quiet
  <1> QED
    BY <1>1, <1>2, <1>3, <1>4, <1>5, <1>6, <1>7

LEMMA Cases ==
    ASSUME [Next]_vars
    PROVE  \/ DeliverAny \/ AcknowledgedAny \/ Connect \/ Submit \/ ConnectRefused \/ SocketLost
           \/ CountLost \/ Drain \/ Take \/ Ack \/ Restart \/ Quiet
  BY NextCases, QuietSteps, Zenon DEF ParseRaises, Crash

LEMMA WireStep ==
    ASSUME TypeOK, WireInFlight, ItemInFlight, NoForeignAck, [Next]_vars
    PROVE  WireInFlight'
  <1>1. CASE DeliverAny
    <2> PICK m \in Messages, id \in PacketIds : Deliver(m, id)
      BY <1>1 DEF DeliverAny
    <2> DEFINE d == [id |-> id, message |-> m]
    <2>1. inflight[id] = None /\ inflight' = [inflight EXCEPT ![id] = m]
          /\ wire' = Append(wire, d) /\ pubacks' = pubacks
      BY DEF Deliver, Used
    <2>2. id \notin pubacks
      BY <2>1 DEF NoForeignAck
    <2>3. \A i \in 1 .. Len(wire) : wire[i].id # id
      BY <2>1, Typed DEF WireInFlight
    <2>4. \A other \in PacketIds : inflight'[other] = IF other = id THEN m ELSE inflight[other]
      BY <2>1 DEF TypeOK
    <2>5. /\ Len(wire') = Len(wire) + 1 /\ wire'[Len(wire) + 1] = d
          /\ \A i \in 1 .. Len(wire) : wire'[i] = wire[i]
      BY <2>1, Typed, AppendFacts DEF Wired
    <2>6. Len(wire) \in Nat
      BY Typed
    <2>7. \A i \in 1 .. Len(wire') : i \in 1 .. Len(wire) \/ i = Len(wire) + 1
      BY <2>5, <2>6
    <2>8. \A i \in 1 .. Len(wire') : inflight'[wire'[i].id] = wire'[i].message
                                     /\ wire'[i].id \notin pubacks'
      BY <2>1, <2>2, <2>3, <2>4, <2>5, <2>7, Typed DEF WireInFlight
    <2>9. \A i, j \in 1 .. Len(wire') : i # j => wire'[i].id # wire'[j].id
      BY <2>3, <2>5, <2>7 DEF WireInFlight
    <2> QED
      BY <2>8, <2>9 DEF WireInFlight
  <1>2. CASE AcknowledgedAny
    <2> PICK id \in PacketIds : Acknowledged(id)
      BY <1>2 DEF AcknowledgedAny
    <2>1. \A i \in 1 .. Len(wire) : wire[i].id # id /\ wire[i].id \in PacketIds
      BY Typed DEF Acknowledged, WireInFlight
    <2> QED
      BY <2>1 DEF Acknowledged, WireInFlight, TypeOK
  <1>3. CASE Connect
    BY <1>3 DEF Connect, WireInFlight
  <1>4. CASE Submit
    BY <1>4, Typed, TailFacts DEF Submit, WireInFlight
  <1>5. CASE Ack
    BY <1>5 DEF Ack, WireInFlight, ItemInFlight, HeldInFlight, IsCurrent
  <1>6. CASE ConnectRefused \/ SocketLost \/ CountLost \/ Drain \/ Take \/ Restart \/ Quiet
    <2>1. UNCHANGED <<inflight, wire, pubacks>>
      BY <1>6 DEF ConnectRefused, SocketLost, CountLost, Drain, Take, Restart, Quiet
    <2> QED
      BY <2>1 DEF WireInFlight
  <1> QED
    BY Cases, <1>1, <1>2, <1>3, <1>4, <1>5, <1>6, Zenon

\* A new connection or a new process starts with nothing held from the old one.
LEMMA NothingCurrent ==
    ASSUME TypeOK, QueueInFlight, ItemInFlight, net \in {"drain", "down"}
    PROVE  /\ \A i \in 1 .. Len(queue) : queue[i].connection < connection
           /\ step # "idle" => item.connection < connection
  <1>1. \A i \in 1 .. Len(queue) : queue[i].connection <= connection
                                  /\ queue[i].connection # connection
    BY DEF QueueInFlight, HeldInFlight
  <1>2. step # "idle" => item.connection <= connection /\ item.connection # connection
    BY DEF ItemInFlight, HeldInFlight
  <1> QED
    BY <1>1, <1>2, Typed

\* A delivery that the client holds stays in flight under its id. (It does not
\* change, so the two states have it in common.)
LEMMA HeldStep ==
    ASSUME TypeOK, WireInFlight, ItemInFlight, NoForeignAck, [Next]_vars,
           NEW d \in Delivery, HeldInFlight(d),
           Ack /\ d.connection = item.connection => d.id # item.id
    PROVE  HeldInFlight(d)' \/ Restart
  <1> USE DEF HeldInFlight
  <1> d.id \in PacketIds /\ d.message \in Messages /\ d.connection \in Nat
    BY DEF Delivery
  <1>1. CASE DeliverAny
    <2> PICK m \in Messages, id \in PacketIds : Deliver(m, id)
      BY <1>1 DEF DeliverAny
    <2> DEFINE w == [id |-> id, message |-> m]
    <2>1. inflight[id] = None /\ inflight' = [inflight EXCEPT ![id] = m]
          /\ wire' = Append(wire, w) /\ UNCHANGED <<pubacks, net, connection>>
      BY DEF Deliver, Used
    <2>2. d.connection = connection => d.id # id
      BY <2>1, Typed
    <2>3. d.connection = connection => inflight'[d.id] = d.message
      BY <2>1, <2>2 DEF TypeOK
    <2>4. /\ Len(wire') = Len(wire) + 1 /\ wire'[Len(wire) + 1] = w
          /\ \A i \in 1 .. Len(wire) : wire'[i] = wire[i]
      BY <2>1, Typed, AppendFacts DEF Wired
    <2>5. Len(wire) \in Nat
      BY Typed
    <2>6. \A i \in 1 .. Len(wire') : i \in 1 .. Len(wire) \/ i = Len(wire) + 1
      BY <2>4, <2>5
    <2>7. d.connection = connection => \A i \in 1 .. Len(wire') : wire'[i].id # d.id
      BY <2>2, <2>4, <2>6
    <2> QED
      BY <2>1, <2>3, <2>7
  <1>2. CASE AcknowledgedAny
    BY <1>2 DEF AcknowledgedAny, Acknowledged, TypeOK
  <1>3. CASE Connect \/ ConnectRefused \/ CountLost \/ SocketLost
    BY <1>3, Typed DEF Connect, ConnectRefused, CountLost, SocketLost
  <1>4. CASE Submit
    BY <1>4, Typed, TailFacts DEF Submit
  <1>5. CASE Ack
    <2>1. item.id # d.id \/ item.connection # d.connection
      BY <1>5
    <2>2. pubacks' = IF item.connection = connection /\ net = "up" THEN pubacks \cup {item.id}
                                                                ELSE pubacks
      BY <1>5 DEF Ack, IsCurrent
    <2>3. UNCHANGED <<net, connection, inflight, wire>>
      BY <1>5 DEF Ack
    <2> QED
      BY <2>1, <2>2, <2>3
  <1>6. CASE Drain \/ Take \/ Quiet
    <2>1. UNCHANGED <<inflight, wire, pubacks, connection>> /\ (Drain \/ UNCHANGED net)
      BY <1>6 DEF Drain, Take, Quiet
    <2>2. Drain => net = "drain"
      BY DEF Drain
    <2> QED
      BY <2>1, <2>2
  <1> QED
    BY Cases, <1>1, <1>2, <1>3, <1>4, <1>5, <1>6, Zenon

CurrentIdsDiffer ==
    \A i, j \in 1 .. Len(queue) :
       i # j /\ queue[i].connection = connection /\ queue[j].connection = connection
          => queue[i].id # queue[j].id

\* The acknowledged delivery is none of those in the queue.
LEMMA QueueEntryStep ==
    ASSUME TypeOK, WireInFlight, QueueInFlight, ItemInFlight, NoForeignAck, [Next]_vars,
           ~ Restart, NEW i \in 1 .. Len(queue), NEW d, d = queue[i]
    PROVE  HeldInFlight(d)'
  <1>1. d \in Delivery
    BY Typed
  <1>2. HeldInFlight(d)
    BY DEF QueueInFlight
  <1>3. CASE Ack /\ d.connection = connection /\ item.connection = connection
    BY <1>1, <1>2, <1>3, HeldStep DEF Ack, ItemInFlight
  <1>4. CASE ~ Ack
    BY <1>1, <1>2, <1>4, HeldStep
  <1>5. CASE Ack /\ d.connection # connection
    BY <1>1, <1>2, <1>5 DEF Ack, HeldInFlight
  <1>6. CASE Ack /\ item.connection # connection
    BY <1>1, <1>2, <1>6 DEF Ack, HeldInFlight, IsCurrent
  <1> QED
    BY <1>3, <1>4, <1>5, <1>6

LEMMA QueueStep ==
    ASSUME TypeOK, WireInFlight, QueueInFlight, ItemInFlight, NoForeignAck, [Next]_vars
    PROVE  QueueInFlight'
  <1> SUFFICES ASSUME ~ Restart PROVE QueueInFlight'
    BY DEF Restart, QueueInFlight
  <1>1. \A i \in 1 .. Len(queue) : \A d : d = queue[i] => HeldInFlight(d)'
    BY QueueEntryStep, Zenon
  <1>2. CASE UNCHANGED <<queue, connection>>
    BY <1>1, <1>2 DEF QueueInFlight
  <1>3. CASE Submit /\ Len(queue) < ReceiveMaximum
    <2> PICK d : d = [connection |-> connection, id |-> Head(wire).id,
                      message |-> Head(wire).message]
      OBVIOUS
    <2>1. d \in Delivery /\ wire # <<>> /\ Head(wire) = wire[1] /\ 1 \in 1 .. Len(wire)
      BY <1>3, Typed, TailFacts DEF Submit, Delivery
    <2>3. \A i \in 1 .. Len(queue) : queue[i].connection = connection => queue[i].id # d.id
      BY <2>1 DEF QueueInFlight, HeldInFlight
    <2>4. HeldInFlight(d)'
      BY <1>3, <2>1, Typed, TailFacts DEF Submit, HeldInFlight, WireInFlight
    <2>5. queue' = Append(queue, d) /\ connection' = connection
      BY <1>3 DEF Submit
    <2>6. /\ Len(queue') = Len(queue) + 1 /\ queue'[Len(queue) + 1] = d
          /\ \A i \in 1 .. Len(queue) : queue'[i] = queue[i]
      BY <2>1, <2>5, Typed, AppendFacts
    <2>7. \A i \in 1 .. Len(queue') : i \in 1 .. Len(queue) \/ i = Len(queue) + 1
      BY <2>6, Typed
    <2>8. \A i \in 1 .. Len(queue') : HeldInFlight(queue[i])'
      BY <1>1, <2>4, <2>6, <2>7 DEF HeldInFlight
    <2>9. CurrentIdsDiffer'
      BY <2>3, <2>5, <2>6, <2>7 DEF CurrentIdsDiffer, QueueInFlight
    <2> QED
      BY <2>8, <2>9 DEF QueueInFlight, CurrentIdsDiffer
  <1>4. CASE CountLost
    <2>1. queue' = queue /\ \A i \in 1 .. Len(queue) : queue[i].connection # connection'
      BY <1>4, Typed DEF CountLost, QueueInFlight, HeldInFlight
    <2> QED
      BY <1>1, <2>1 DEF QueueInFlight
  <1>5. CASE queue # <<>> /\ queue' = Tail(queue) /\ connection' = connection
    BY <1>1, <1>5, Typed, TailFacts DEF QueueInFlight
  <1>6. \/ UNCHANGED <<queue, connection>> \/ (Submit /\ Len(queue) < ReceiveMaximum) \/ CountLost
        \/ queue # <<>> /\ queue' = Tail(queue) /\ connection' = connection
    BY Cases DEF DeliverAny, Deliver, AcknowledgedAny, Acknowledged, Connect, Submit, ConnectRefused,
       SocketLost, Drain, Take, Ack, Quiet
  <1> QED
    BY <1>2, <1>3, <1>4, <1>5, <1>6, Zenon

LEMMA ItemStep ==
    ASSUME TypeOK, WireInFlight, QueueInFlight, ItemInFlight, NoForeignAck, [Next]_vars
    PROVE  ItemInFlight'
  <1> SUFFICES ASSUME ~ Restart, step' # "idle" PROVE ItemInFlight'
    BY DEF Restart, ItemInFlight
  <1>1. CASE Take
    <2> PICK d : d = queue[1]
      OBVIOUS
    <2>1. item' = d /\ queue' = Tail(queue) /\ UNCHANGED connection /\ 1 \in 1 .. Len(queue)
      BY <1>1, Typed, TailFacts DEF Take
    <2>2. HeldInFlight(d)'
      BY <2>1, QueueEntryStep
    <2>3. \A i \in 1 .. Len(queue') : /\ queue'[i] = queue[i + 1] /\ i + 1 # 1
                                      /\ i + 1 \in 1 .. Len(queue)
      BY <1>1, Typed, TailFacts DEF Take
    <2>4. d.connection = connection =>
             \A i \in 1 .. Len(queue') :
                queue'[i].connection = connection => queue'[i].id # d.id
      BY <2>1, <2>3 DEF QueueInFlight
    <2> QED
      BY <2>1, <2>2, <2>4 DEF ItemInFlight, HeldInFlight
  <1>2. CASE ~ Take
    <2>1. ~ Ack /\ step # "idle" /\ item' = item
      BY <1>2, Cases DEF DeliverAny, Deliver, AcknowledgedAny, Acknowledged, Connect, Submit, ConnectRefused,
         SocketLost, CountLost, Drain, Ack, Quiet
    <2> PICK d : d = item
      OBVIOUS
    <2>2. d \in Delivery /\ HeldInFlight(d)
      BY <2>1, Typed DEF ItemInFlight
    <2>3. HeldInFlight(d)'
      BY <2>1, <2>2, HeldStep
    <2>4. CASE Submit /\ Len(queue) < ReceiveMaximum
      <3>1. PICK e : e = [connection |-> connection, id |-> Head(wire).id,
                          message |-> Head(wire).message]
        OBVIOUS
      <3>2. e \in Delivery /\ queue' = Append(queue, e) /\ connection' = connection
            /\ 1 \in 1 .. Len(wire) /\ e.id = wire[1].id
        BY <2>4, <3>1, Typed, TailFacts DEF Submit, Delivery
      <3>3. item.connection = connection => e.id # item.id
        BY <2>1, <3>2 DEF ItemInFlight, HeldInFlight
      <3>4. /\ Len(queue') = Len(queue) + 1 /\ queue'[Len(queue) + 1] = e
            /\ \A i \in 1 .. Len(queue) : queue'[i] = queue[i]
        BY <3>2, Typed, AppendFacts
      <3>5. \A i \in 1 .. Len(queue') : i \in 1 .. Len(queue) \/ i = Len(queue) + 1
        BY <3>4, Typed
      <3>6. item.connection = connection =>
               \A i \in 1 .. Len(queue') :
                  queue'[i].connection = connection => queue'[i].id # item.id
        BY <2>1, <3>3, <3>4, <3>5 DEF ItemInFlight
      <3> QED
        BY <2>1, <2>3, <3>2, <3>6 DEF ItemInFlight, HeldInFlight
    <2>5. CASE queue # <<>> /\ queue' = Tail(queue) /\ connection' = connection
      BY <2>1, <2>3, <2>5, Typed, TailFacts DEF ItemInFlight, HeldInFlight
    <2>6. CASE CountLost
      <3>1. item.connection # connection' /\ item' = item
        BY <2>1, <2>6, Typed DEF CountLost, ItemInFlight, HeldInFlight
      <3> QED
        BY <2>1, <2>3, <3>1 DEF ItemInFlight, HeldInFlight
    <2>7. CASE UNCHANGED <<queue, connection>>
      BY <2>1, <2>3, <2>7 DEF ItemInFlight, HeldInFlight
    <2>8. \/ UNCHANGED <<queue, connection>> \/ (Submit /\ Len(queue) < ReceiveMaximum) \/ CountLost
          \/ queue # <<>> /\ queue' = Tail(queue) /\ connection' = connection
      BY <1>2, Cases DEF DeliverAny, Deliver, AcknowledgedAny, Acknowledged, Connect, Submit,
         ConnectRefused, SocketLost, Drain, Ack, Quiet
    <2> QED
      BY <2>4, <2>5, <2>6, <2>7, <2>8, Zenon
  <1> QED
    BY <1>1, <1>2

\* What is handled stays handled.
LEMMA HandledStays ==
    ASSUME [Next]_vars
    PROVE  rows \subseteq rows'
  <1>1. CASE Written \/ WriteFails
    BY <1>1 DEF Written, WriteFails
  <1>2. CASE ~ (Written \/ WriteFails)
    BY <1>2, NextCases DEF Publish, DeliverAny, Deliver, AcknowledgedAny, Acknowledged, Connect,
       ConnectRefused, Submit, SocketLost, CountLost, Drain, Take, Parse, Refused, Retry,
       Ack, ParseRaises, Crash, Restart, vars
  <1> QED
    BY <1>1, <1>2

\* The worker comes to ack() only with a message that is handled.
LEMMA AckHandledStep ==
    ASSUME TypeOK, AckHandled, [Next]_vars
    PROVE  AckHandled'
  <1> SUFFICES ASSUME step' = "ack" PROVE Handled(item.message)' /\ item' = item
    BY DEF AckHandled, Handled
  <1>1. CASE step = "ack" /\ item' = item
    BY <1>1, HandledStays DEF AckHandled, Handled
  <1>2. CASE Parse
    BY <1>2 DEF Parse, Handled
  <1>3. CASE Written
    BY <1>3 DEF Written, Handled
  <1>4. CASE Refused
    BY <1>4 DEF Refused, Handled
  <1>5. (step = "ack" /\ item' = item) \/ Parse \/ Written \/ Refused
    BY NextCases DEF Publish, DeliverAny, Deliver, AcknowledgedAny, Acknowledged, Connect,
       ConnectRefused, Submit, SocketLost, CountLost, Drain, Take, WriteFails, Retry,
       Ack, ParseRaises, Crash, Restart, vars
  <1> QED
    BY <1>1, <1>2, <1>3, <1>4, <1>5

\* A PUBACK on its way acknowledges a message that is handled.
LEMMA PubackStep ==
    ASSUME TypeOK, ItemInFlight, AckHandled, NoForeignAck, [Next]_vars
    PROVE  NoForeignAck'
  <1>1. CASE DeliverAny
    BY <1>1, HandledStays DEF DeliverAny, Deliver, Used, NoForeignAck, Handled, TypeOK
  <1>2. CASE AcknowledgedAny
    BY <1>2 DEF AcknowledgedAny, Acknowledged, NoForeignAck, Handled, TypeOK
  <1>3. CASE Connect
    BY <1>3 DEF Connect, NoForeignAck
  <1>4. CASE Ack
    <2>1. item.connection = connection => inflight[item.id] = item.message
      BY <1>4 DEF Ack, ItemInFlight, HeldInFlight
    <2>2. Handled(item.message) /\ item.message # None
      BY <1>4, Typed DEF Ack, AckHandled
    <2> QED
      BY <1>4, <2>1, <2>2 DEF Ack, IsCurrent, NoForeignAck, Handled
  <1>5. CASE UNCHANGED <<inflight, pubacks>>
    BY <1>5, HandledStays DEF NoForeignAck, Handled
  <1>6. DeliverAny \/ AcknowledgedAny \/ Connect \/ Ack \/ UNCHANGED <<inflight, pubacks>>
    BY Cases DEF Submit, ConnectRefused, SocketLost, CountLost, Drain, Take, Restart, Quiet
  <1> QED
    BY <1>1, <1>2, <1>3, <1>4, <1>5, <1>6

\* A message leaves the session only by such a PUBACK.
LEMMA NoLossStep ==
    ASSUME TypeOK, NoForeignAck, NoLoss, [Next]_vars
    PROVE  NoLoss'
  <1>1. CASE Publish
    BY <1>1 DEF Publish, NoLoss, Handled, TypeOK
  <1>2. CASE AcknowledgedAny
    BY <1>2 DEF AcknowledgedAny, Acknowledged, NoForeignAck, NoLoss, Handled
  <1>3. CASE UNCHANGED <<published, waiting>>
    BY <1>3, HandledStays DEF NoLoss, Handled
  <1>4. Publish \/ AcknowledgedAny \/ UNCHANGED <<published, waiting>>
    BY NextCases DEF DeliverAny, Deliver, Connect, ConnectRefused, Submit, SocketLost, CountLost,
       Drain, Take, Parse, Written, Refused, WriteFails, Retry, Ack, ParseRaises, Crash, Restart, vars
  <1> QED
    BY <1>1, <1>2, <1>3, <1>4

-----------------------------------------------------------------------------
\* Every reachable state satisfies the inductive invariant: deliveries of the
\* current connection are in flight under different packet ids, wherever between
\* the broker and ack() they are.
THEOREM InductiveInvariant == Spec => []Inductive
  <1>1. Inductive /\ [Next]_vars => Inductive'
    BY TypeStep, WireStep, QueueStep, ItemStep, AckHandledStep, PubackStep, NoLossStep, Zenon
       DEF Inductive
  <1> QED
    BY InitInductive, <1>1, PTL DEF Spec

\* The types of Ingest's variables, of which the number of the connection is the
\* one that needs the invariant: it goes up once for each lost connection.
THEOREM TypeCorrect == Spec => []TypeOK
  <1>1. Inductive => TypeOK
    BY DEF Inductive
  <1> QED
    BY InductiveInvariant, <1>1, PTL

\* ack() never acknowledges a message other than the handled one, although packet
\* ids are used again (ingest.py:357-362).
THEOREM AcksAreGenuine == Spec => []NoForeignAck
  <1>1. Inductive => NoForeignAck
    BY DEF Inductive
  <1> QED
    BY InductiveInvariant, <1>1, PTL

\* No message with readings leaves the session before QuestDB has its rows
\* (ingest.py:274-280).
THEOREM NothingIsLost == Spec => []NoLoss
  <1>1. Inductive => NoLoss
    BY DEF Inductive
  <1> QED
    BY InductiveInvariant, <1>1, PTL

-----------------------------------------------------------------------------
(* The queue.                                                              *)

\* The broker keeps within Receive Maximum.
WithinMaximum == IsFiniteSet(Used) /\ Cardinality(Used) <= ReceiveMaximum

\* While the connection is up, nothing of an earlier one is in the queue.
QueueOfConnection ==
    /\ net = "down" => queue = <<>>
    /\ net = "up" => \A i \in 1 .. Len(queue) : queue[i].connection = connection

LEMMA WithinMaximumStep ==
    ASSUME TypeOK, WithinMaximum, [Next]_vars
    PROVE  WithinMaximum'
  <1>1. CASE DeliverAny
    <2> PICK m \in Messages, id \in PacketIds : Deliver(m, id)
      BY <1>1 DEF DeliverAny
    <2>1. Cardinality(Used) < ReceiveMaximum /\ Used' = Used \cup {id}
      BY DEF Deliver, Used, TypeOK, Messages
    <2>2. Cardinality(Used) \in Nat
      BY FS_CardinalityType DEF WithinMaximum
    <2>3. IsFiniteSet(Used \cup {id})
          /\ Cardinality(Used \cup {id}) = IF id \in Used THEN Cardinality(Used)
                                                         ELSE Cardinality(Used) + 1
      BY FS_AddElement, Zenon DEF WithinMaximum
    <2> QED
      BY <2>1, <2>2, <2>3, IngestConstants DEF WithinMaximum
  <1>2. CASE AcknowledgedAny
    <2> PICK id \in PacketIds : Acknowledged(id)
      BY <1>2 DEF AcknowledgedAny
    <2>1. Used' \subseteq Used
      BY DEF Acknowledged, Used, TypeOK
    <2>2. IsFiniteSet(Used') /\ Cardinality(Used') <= Cardinality(Used)
      BY <2>1, FS_Subset DEF WithinMaximum
    <2>3. Cardinality(Used) \in Nat /\ Cardinality(Used') \in Nat
      BY <2>2, FS_CardinalityType DEF WithinMaximum
    <2> QED
      BY <2>2, <2>3, IngestConstants DEF WithinMaximum
  <1>3. CASE Connect
    <2>1. Used' = {}
      BY <1>3 DEF Connect, Used
    <2> QED
      BY <2>1, FS_EmptySet, IngestConstants DEF WithinMaximum
  <1>4. CASE UNCHANGED inflight
    BY <1>4 DEF WithinMaximum, Used
  <1>5. DeliverAny \/ AcknowledgedAny \/ Connect \/ UNCHANGED inflight
    BY NextCases DEF Publish, ConnectRefused, Submit, SocketLost, CountLost, Drain, Take,
       Parse, Written, Refused, WriteFails, Retry, Ack, ParseRaises, Crash, Restart, vars
  <1> QED
    BY <1>1, <1>2, <1>3, <1>4, <1>5

LEMMA QueueOfConnectionStep ==
    ASSUME TypeOK, QueueOfConnection, [Next]_vars
    PROVE  QueueOfConnection'
  <1>1. CASE Submit
    <2> DEFINE d == [connection |-> connection, id |-> Head(wire).id,
                     message |-> Head(wire).message]
    <2>1. d \in Delivery /\ d.connection = connection
      BY <1>1, Typed, TailFacts DEF Submit, Delivery, Wired
    <2>2. \A i \in 1 .. Len(queue') : \/ i \in 1 .. Len(queue) /\ queue'[i] = queue[i]
                                      \/ queue'[i] = d
      <3>1. CASE queue' = queue
        BY <3>1
      <3>2. CASE queue' = Append(queue, d)
        <4> HIDE DEF d
        <4> QED
          BY <3>2, <2>1, Typed, AppendFacts
      <3> QED
        BY <1>1, <3>1, <3>2 DEF Submit
    <2>3. net = "up" /\ net' = "up" /\ connection' = connection
      BY <1>1 DEF Submit
    <2> QED
      BY <2>1, <2>2, <2>3, Zenon DEF QueueOfConnection
  <1>2. CASE Drain \/ Take
    <2>1. queue # <<>> => \A i \in 1 .. Len(Tail(queue)) :
              i + 1 \in 1 .. Len(queue) /\ Tail(queue)[i] = queue[i + 1]
      BY Typed, TailFacts
    <2> QED
      BY <1>2, <2>1 DEF Drain, Take, QueueOfConnection
  <1>3. CASE Connect
    BY <1>3 DEF Connect, QueueOfConnection
  <1>4. CASE ConnectRefused \/ SocketLost \/ CountLost
    BY <1>4 DEF ConnectRefused, SocketLost, CountLost, QueueOfConnection
  <1>5. CASE Restart
    BY <1>5 DEF Restart, QueueOfConnection
  <1>6. CASE UNCHANGED <<net, connection, queue>>
    BY <1>6 DEF QueueOfConnection
  <1>7. \/ Submit \/ Drain \/ Take \/ Connect \/ ConnectRefused \/ SocketLost \/ CountLost
        \/ Restart \/ UNCHANGED <<net, connection, queue>>
    BY Cases DEF DeliverAny, Deliver, AcknowledgedAny, Acknowledged, Ack, Quiet
  <1> QED
    BY <1>1, <1>2, <1>3, <1>4, <1>5, <1>6, <1>7

\* What waits in the queue is in flight under ids of its own, and so is the next
\* delivery on the wire: the queue has no more entries than the broker has messages
\* in flight, less that one.
LEMMA RoomInQueue ==
    ASSUME Inductive, WithinMaximum, QueueOfConnection, net = "up", wire # <<>>
    PROVE  Len(queue) < ReceiveMaximum
  <1> DEFINE n == Len(queue) + 1
             f == [i \in 1 .. n |-> IF i = n THEN wire[1].id ELSE queue[i].id]
  <1>1. Len(queue) \in Nat /\ 1 \in 1 .. Len(wire)
    BY Typed, TailFacts DEF Inductive
  <1>2. wire[1].id \in Used
    BY <1>1, Typed DEF Inductive, WireInFlight, Used
  <1>3. \A i \in 1 .. Len(queue) :
           queue[i].id \in Used /\ queue[i].id # wire[1].id
    BY <1>1, Typed DEF Inductive, QueueInFlight, HeldInFlight, QueueOfConnection, Used
  <1>4. \A i, j \in 1 .. Len(queue) : i # j => queue[i].id # queue[j].id
    BY DEF Inductive, QueueInFlight, QueueOfConnection
  <1>5. f \in [1 .. n -> Used]
    BY <1>1, <1>2, <1>3
  <1>6. \A i, j \in 1 .. n : i # j => f[i] # f[j]
    BY <1>1, <1>3, <1>4
  <1>7. IsFiniteSet(1 .. n) /\ Cardinality(1 .. n) = n
    BY <1>1, FS_Interval
  <1>8. ~(Cardinality(Used) < n)
    <2> HIDE DEF n, f
    <2> QED
      BY <1>5, <1>6, <1>7, FS_PigeonHole DEF WithinMaximum
  <1>9. Cardinality(Used) \in Nat
    BY FS_CardinalityType DEF WithinMaximum
  <1> QED
    BY <1>1, <1>8, <1>9, IngestConstants DEF WithinMaximum

\* submit() never finds the queue full: it holds only deliveries of this connection,
\* and the broker has no more than Receive Maximum of these in flight
\* (ingest.py:284-293).
THEOREM QueueHasRoom == Spec => []QueueNeverFull
  <1>1. Init => WithinMaximum /\ QueueOfConnection
    <2> SUFFICES ASSUME Init PROVE WithinMaximum /\ QueueOfConnection
      OBVIOUS
    <2>1. Used = {} /\ QueueOfConnection
      BY DEF Init, Used, QueueOfConnection
    <2> QED
      BY <2>1, FS_EmptySet, IngestConstants DEF WithinMaximum
  <1>2. Inductive /\ WithinMaximum /\ QueueOfConnection /\ [Next]_vars
           => (WithinMaximum /\ QueueOfConnection)'
    BY WithinMaximumStep, QueueOfConnectionStep DEF Inductive
  <1>3. Inductive /\ WithinMaximum /\ QueueOfConnection => QueueNeverFull
    BY RoomInQueue DEF QueueNeverFull
  <1> QED
    BY InductiveInvariant, <1>1, <1>2, <1>3, PTL DEF Spec
=============================================================================
