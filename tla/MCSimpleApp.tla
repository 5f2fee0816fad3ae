---------------------------- MODULE MCSimpleApp ----------------------------
(* Small instances of SimpleApp for TLC.                                   *)
EXTENDS SimpleApp, TLC

CONSTANTS r1, r2, r3

\* A name for every place in the queue and the buffer. Nothing in the firmware
\* tells one reading from another, so the names are interchangeable.
TwoReadings == {r1, r2}
ThreeReadings == {r1, r2, r3}
ReadingSymmetry == Permutations(Readings)

\* Two states that differ only in a variable that is dead (overwritten before it
\* is read again) behave alike and satisfy the same properties: the LED until it is
\* set again, sent_count and puback_overdue with no message outstanding, seq
\* before the NBIRTH is acknowledged, and whether the broker has a name that no longer stands for a
\* reading on the device.
Live(condition, value) == IF condition THEN value ELSE "dead"

View == <<pc, app_events, events, pending_message_id, message_id, helper, up, acks,
          stored \cap InUse, host_seq, host_bd, faults,
          mqtt_state, birth_acknowledged, bd_seq, awaiting_puback,
          wakeup, Live(pc \in {"sleep", "wait"}, led),
          Live(birth_acknowledged, seq),
          Live(awaiting_puback \/ pc \in {"send", "sent"}, sent_count),
          Live(awaiting_puback, puback_overdue),
          Live(mqtt_state = "IDLE", reconnect_due),
          batch, measurement_queue, otherThreads>>
=============================================================================
