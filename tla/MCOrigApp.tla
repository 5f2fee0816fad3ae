----------------------------- MODULE MCOrigApp -----------------------------
(***************************************************************************)
(* Small instances of OrigApp for TLC. Two measurements whose names the    *)
(* model cannot tell apart are interchangeable, hence the symmetry. The    *)
(* views leave out what no later step and no property reads: a copy of a   *)
(* variable that is written again before it is read.                       *)
(***************************************************************************)
EXTENDS OrigApp, TLC

CONSTANTS r1, r2, r3

Live(condition, value) == IF condition THEN value ELSE "dead"
LiveGenerations ==
    {g \in current :
        CASE g = "active" -> active_publish_id # 0
          [] g = "job" -> worker \in {"sending", "written"}
          [] g = "publish" -> publish_pending
          [] g = "connect" -> worker = "connecting" \/ helper = "connecting"}

ClientView ==
    <<app_events, connectionFlags, LiveGenerations, active_publish_id,
      Live(active_publish_id # 0, active_publish_token), publish_pending,
      Live(publish_pending \/ active_publish_id # 0, publish), next_publish_token,
      puback_armed, mqtt_workqueue, worker,
      Live(worker \in {"sending", "written"}, job), helperVars>>

View ==
    <<ClientView, up, acks, stored \cap InUse, host_seq, host_bd, faults, buffer,
      Live(mqtt_connected /\ ~birth_pending, next_seq), pending_measurement_count,
      Live(publish_in_flight, pending_publish_token), sessionFlags, bd_seq,
      publish_work, reconnect, reconnect_work, led, modem>>

Symmetry == Permutations(Readings)
=============================================================================
