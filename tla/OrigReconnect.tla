---------------------------- MODULE OrigReconnect ----------------------------
(***************************************************************************)
(* mqtt_reconnect.c: the reconnect state machine as a function of a state  *)
(* and an event. It keeps no state of its own; app_controller.c does.      *)
(***************************************************************************)
EXTENDS Integers

CONSTANTS
    InitialDelay,   \* CONFIG_AITSM_MQTT_RECONNECT_INITIAL_DELAY_SECONDS, 5
    MaxDelay        \* CONFIG_AITSM_MQTT_RECONNECT_MAX_DELAY_SECONDS, 60

\* The BUILD_ASSERT of mqtt_reconnect.c and the ranges of Kconfig.
ASSUME DelayAssumption ==
    InitialDelay \in Nat \ {0} /\ MaxDelay \in Nat /\ InitialDelay <= MaxDelay

Phases == {"OFFLINE", "CONNECTING", "WAITING", "CONNECTED"}
ReconnectState == [lte_available : BOOLEAN, phase : Phases,
                   next_delay : InitialDelay .. MaxDelay]

\* aitsm_reconnect_init
ReconnectInit ==
    [lte_available |-> FALSE, phase |-> "OFFLINE", next_delay |-> InitialDelay]

Doubled(delay) == IF 2 * delay < MaxDelay THEN 2 * delay ELSE MaxDelay

Answer(state, action) == [state |-> state, action |-> action]

\* aitsm_reconnect_handle. The delay of a SCHEDULE is next_delay before it.
HandleLteUp(s) ==
    IF s.lte_available THEN Answer(s, "NONE")
    ELSE Answer([s EXCEPT !.lte_available = TRUE, !.phase = "CONNECTING"], "CONNECT")

HandleLteDownKeepsDelay(s) ==   \* variant: the back-off survives the loss of LTE
    Answer([s EXCEPT !.lte_available = FALSE, !.phase = "OFFLINE"],
           IF s.lte_available THEN "CANCEL" ELSE "NONE")
HandleLteDown(s) ==
    Answer(ReconnectInit, IF s.lte_available THEN "CANCEL" ELSE "NONE")

HandleMqttUp(s) ==
    IF ~s.lte_available THEN Answer(s, "NONE")
    ELSE Answer([s EXCEPT !.phase = "CONNECTED", !.next_delay = InitialDelay], "CANCEL")

HandleFailureAgain(s) ==      \* variant: every failure counts
    IF ~s.lte_available THEN Answer(s, "NONE")
    ELSE Answer([s EXCEPT !.phase = "WAITING", !.next_delay = Doubled(s.next_delay)],
                "SCHEDULE")
HandleFailure(s) ==
    IF ~s.lte_available \/ s.phase = "WAITING" THEN Answer(s, "NONE")
    ELSE Answer([s EXCEPT !.phase = "WAITING", !.next_delay = Doubled(s.next_delay)],
                "SCHEDULE")

HandleTimer(s) ==
    IF ~s.lte_available \/ s.phase # "WAITING" THEN Answer(s, "NONE")
    ELSE Answer([s EXCEPT !.phase = "CONNECTING"], "CONNECT")
=============================================================================
