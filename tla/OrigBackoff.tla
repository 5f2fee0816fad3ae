---------------------------- MODULE OrigBackoff ----------------------------
(***************************************************************************)
(* The reconnect state machine under its timer, second by second:          *)
(* apply_reconnect and reconnect_work of app_controller.c, driven by any   *)
(* sequence of reports. OrigApp has the reports in the order in which they *)
(* really come, but no time.                                               *)
(***************************************************************************)
EXTENDS OrigReconnect

CONSTANT MaxFailures    \* bound: failed attempts in a row

ASSUME FailuresAssumption == MaxFailures \in Nat

VARIABLES
    reconnect,
    reconnect_work,     \* seconds until the work runs; None when not scheduled
    failures            \* failed attempts since the last CONNACK or loss of LTE

vars == <<reconnect, reconnect_work, failures>>

None == -1

TypeOK ==
    /\ reconnect \in ReconnectState
    /\ reconnect_work \in {None} \cup 0 .. MaxDelay
    /\ failures \in 0 .. MaxFailures

Init == reconnect = ReconnectInit /\ reconnect_work = None /\ failures = 0

\* apply_reconnect; the attempt that CONNECT starts is reported later.
Apply(answer) ==
    /\ reconnect' = answer.state
    /\ reconnect_work' = CASE answer.action = "SCHEDULE" -> reconnect.next_delay
                           [] answer.action = "CANCEL" -> None
                           [] OTHER -> reconnect_work

LteUp == Apply(HandleLteUp(reconnect)) /\ UNCHANGED failures
LteDown == Apply(HandleLteDown(reconnect)) /\ failures' = 0
MqttUp ==
    /\ Apply(HandleMqttUp(reconnect))
    /\ failures' = IF reconnect.lte_available THEN 0 ELSE failures

\* ERROR or DISCONNECTED, perhaps both for one attempt, and late ones.
Failure ==
    /\ failures < MaxFailures
    /\ Apply(HandleFailure(reconnect))
    /\ failures' = IF reconnect.lte_available /\ reconnect.phase # "WAITING"
                   THEN failures + 1 ELSE failures

Second ==
    /\ reconnect_work > 0 /\ reconnect_work' = reconnect_work - 1
    /\ UNCHANGED <<reconnect, failures>>

\* reconnect_work_handler
ReconnectWork ==
    /\ reconnect_work = 0 /\ reconnect_work' = None
    /\ reconnect' = HandleTimer(reconnect).state
    /\ UNCHANGED failures

Next == LteUp \/ LteDown \/ MqttUp \/ Failure \/ Second \/ ReconnectWork

Spec == Init /\ [][Next]_vars

-----------------------------------------------------------------------------
\* Exactly a WAITING controller has its timer, so no retry is forgotten and none
\* comes while an attempt or a connection is there (app_controller.c:31-37).
TimerMatchesPhase ==
    reconnect_work # None <=> reconnect.lte_available /\ reconnect.phase = "WAITING"

\* No report moves a deadline that is set: ERROR and DISCONNECTED of one attempt
\* make one retry (mqtt_reconnect.c:42-44, docs/mqtt-reconnect.md:11-12).
DeadlineKept ==
    [][reconnect_work # None /\ reconnect_work' # None =>
        reconnect_work' \in {reconnect_work, reconnect_work - 1}]_vars

\* 5, 10, 20, 40, 60, 60, ... seconds (docs/mqtt-reconnect.md:5-7): the n-th failure
\* in a row waits InitialDelay, doubled n-1 times, and MaxDelay at most.
Delay[n \in Nat] ==
    IF n <= 1 THEN InitialDelay
    ELSE IF 2 * Delay[n - 1] < MaxDelay THEN 2 * Delay[n - 1] ELSE MaxDelay
BackoffDoubles ==
    [][reconnect_work = None /\ reconnect_work' # None =>
        reconnect_work' = Delay[failures']]_vars
=============================================================================
