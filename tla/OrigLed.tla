------------------------------ MODULE OrigLed ------------------------------
(***************************************************************************)
(* led_status.c: one RGB LED that shows a stable status, and flashes for   *)
(* a transient one. led_status_set is called by the system workqueue and,  *)
(* while the firmware starts, by main; the two delayable works run on the  *)
(* system workqueue. A call in progress is modelled where it matters:      *)
(* while main holds led_mutex, as the works do not wait for it.            *)
(***************************************************************************)
EXTENDS Integers

CONSTANTS
    TransientBlinks,    \* LED_STATUS_TRANSIENT_BLINKS, 5
    MaxFaults           \* bound: PWM writes that fail

ASSUME LedConstants == TransientBlinks \in Nat \ {0} /\ MaxFaults \in Nat

VARIABLES
    stable_status, displayed_status,
    blink_visible, transient_on, transient_blinks_left,
    blink_work, transient_work,     \* the work is scheduled
    color,                          \* what the three PWM channels show
    led_mutex,                      \* held by main
    faults

vars == <<stable_status, displayed_status, blink_visible, transient_on,
          transient_blinks_left, blink_work, transient_work, color, led_mutex, faults>>

Stable == {"SEARCHING", "LTE_CONNECTED", "MQTT_CONNECTED", "DISCONNECTED", "ERROR"}
Transient == {"PUBLISH_OK", "PUBLISH_ERROR"}

\* led_status_indication
ColorOf(status) ==
    CASE status = "SEARCHING" -> "blue"
      [] status = "LTE_CONNECTED" -> "green"
      [] status = "MQTT_CONNECTED" -> "cyan"
      [] status = "PUBLISH_OK" -> "white"
      [] OTHER -> "red"
Blinks(status) == status = "SEARCHING"

TypeOK ==
    /\ stable_status \in Stable /\ displayed_status \in Stable \cup Transient
    /\ blink_visible \in BOOLEAN /\ transient_on \in BOOLEAN
    /\ blink_work \in BOOLEAN /\ transient_work \in BOOLEAN /\ led_mutex \in BOOLEAN
    /\ transient_blinks_left \in 0 .. TransientBlinks
    /\ color \in {"blue", "green", "cyan", "white", "red", "off", "mixed"}
    /\ faults \in 0 .. MaxFaults

\* led_status_init
Init ==
    /\ stable_status = "DISCONNECTED" /\ displayed_status = "DISCONNECTED"
    /\ blink_visible = FALSE /\ transient_on = FALSE /\ transient_blinks_left = 0
    /\ blink_work = FALSE /\ transient_work = FALSE
    /\ color = "red" /\ led_mutex = FALSE /\ faults = 0

\* set_color: three PWM writes; an error leaves the channels before it changed.
SetColor(new) == color' = new /\ UNCHANGED faults
SetColorFails ==
    /\ faults < MaxFaults /\ faults' = faults + 1
    /\ color' \in {color, "mixed"}

\* The part of led_status_set for a transient status. Its work is scheduled only
\* if the colour could be set; otherwise it stays as it was.
SetTransient(status) ==
    /\ displayed_status' = status
    /\ transient_on' = TRUE /\ transient_blinks_left' = TransientBlinks
    /\ blink_visible' = FALSE /\ blink_work' = FALSE
    /\ \/ SetColor(ColorOf(status)) /\ transient_work' = TRUE
       \/ SetColorFails /\ UNCHANGED transient_work
    /\ UNCHANGED stable_status

\* The part for a stable status.
SetStableKeepsFlashing(status) ==           \* variant: transient_work is not cancelled
    /\ stable_status' = status /\ displayed_status' = status
    /\ blink_visible' = Blinks(status) /\ blink_work' = Blinks(status)
    /\ SetColor(ColorOf(status))
    /\ UNCHANGED <<transient_on, transient_blinks_left, transient_work>>
SetStable(status) ==
    /\ stable_status' = status /\ displayed_status' = status
    /\ transient_work' = FALSE
    /\ blink_visible' = Blinks(status)
    /\ \/ SetColor(ColorOf(status)) /\ blink_work' = Blinks(status)
       \/ SetColorFails /\ blink_work' = (blink_work /\ Blinks(status))
    /\ UNCHANGED <<transient_on, transient_blinks_left>>

\* led_status_set on the system workqueue, which waits for led_mutex.
Set ==
    /\ ~led_mutex
    /\ \/ \E status \in Stable : SetStable(status)
       \/ \E status \in Transient : SetTransient(status)
    /\ UNCHANGED led_mutex

\* led_status_set in main: SEARCHING from network_init, ERROR when the start of
\* the modem fails. The cooperative workqueue may run while the lock is held.
MainLocks ==
    /\ ~led_mutex /\ led_mutex' = TRUE
    /\ UNCHANGED <<stable_status, displayed_status, blink_visible, transient_on,
                   transient_blinks_left, blink_work, transient_work, color, faults>>
MainSets ==
    /\ led_mutex /\ led_mutex' = FALSE
    /\ \E status \in {"SEARCHING", "ERROR"} : SetStable(status)

\* A work that finds led_mutex taken schedules itself again.
TryLaterGivesUp(work) == FALSE              \* variant
TryLater(work) == work

BlinkWork ==
    /\ blink_work
    /\ IF led_mutex
       THEN blink_work' = TryLater(blink_work) /\ UNCHANGED <<blink_visible, color, faults>>
       ELSE IF Blinks(displayed_status)
       THEN /\ blink_visible' = ~blink_visible
            /\ \/ SetColor(IF blink_visible' THEN ColorOf(displayed_status) ELSE "off")
               \/ SetColorFails
            /\ UNCHANGED blink_work
       ELSE blink_visible' = FALSE /\ blink_work' = FALSE /\ UNCHANGED <<color, faults>>
    /\ UNCHANGED <<stable_status, displayed_status, transient_on,
                   transient_blinks_left, transient_work, led_mutex>>

RestoreStableWithoutBlink ==                \* variant: blink_work is forgotten
    /\ displayed_status' = stable_status
    /\ blink_visible' = Blinks(stable_status)
    /\ SetColor(ColorOf(stable_status))
    /\ UNCHANGED blink_work
RestoreStable ==
    /\ displayed_status' = stable_status
    /\ blink_visible' = Blinks(stable_status)
    /\ SetColor(ColorOf(stable_status)) \/ SetColorFails
    /\ blink_work' = (blink_work \/ Blinks(stable_status))

MoreFlashes == transient_blinks_left > 1

\* transient_work_handler: off and on in turn, and back to the stable status.
TransientWork ==
    /\ transient_work
    /\ IF led_mutex
       THEN /\ transient_work' = TryLater(transient_work)
            /\ UNCHANGED <<displayed_status, blink_visible, transient_on,
                           transient_blinks_left, blink_work, color, faults>>
       ELSE IF transient_on
       THEN /\ transient_on' = FALSE
            /\ SetColor("off") \/ SetColorFails
            /\ UNCHANGED <<displayed_status, blink_visible, transient_blinks_left,
                           blink_work, transient_work>>
       ELSE IF MoreFlashes
       THEN /\ transient_blinks_left' = transient_blinks_left - 1
            /\ transient_on' = TRUE
            /\ SetColor(ColorOf(displayed_status)) \/ SetColorFails
            /\ UNCHANGED <<displayed_status, blink_visible, blink_work, transient_work>>
       ELSE /\ transient_blinks_left' = 0 /\ transient_on' = FALSE
            /\ RestoreStable
            /\ transient_work' = FALSE
    /\ UNCHANGED <<stable_status, led_mutex>>

Next == Set \/ MainLocks \/ MainSets \/ BlinkWork \/ TransientWork

Spec == Init /\ [][Next]_vars

-----------------------------------------------------------------------------
\* The LED is off only for the dark half of a blink or a flash, and the work that
\* ends the darkness is scheduled; otherwise it has the colour of the status that
\* is displayed. (None of this is promised once a PWM write has failed.)
NeverLeftDark ==
    faults = 0 =>
        IF color = "off" THEN transient_work \/ (blink_work /\ Blinks(displayed_status))
        ELSE color = ColorOf(displayed_status)

\* What is displayed is the stable status, or a flash that has its work scheduled
\* and will end (led_status.c:191-220); SEARCHING blinks, whatever flash or call of
\* main came in between (led_status.c:157-161, 177-189). A PWM write that fails at
\* the start of a flash leaves it without its work.
WorksServeDisplay ==
    /\ displayed_status \in Transient \cup {stable_status}
    /\ faults = 0 =>
        /\ transient_work <=> displayed_status \in Transient
        /\ blink_work <=> Blinks(displayed_status)

(***************************************************************************)
(* Fairness: the clock goes on, and main, preempted at worst, goes on too. *)
(***************************************************************************)
FairSpec == Spec /\ WF_vars(BlinkWork) /\ WF_vars(TransientWork) /\ WF_vars(MainSets)

\* From some moment on no further status is set. (SEARCHING, set again in its dark
\* half, is the same step as a blink, and does not count.)
NoMoreCalls == <>[][Set \/ MainLocks => BlinkWork]_vars

\* Then the LED ends on the last stable status, SEARCHING still blinking, if no
\* PWM write fails (led_status.h:50-52).
ReturnsToStable ==
    NoMoreCalls /\ [](faults = 0) =>
        /\ <>[](displayed_status = stable_status)
        /\ <>[](stable_status = "SEARCHING") => []<>blink_visible /\ []<>~blink_visible
=============================================================================
