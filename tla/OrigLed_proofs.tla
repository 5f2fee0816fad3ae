--------------------------- MODULE OrigLed_proofs ---------------------------
(* Theorems about OrigLed for any number of flashes and of PWM failures.   *)
EXTENDS OrigLed, TLAPS

Colors == {"blue", "green", "cyan", "white", "red", "off", "mixed"}

\* What is displayed: a flash, or the stable status (led_status.c:265-298).
Displays == displayed_status \in Transient \cup {stable_status}

\* As long as no write of the PWM failed, the works that are scheduled are those
\* of what is displayed, and the colour is the one their next turn counts on.
WorksFollow ==
    faults = 0 =>
        /\ transient_work <=> displayed_status \in Transient
        /\ blink_work <=> Blinks(displayed_status)
Dark == IF displayed_status \in Transient THEN ~transient_on
        ELSE Blinks(displayed_status) /\ ~blink_visible
ColorFollows == faults = 0 => color = IF Dark THEN "off" ELSE ColorOf(displayed_status)

Inductive == TypeOK /\ Displays /\ WorksFollow /\ ColorFollows

-----------------------------------------------------------------------------
\* led_status_indication and is_transient (led_status.c:91-139).
LEMMA StatusFacts ==
    /\ \A status \in Stable \cup Transient : ColorOf(status) \in Colors \ {"off", "mixed"}
    /\ \A status \in Transient : ~Blinks(status) /\ status \notin Stable
  BY DEF Stable, Transient, ColorOf, Blinks, Colors

\* set_color either shows the new colour or counts a failure (led_status.c:64-89).
LEMMA SetColorEffect ==
    ASSUME TypeOK, NEW new \in Colors, SetColor(new) \/ SetColorFails
    PROVE  /\ color' \in Colors /\ faults' \in 0 .. MaxFaults
           /\ faults' = 0 => SetColor(new) /\ faults = 0
  BY LedConstants DEF TypeOK, SetColor, SetColorFails, Colors

LEMMA InitInductive == Init => Inductive
  <1> SUFFICES ASSUME Init
               PROVE  Inductive
    OBVIOUS
  <1> USE DEF Init
  <1>1. "DISCONNECTED" \in Stable \ Transient /\ ~Blinks("DISCONNECTED")
    BY DEF Stable, Transient, Blinks
  <1>2. TypeOK
    <2>1. /\ transient_blinks_left \in 0 .. TransientBlinks /\ faults \in 0 .. MaxFaults
          /\ color \in {"blue", "green", "cyan", "white", "red", "off", "mixed"}
      BY LedConstants
    <2> QED
      BY <1>1, <2>1 DEF TypeOK
  <1>3. Displays
    BY DEF Displays
  <1>4. WorksFollow
    BY <1>1 DEF WorksFollow
  <1>5. ColorFollows
    BY <1>1 DEF ColorFollows, Dark, ColorOf
  <1> QED
    BY <1>2, <1>3, <1>4, <1>5 DEF Inductive

\* The part of led_status_set for a transient status (led_status.c:265-277).
LEMMA SetTransientStep ==
    ASSUME Inductive, NEW status \in Transient, SetTransient(status), led_mutex' \in BOOLEAN
    PROVE  Inductive'
  <1> USE DEF Inductive
  <1>1. ColorOf(status) \in Colors \ {"off", "mixed"} /\ ~Blinks(status)
    BY StatusFacts
  <1>2. /\ color' \in Colors /\ faults' \in 0 .. MaxFaults
        /\ faults' = 0 => SetColor(ColorOf(status)) /\ faults = 0
    BY <1>1, SetColorEffect DEF SetTransient
  <1>3. TypeOK'
    <2>1. transient_work' \in BOOLEAN
      BY DEF SetTransient, TypeOK
    <2>2. transient_blinks_left' \in 0 .. TransientBlinks
      BY LedConstants DEF SetTransient
    <2> QED
      BY <1>2, <2>1, <2>2 DEF SetTransient, TypeOK, Colors
  <1>4. Displays'
    BY DEF SetTransient, Displays
  <1>5. WorksFollow'
    BY <1>1, <1>2, LedConstants
       DEF SetTransient, WorksFollow, TypeOK, SetColor, SetColorFails, Blinks
  <1>6. ColorFollows'
    BY <1>1, <1>2 DEF SetTransient, ColorFollows, Dark, SetColor, ColorOf
  <1> QED
    BY <1>3, <1>4, <1>5, <1>6

\* The part for a stable status (led_status.c:278-298).
LEMMA SetStableStep ==
    ASSUME Inductive, NEW status \in Stable, SetStable(status), led_mutex' \in BOOLEAN
    PROVE  Inductive'
  <1> USE DEF Inductive
  <1>1. ColorOf(status) \in Colors \ {"off", "mixed"} /\ status \notin Transient
    BY StatusFacts
  <1>2. /\ color' \in Colors /\ faults' \in 0 .. MaxFaults
        /\ faults' = 0 => SetColor(ColorOf(status)) /\ faults = 0
    BY <1>1, SetColorEffect DEF SetStable
  <1>3. TypeOK'
    BY <1>2 DEF SetStable, TypeOK, Colors, Blinks
  <1>4. Displays'
    BY DEF SetStable, Displays
  <1>5. WorksFollow'
    <2>1. SetColorFails => faults' # 0
      BY LedConstants DEF SetColorFails, TypeOK
    <2>2. faults' = 0 => (blink_work' <=> Blinks(status))
      BY <2>1 DEF SetStable
    <2>3. displayed_status' = status /\ ~transient_work'
      BY DEF SetStable
    <2> QED
      BY <1>1, <2>2, <2>3 DEF WorksFollow, Blinks
  <1>6. ColorFollows'
    BY <1>1, <1>2 DEF SetStable, ColorFollows, Dark, SetColor, ColorOf, Blinks
  <1> QED
    BY <1>3, <1>4, <1>5, <1>6

\* blink_work_handler (led_status.c:153-174).
LEMMA BlinkWorkStep ==
    ASSUME Inductive, BlinkWork
    PROVE  Inductive'
  <1> USE DEF Inductive
  <1>1. CASE led_mutex
    BY <1>1
       DEF BlinkWork, TryLater, TypeOK, Displays, WorksFollow, ColorFollows, Dark,
           Blinks, ColorOf
  <1>2. CASE ~led_mutex /\ Blinks(displayed_status)
    <2> DEFINE new == IF blink_visible' THEN ColorOf(displayed_status) ELSE "off"
    <2>1. new \in Colors
      BY StatusFacts DEF TypeOK, Colors
    <2>2. /\ blink_visible' = ~blink_visible
          /\ SetColor(new) \/ SetColorFails
      BY <1>2 DEF BlinkWork
    <2>3. /\ color' \in Colors /\ faults' \in 0 .. MaxFaults
          /\ faults' = 0 => SetColor(new) /\ faults = 0
      BY <2>1, <2>2, SetColorEffect
    <2>4. UNCHANGED <<stable_status, displayed_status, transient_on,
                      transient_blinks_left, transient_work, led_mutex, blink_work>>
      BY <1>2 DEF BlinkWork
    <2>5. displayed_status \notin Transient
      BY <1>2, StatusFacts
    <2>6. TypeOK' /\ Displays'
      BY <2>2, <2>3, <2>4 DEF TypeOK, Displays, Colors
    <2>7. WorksFollow'
      BY <2>3, <2>4 DEF WorksFollow, Blinks
    <2>8. ColorFollows'
      BY <1>2, <2>2, <2>3, <2>4, <2>5 DEF ColorFollows, Dark, Blinks, ColorOf, SetColor
    <2> QED
      BY <2>6, <2>7, <2>8
  <1>3. CASE ~led_mutex /\ ~Blinks(displayed_status)
    BY <1>3
       DEF BlinkWork, TypeOK, Displays, WorksFollow, ColorFollows, Dark, Blinks, ColorOf
  <1> QED
    BY <1>1, <1>2, <1>3

\* restore_stable (led_status.c:176-189).
LEMMA RestoreStableStep ==
    ASSUME Inductive, RestoreStable, transient_on' = FALSE, transient_work' = FALSE,
           transient_blinks_left' \in 0 .. TransientBlinks, faults = 0 => ~blink_work,
           UNCHANGED <<stable_status, led_mutex>>
    PROVE  Inductive'
  <1> USE DEF Inductive
  <1>1. ColorOf(stable_status) \in Colors \ {"off", "mixed"} /\ stable_status \notin Transient
    BY StatusFacts DEF TypeOK
  <1>2. /\ color' \in Colors /\ faults' \in 0 .. MaxFaults
        /\ faults' = 0 => SetColor(ColorOf(stable_status)) /\ faults = 0
    BY <1>1, SetColorEffect DEF RestoreStable
  <1>3. TypeOK'
    BY <1>2 DEF RestoreStable, TypeOK, Colors, Blinks
  <1>4. Displays'
    BY DEF RestoreStable, Displays
  <1>5. WorksFollow'
    BY <1>1, <1>2 DEF RestoreStable, WorksFollow, Blinks
  <1>6. ColorFollows'
    BY <1>1, <1>2 DEF RestoreStable, ColorFollows, Dark, SetColor, ColorOf, Blinks
  <1> QED
    BY <1>3, <1>4, <1>5, <1>6

\* transient_work_handler (led_status.c:191-220).
LEMMA TransientWorkStep ==
    ASSUME Inductive, TransientWork
    PROVE  Inductive'
  <1> USE DEF Inductive
  <1>1. CASE led_mutex
    BY <1>1
       DEF TransientWork, TryLater, TypeOK, Displays, WorksFollow, ColorFollows, Dark,
           Blinks, ColorOf
  <1> DEFINE Flash(new) ==
        /\ SetColor(new) \/ SetColorFails
        /\ UNCHANGED <<stable_status, displayed_status, blink_visible, blink_work,
                       transient_work, led_mutex>>
  <1>2. ASSUME NEW new \in Colors, Flash(new), transient_on' \in BOOLEAN,
               transient_blinks_left' \in 0 .. TransientBlinks,
               new = IF transient_on' THEN ColorOf(displayed_status) ELSE "off"
        PROVE  Inductive'
    <2>1. /\ color' \in Colors /\ faults' \in 0 .. MaxFaults
          /\ faults' = 0 => SetColor(new) /\ faults = 0
      BY <1>2, SetColorEffect
    <2>2. TypeOK' /\ Displays'
      BY <1>2, <2>1 DEF TypeOK, Displays, Colors
    <2>3. WorksFollow'
      BY <1>2, <2>1 DEF WorksFollow, Blinks
    <2>4. faults' = 0 => displayed_status \in Transient
      BY <2>1 DEF WorksFollow, TransientWork
    <2>5. ColorFollows'
      BY <1>2, <2>1, <2>4 DEF ColorFollows, Dark, Blinks, ColorOf, SetColor
    <2> QED
      BY <2>2, <2>3, <2>5
  <1>3. CASE ~led_mutex /\ transient_on
    <2>1. Flash("off") /\ transient_on' = FALSE /\ UNCHANGED transient_blinks_left
      BY <1>3 DEF TransientWork
    <2> QED
      BY <1>2, <2>1 DEF Colors, TypeOK
  <1>4. CASE ~led_mutex /\ ~transient_on /\ MoreFlashes
    <2>1. /\ Flash(ColorOf(displayed_status)) /\ transient_on' = TRUE
          /\ transient_blinks_left' = transient_blinks_left - 1
      BY <1>4 DEF TransientWork
    <2>2. ColorOf(displayed_status) \in Colors
      BY StatusFacts DEF TypeOK
    <2>3. transient_blinks_left' \in 0 .. TransientBlinks
      BY <1>4, <2>1, LedConstants DEF TypeOK, MoreFlashes
    <2> QED
      BY <1>2, <2>1, <2>2, <2>3
  <1>5. CASE ~led_mutex /\ ~transient_on /\ ~MoreFlashes
    <2>1. /\ RestoreStable /\ transient_on' = FALSE /\ transient_work' = FALSE
          /\ transient_blinks_left' = 0
          /\ UNCHANGED <<stable_status, led_mutex>>
      BY <1>5 DEF TransientWork
    <2>2. faults = 0 => ~blink_work
      BY StatusFacts DEF WorksFollow, TransientWork
    <2>3. transient_blinks_left' \in 0 .. TransientBlinks
      BY <2>1, LedConstants
    <2>4. UNCHANGED <<stable_status, led_mutex>>
      BY <2>1
    <2> QED
      BY ONLY <2>1, <2>2, <2>3, <2>4, RestoreStableStep, Inductive
  <1> QED
    BY <1>1, <1>3, <1>4, <1>5

\* One case for every action of Next.
LEMMA StepInductive == Inductive /\ [Next]_vars => Inductive'
  <1> SUFFICES ASSUME Inductive, [Next]_vars
               PROVE  Inductive'
    OBVIOUS
  <1> USE DEF Inductive
  <1>1. CASE Set
    <2>1. led_mutex' \in BOOLEAN
      BY <1>1 DEF Set, TypeOK
    <2> QED
      BY <1>1, <2>1, SetStableStep, SetTransientStep DEF Set
  <1>2. CASE MainLocks
    BY <1>2
       DEF MainLocks, TypeOK, Displays, WorksFollow, ColorFollows, Dark, Blinks, ColorOf
  <1>3. CASE MainSets
    BY <1>3, SetStableStep DEF MainSets, Stable
  <1>4. CASE BlinkWork
    BY <1>4, BlinkWorkStep
  <1>5. CASE TransientWork
    BY <1>5, TransientWorkStep
  <1>6. CASE UNCHANGED vars
    BY <1>6
       DEF vars, TypeOK, Displays, WorksFollow, ColorFollows, Dark, Blinks, ColorOf
  <1> QED
    BY <1>1, <1>2, <1>3, <1>4, <1>5, <1>6 DEF Next

\* The type invariant, the works and the colour are kept by every step.
THEOREM InductiveInvariant == Spec => []Inductive
  <1> QED
    BY InitInductive, StepInductive, PTL DEF Spec

\* The variables keep their types: the flashes left are between 0 and their number.
THEOREM TypeCorrect == Spec => []TypeOK
  <1>1. Inductive => TypeOK
    BY DEF Inductive
  <1> QED
    BY <1>1, InductiveInvariant, PTL

\* Every flash ends and SEARCHING blinks, as the works that do so are scheduled.
THEOREM WorksCorrect == Spec => []WorksServeDisplay
  <1>1. Inductive => WorksServeDisplay
    BY DEF Inductive, Displays, WorksFollow, WorksServeDisplay
  <1> QED
    BY <1>1, InductiveInvariant, PTL

\* The LED is dark only when a scheduled work is about to light it.
THEOREM DarkIsTemporary == Spec => []NeverLeftDark
  <1>1. Inductive => NeverLeftDark
    <2> SUFFICES ASSUME Inductive, faults = 0
                 PROVE  IF color = "off"
                        THEN transient_work \/ (blink_work /\ Blinks(displayed_status))
                        ELSE color = ColorOf(displayed_status)
      BY DEF NeverLeftDark
    <2>1. ColorOf(displayed_status) # "off"
      BY StatusFacts DEF Inductive, TypeOK
    <2> QED
      BY <2>1 DEF Inductive, WorksFollow, ColorFollows, Dark
  <1> QED
    BY <1>1, InductiveInvariant, PTL
=============================================================================
