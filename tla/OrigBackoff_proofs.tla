------------------------- MODULE OrigBackoff_proofs -------------------------
(* Theorems about OrigBackoff for every pair of delays and any number of   *)
(* failures.                                                               *)
EXTENDS OrigBackoff, WellFoundedInduction, TLAPS

Inductive == TypeOK /\ TimerMatchesPhase

\* The back-off stays between its two bounds (mqtt_reconnect.c:47-49).
LEMMA DoubledType ==
    ASSUME NEW delay \in InitialDelay .. MaxDelay
    PROVE  Doubled(delay) \in InitialDelay .. MaxDelay
  BY DelayAssumption DEF Doubled

\* aitsm_reconnect_init gives a state that is offline.
LEMMA InitialState ==
    /\ ReconnectInit \in ReconnectState
    /\ ~ReconnectInit.lte_available
  BY DelayAssumption DEF ReconnectInit, ReconnectState, Phases

LEMMA InitInductive == Init => Inductive
  BY InitialState, FailuresAssumption
     DEF Init, Inductive, TypeOK, TimerMatchesPhase, None

\* Every step leads from a state with a timer exactly in WAITING to another one.
LEMMA StepInductive == Inductive /\ [Next]_vars => Inductive'
  <1> SUFFICES ASSUME Inductive, [Next]_vars
               PROVE  Inductive'
    OBVIOUS
  <1> USE DEF Inductive
  <1>1. CASE LteUp
    BY <1>1, DelayAssumption
       DEF LteUp, Apply, HandleLteUp, Answer, TypeOK, TimerMatchesPhase,
           ReconnectState, Phases, None
  <1>2. CASE LteDown
    <2>1. reconnect' = ReconnectInit /\ failures' = 0
      BY <1>2 DEF LteDown, Apply, HandleLteDown, Answer
    <2>2. reconnect_work' = None
      BY <1>2 DEF LteDown, Apply, HandleLteDown, Answer, TypeOK, TimerMatchesPhase
    <2> QED
      BY <2>1, <2>2, InitialState, FailuresAssumption DEF TypeOK, TimerMatchesPhase
  <1>3. CASE MqttUp
    <2>1. failures' \in 0 .. MaxFailures
      BY <1>3, FailuresAssumption DEF MqttUp, TypeOK
    <2>2. CASE ~reconnect.lte_available
      BY <1>3, <2>1, <2>2
         DEF MqttUp, Apply, HandleMqttUp, Answer, TypeOK, TimerMatchesPhase
    <2>3. CASE reconnect.lte_available
      <3>1. /\ reconnect' = [reconnect EXCEPT !.phase = "CONNECTED",
                                              !.next_delay = InitialDelay]
            /\ reconnect_work' = None
        BY <1>3, <2>3 DEF MqttUp, Apply, HandleMqttUp, Answer
      <3>2. InitialDelay \in InitialDelay .. MaxDelay
        BY DelayAssumption
      <3>3. [reconnect EXCEPT !.phase = "CONNECTED"] \in ReconnectState
        BY DEF TypeOK, ReconnectState, Phases
      <3>4. reconnect' \in ReconnectState
        BY <3>1, <3>2, <3>3 DEF ReconnectState
      <3>5. reconnect'.phase = "CONNECTED"
        BY <3>1 DEF TypeOK, ReconnectState
      <3> QED
        BY <2>1, <3>1, <3>4, <3>5 DEF TypeOK, TimerMatchesPhase
    <2> QED
      BY <2>2, <2>3
  <1>4. CASE Failure
    <2>1. failures' \in 0 .. MaxFailures
      BY <1>4, FailuresAssumption DEF Failure, TypeOK
    <2>2. reconnect.next_delay \in InitialDelay .. MaxDelay
      BY DEF TypeOK, ReconnectState
    <2>3. CASE ~reconnect.lte_available \/ reconnect.phase = "WAITING"
      BY <1>4, <2>1, <2>3
         DEF Failure, Apply, HandleFailure, Answer, TypeOK, TimerMatchesPhase
    <2>4. CASE reconnect.lte_available /\ reconnect.phase # "WAITING"
      <3>1. /\ reconnect' = [reconnect EXCEPT !.phase = "WAITING",
                                !.next_delay = Doubled(reconnect.next_delay)]
            /\ reconnect_work' = reconnect.next_delay
        BY <1>4, <2>4 DEF Failure, Apply, HandleFailure, Answer
      <3>2. reconnect' \in ReconnectState
        BY <2>2, <3>1, DoubledType DEF TypeOK, ReconnectState, Phases
      <3>3. reconnect_work' \in 0 .. MaxDelay
        BY <2>2, <3>1, DelayAssumption
      <3>4. reconnect'.lte_available /\ reconnect'.phase = "WAITING"
        BY <2>4, <3>1 DEF TypeOK, ReconnectState
      <3> QED
        BY <2>1, <3>2, <3>3, <3>4 DEF TypeOK, TimerMatchesPhase, None
    <2> QED
      BY <2>3, <2>4
  <1>5. CASE Second
    BY <1>5, DelayAssumption DEF Second, TypeOK, TimerMatchesPhase, None
  <1>6. CASE ReconnectWork
    BY <1>6, DelayAssumption
       DEF ReconnectWork, HandleTimer, Answer, TypeOK, TimerMatchesPhase,
           ReconnectState, Phases, None
  <1>7. CASE UNCHANGED vars
    BY <1>7 DEF vars, TypeOK, TimerMatchesPhase
  <1> QED
    BY <1>1, <1>2, <1>3, <1>4, <1>5, <1>6, <1>7 DEF Next

LEMMA InductiveInvariant == Spec => []Inductive
  BY InitInductive, StepInductive, PTL DEF Spec

\* The delays stay between the two of Kconfig, whatever is reported
\* (mqtt_reconnect.c:4-6, 47-49).
THEOREM TypeCorrect == Spec => []TypeOK
  <1>1. Inductive => TypeOK
    BY DEF Inductive
  <1> QED
    BY <1>1, InductiveInvariant, PTL

\* No retry is forgotten, and none comes while an attempt or a connection is there
\* (app_controller.c:31-37).
THEOREM TimerCorrect == Spec => []TimerMatchesPhase
  <1>1. Inductive => TimerMatchesPhase
    BY DEF Inductive
  <1> QED
    BY <1>1, InductiveInvariant, PTL

\* A report never moves a deadline that is set (mqtt_reconnect.c:42-44).
THEOREM DeadlineCorrect == Spec => DeadlineKept
  <1>1. ASSUME Inductive, Next, reconnect_work # None, reconnect_work' # None
        PROVE  reconnect_work' \in {reconnect_work, reconnect_work - 1}
    <2>1. reconnect.lte_available /\ reconnect.phase = "WAITING"
      BY <1>1 DEF Inductive, TimerMatchesPhase
    <2>2. CASE LteUp
      BY <2>1, <2>2 DEF LteUp, Apply, HandleLteUp, Answer
    <2>3. CASE LteDown
      BY <1>1, <2>1, <2>3 DEF LteDown, Apply, HandleLteDown, Answer
    <2>4. CASE MqttUp
      BY <1>1, <2>1, <2>4 DEF MqttUp, Apply, HandleMqttUp, Answer
    <2>5. CASE Failure
      BY <2>1, <2>5 DEF Failure, Apply, HandleFailure, Answer
    <2>6. CASE Second
      BY <2>6 DEF Second
    <2>7. CASE ReconnectWork
      BY <1>1, <2>7 DEF ReconnectWork
    <2> QED
      BY <1>1, <2>2, <2>3, <2>4, <2>5, <2>6, <2>7 DEF Next
  <1>2. Inductive /\ [Next]_vars =>
            [reconnect_work # None /\ reconnect_work' # None =>
                reconnect_work' \in {reconnect_work, reconnect_work - 1}]_vars
    BY <1>1
  <1> QED
    BY <1>2, InductiveInvariant, PTL DEF Spec, DeadlineKept

-----------------------------------------------------------------------------
(* Delay is defined by recursion: that there is such a function is the first thing *)
(* to prove. Its beginnings are unique, and Delay is made of their last values. *)

Beginning(n, f) ==
    /\ f \in [0 .. n -> Nat]
    /\ \A i \in 0 .. n : f[i] = IF i <= 1 THEN InitialDelay ELSE Doubled(f[i - 1])

LEMMA LeastNumber ==
    ASSUME NEW T, T \subseteq Nat, T # {}
    PROVE  \E n \in T : \A m \in T : n <= m
  <1> DEFINE Less == OpToRel(<, Nat)
  <1>1. IsWellFoundedOn(Less, Nat)
    BY NatLessThanWellFounded, Zenon
  <1>2. PICK n \in T : \A m \in T : <<m, n>> \notin Less
    <2> HIDE DEF Less
    <2> QED
      BY <1>1, WFMin
  <1>3. \A m \in T : ~(m < n)
    BY <1>2 DEF OpToRel
  <1> QED
    BY <1>3

LEMMA BeginningExists ==
    ASSUME NEW n \in Nat
    PROVE  \E f : Beginning(n, f)
  <1> DEFINE Without == {k \in Nat : ~ \E f : Beginning(k, f)}
  <1> SUFFICES ASSUME Without # {}
               PROVE  FALSE
    OBVIOUS
  <1>1. PICK k \in Without : \A m \in Without : k <= m
    <2> HIDE DEF Without
    <2>1. Without \subseteq Nat
      BY DEF Without
    <2> QED
      BY <2>1, LeastNumber
  <1>2. k \in Nat /\ ~ \E f : Beginning(k, f)
    BY <1>1
  <1>3. CASE k = 0
    <2> DEFINE f == [i \in 0 .. k |-> InitialDelay]
    <2>1. Beginning(k, f)
      BY <1>2, <1>3, DelayAssumption DEF Beginning
    <2> QED
      BY <2>1, <1>2
  <1>4. CASE k # 0
    <2>1. PICK g : Beginning(k - 1, g)
      BY <1>1, <1>2, <1>4
    <2> DEFINE last == IF k = 1 THEN InitialDelay ELSE Doubled(g[k - 1])
               f == [i \in 0 .. k |-> IF i < k THEN g[i] ELSE last]
    <2>2. last \in Nat
      <3>1. g[k - 1] \in Nat
        BY <1>2, <1>4, <2>1 DEF Beginning
      <3> QED
        BY <3>1, DelayAssumption DEF Doubled
    <2>3. f \in [0 .. k -> Nat]
      <3> HIDE DEF last
      <3> QED
        BY <1>2, <1>4, <2>1, <2>2 DEF Beginning
    <2>4. ASSUME NEW i \in 0 .. k
          PROVE  f[i] = IF i <= 1 THEN InitialDelay ELSE Doubled(f[i - 1])
      BY <1>2, <1>4, <2>1, <2>4 DEF Beginning
    <2>5. Beginning(k, f)
      <3> HIDE DEF f
      <3> QED
        BY <2>3, <2>4 DEF Beginning
    <2> QED
      BY <2>5, <1>2
  <1> QED
    BY <1>3, <1>4

LEMMA BeginningsAgree ==
    ASSUME NEW n \in Nat, NEW m \in Nat, n <= m, NEW f, NEW g,
           Beginning(n, f), Beginning(m, g)
    PROVE  f[n] = g[n]
  <1> DEFINE Different == {i \in 0 .. n : f[i] # g[i]}
  <1> SUFFICES ASSUME Different # {}
               PROVE  FALSE
    OBVIOUS
  <1>1. PICK i \in Different : \A j \in Different : i <= j
    <2>1. Different \subseteq Nat
      OBVIOUS
    <2> HIDE DEF Different
    <2> QED
      BY <2>1, LeastNumber
  <1>2. CASE i <= 1
    BY <1>1, <1>2 DEF Beginning
  <1>3. CASE i > 1
    <2>1. f[i - 1] = g[i - 1]
      BY <1>1, <1>3
    <2> QED
      BY <1>1, <1>3, <2>1 DEF Beginning
  <1> QED
    BY <1>2, <1>3

\* The function that Delay's definition asks for exists, so Delay is it.
LEMMA DelayIsDefined ==
    \A n \in Nat :
        Delay[n] = IF n <= 1 THEN InitialDelay ELSE Doubled(Delay[n - 1])
  <1> DEFINE Start(n) == CHOOSE f : Beginning(n, f)
             D == [n \in Nat |-> Start(n)[n]]
             Value(f, n) == IF n <= 1 THEN InitialDelay
                            ELSE IF 2 * f[n - 1] < MaxDelay THEN 2 * f[n - 1]
                            ELSE MaxDelay
  <1>1. \A n \in Nat : Beginning(n, Start(n))
    BY BeginningExists
  <1>2. ASSUME NEW n \in Nat
        PROVE  D[n] = Value(D, n)
    <2> HIDE DEF Start
    <2>1. CASE n <= 1
      BY <1>1, <2>1 DEF Beginning
    <2>2. CASE n > 1
      <3>1. n - 1 \in Nat /\ n - 1 <= n
        BY <2>2
      <3>2. Start(n - 1)[n - 1] = Start(n)[n - 1]
        <4> DEFINE k == n - 1
                   f == Start(k)
                   g == Start(n)
        <4>1. k \in Nat /\ k <= n /\ Beginning(k, f) /\ Beginning(n, g)
          BY <1>1, <3>1
        <4> HIDE DEF k, f, g
        <4>2. f[k] = g[k]
          BY <4>1, BeginningsAgree
        <4> QED
          BY <4>2 DEF k, f, g
      <3>3. Start(n)[n] = Doubled(Start(n)[n - 1])
        BY <1>1, <2>2 DEF Beginning
      <3> QED
        BY <2>2, <3>1, <3>2, <3>3 DEF Doubled
    <2> QED
      BY <2>1, <2>2
  <1>3. D = [n \in Nat |-> Value(D, n)]
    <2>1. D = [n \in Nat |-> D[n]]
      OBVIOUS
    <2> HIDE DEF D, Value
    <2> QED
      BY <1>2, <2>1
  <1>4. Delay = [n \in Nat |-> Value(Delay, n)]
    <2> HIDE DEF D
    <2> QED
      BY <1>3, Zenon DEF Delay
  <1> QED
    BY <1>4 DEF Doubled

\* In a phase of failures the next delay is the one of the next failure.
Doubling == reconnect.next_delay = Delay[failures + 1]

LEMMA FirstDelay == Delay[1] = InitialDelay
  BY DelayIsDefined

LEMMA InitDoubling == Init => Doubling
  BY FirstDelay DEF Init, Doubling, ReconnectInit

LEMMA StepDoubling == Inductive /\ Doubling /\ [Next]_vars => Doubling'
  <1> SUFFICES ASSUME Inductive, Doubling, [Next]_vars
               PROVE  Doubling'
    OBVIOUS
  <1> USE DEF Inductive
  <1>a. failures \in Nat /\ reconnect \in ReconnectState
    BY FailuresAssumption DEF TypeOK
  <1>1. CASE LteUp
    BY <1>1, <1>a DEF LteUp, Apply, HandleLteUp, Answer, Doubling, ReconnectState
  <1>2. CASE LteDown
    BY <1>2, FirstDelay DEF LteDown, Apply, HandleLteDown, Answer, Doubling, ReconnectInit
  <1>3. CASE MqttUp
    BY <1>3, <1>a, FirstDelay DEF MqttUp, Apply, HandleMqttUp, Answer, Doubling, ReconnectState
  <1>4. CASE Failure
    <2>1. CASE ~reconnect.lte_available \/ reconnect.phase = "WAITING"
      BY <1>4, <2>1 DEF Failure, Apply, HandleFailure, Answer, Doubling
    <2>2. CASE reconnect.lte_available /\ reconnect.phase # "WAITING"
      <3>1. /\ reconnect' = [reconnect EXCEPT !.phase = "WAITING",
                                !.next_delay = Doubled(reconnect.next_delay)]
            /\ failures' = failures + 1
        BY <1>4, <2>2 DEF Failure, Apply, HandleFailure, Answer
      <3>2. reconnect'.next_delay = Doubled(Delay[failures + 1])
        BY <1>a, <3>1 DEF Doubling, ReconnectState
      <3>3. Delay[(failures + 1) + 1] = Doubled(Delay[failures + 1])
        <4>1. (failures + 1) + 1 \in Nat /\ ~((failures + 1) + 1 <= 1)
              /\ ((failures + 1) + 1) - 1 = failures + 1
          BY <1>a
        <4> QED
          BY <4>1, DelayIsDefined
      <3> QED
        BY <3>1, <3>2, <3>3 DEF Doubling
    <2> QED
      BY <2>1, <2>2
  <1>5. CASE Second
    BY <1>5 DEF Second, Doubling
  <1>6. CASE ReconnectWork
    BY <1>6, <1>a DEF ReconnectWork, HandleTimer, Answer, Doubling, ReconnectState
  <1>7. CASE UNCHANGED vars
    BY <1>7 DEF vars, Doubling
  <1> QED
    BY <1>1, <1>2, <1>3, <1>4, <1>5, <1>6, <1>7 DEF Next

\* The n-th failure in a row waits the initial delay doubled n-1 times, and the
\* maximum at most (mqtt_reconnect.c:47-49, docs/mqtt-reconnect.md:5-7).
THEOREM DoublingCorrect == Spec => BackoffDoubles
  <1>1. Spec => [](Inductive /\ Doubling)
    BY InitInductive, StepInductive, InitDoubling, StepDoubling, PTL DEF Spec
  <1>2. ASSUME Inductive, Doubling, Next, reconnect_work = None, reconnect_work' # None
        PROVE  reconnect_work' = Delay[failures']
    <2>1. CASE LteUp
      BY <1>2, <2>1 DEF LteUp, Apply, HandleLteUp, Answer
    <2>2. CASE LteDown
      BY <1>2, <2>2 DEF LteDown, Apply, HandleLteDown, Answer
    <2>3. CASE MqttUp
      BY <1>2, <2>3 DEF MqttUp, Apply, HandleMqttUp, Answer
    <2>4. CASE Failure
      <3>1. reconnect.lte_available /\ reconnect.phase # "WAITING"
        BY <1>2, <2>4 DEF Failure, Apply, HandleFailure, Answer
      <3>2. reconnect_work' = reconnect.next_delay /\ failures' = failures + 1
        BY <2>4, <3>1 DEF Failure, Apply, HandleFailure, Answer
      <3> QED
        BY <1>2, <3>2 DEF Doubling
    <2>5. CASE Second
      BY <1>2, <2>5 DEF Second, None
    <2>6. CASE ReconnectWork
      BY <1>2, <2>6 DEF ReconnectWork
    <2> QED
      BY <1>2, <2>1, <2>2, <2>3, <2>4, <2>5, <2>6 DEF Next
  <1>3. (Inductive /\ Doubling) /\ [Next]_vars =>
            [reconnect_work = None /\ reconnect_work' # None =>
                reconnect_work' = Delay[failures']]_vars
    BY <1>2
  <1> QED
    BY <1>1, <1>3, PTL DEF Spec, BackoffDoubles
=============================================================================
