------------------------ MODULE DeployIngest_proofs ------------------------
(* Theorems about DeployIngest for every set of scripts and any number of  *)
(* faults and restarts of the machine.                                     *)
EXTENDS DeployIngest, TLAPS

Phases == {"idle"} \cup Deploying \cup Testing
Job == [phase : Phases, result : Results, content : Scripts, previous : Scripts]
Container == [script : Scripts, up : BOOLEAN, subscribed : BOOLEAN]

\* Where the process must be on the installed file: while its subscription is waited
\* for, and after a deployment or a rollback, also during a test.
OnTarget ==
    \/ At("wait")
    \/ job.phase \notin Deploying /\ job.result \in {"deployed", "rolled_back"}

Inductive == TypeOK /\ (OnTarget => container.script = target)

\* A process that starts has loaded a whole script.
LEMMA StartedType ==
    ASSUME NEW script \in Scripts
    PROVE  Started(script) \in Container /\ Started(script).script = script
  BY DEF Started, Container

\* docker compose stop keeps what the process had loaded.
LEMMA StoppedType ==
    ASSUME container \in Container
    PROVE  Stopped \in Container /\ Stopped.script = container.script
  BY DEF Stopped, Container

\* docker compose start loads the installed file, if it starts anything.
LEMMA ComposeStartType ==
    ASSUME container \in Container, target \in Scripts, ComposeStart
    PROVE  /\ container' \in Container
           /\ container'.script \in {container.script, target}
  BY StartedType DEF ComposeStart

LEMMA GotoType ==
    ASSUME job \in Job, NEW phase \in Phases, Goto(phase)
    PROVE  /\ job' \in Job /\ job'.phase = phase
           /\ job'.result = job.result
  BY DEF Goto, Job

LEMMA EndType ==
    ASSUME job \in Job, NEW result \in Results, End(result)
    PROVE  /\ job' \in Job /\ job'.phase = "idle"
           /\ job'.result = result
  BY DEF End, Job, Phases

LEMMA FaultType ==
    ASSUME faults \in 0 .. MaxFaults, reboots \in 0 .. MaxReboots, Fault
    PROVE  faults' \in 0 .. MaxFaults /\ reboots' \in 0 .. MaxReboots
  BY DeployConstants DEF Fault

LEMMA InitInductive == Init => Inductive
  <1> SUFFICES ASSUME Init PROVE Inductive
    OBVIOUS
  <1>1. Started(Installed) \in Container /\ Started(Installed).script = Installed
    BY StartedType, DeployConstants
  <1>2. container \in Container /\ container.script = target
    BY <1>1 DEF Init, Container
  <1>3. job \in Job
    BY DeployConstants DEF Init, Job, Phases, Results
  <1>4. noted \in BOOLEAN /\ timer \in BOOLEAN
    BY Zenon DEF Init
  <1>5. /\ target \in Scripts
        /\ faults \in 0 .. MaxFaults /\ reboots \in 0 .. MaxReboots
    BY DeployConstants DEF Init
  <1> QED
    BY <1>2, <1>3, <1>4, <1>5 DEF Inductive, TypeOK, Container, Job, Phases

-----------------------------------------------------------------------------
(* What each step keeps. First the counters and the flags, then the file,  *)
(* the process and the job, which the invariant relates.                   *)

LEMMA Cases ==
    ASSUME [Next]_vars
    PROVE  \/ \E content \in Scripts : BeginDeploy(content)
           \/ BeginTest \/ Replace \/ ReplaceFails \/ Restart \/ RestartFails
           \/ WaitForSubscription \/ Restore \/ RestartPrevious
           \/ StopIngest \/ StopWaiting \/ StartIngest \/ Disarm
           \/ TimerFires \/ Subscribed \/ ContainerExits \/ Kill \/ Reboot
           \/ UNCHANGED vars
  BY Zenon DEF Next, Deploy, OutageTest, Around

LEMMA StepBounds ==
    ASSUME TypeOK, [Next]_vars
    PROVE  faults' \in 0 .. MaxFaults /\ reboots' \in 0 .. MaxReboots
  <1>1. \/ UNCHANGED budgets
        \/ Fault
        \/ reboots < MaxReboots /\ reboots' = reboots + 1 /\ faults' = faults
    BY Cases, Zenon
       DEF BeginDeploy, BeginTest, Replace, ReplaceFails, Restart, RestartFails,
           WaitForSubscription, Restore, RestartPrevious, StopIngest, StopWaiting,
           StartIngest, Disarm, TimerFires, Subscribed, ContainerExits, Kill,
           Reboot, vars, budgets
  <1> QED
    BY <1>1, FaultType, DeployConstants DEF TypeOK, budgets

LEMMA StepFlags ==
    ASSUME TypeOK, [Next]_vars
    PROVE  noted' \in BOOLEAN /\ timer' \in BOOLEAN
  <1>1. container.subscribed \in BOOLEAN /\ noted \in BOOLEAN /\ timer \in BOOLEAN
    BY DEF TypeOK
  <1>2. noted' \in {noted, TRUE, FALSE, container.subscribed}
    BY Cases, Zenon
       DEF BeginDeploy, BeginTest, Replace, ReplaceFails, Restart, RestartFails,
           WaitForSubscription, Restore, RestartPrevious, StopIngest, StopWaiting,
           StartIngest, Disarm, TimerFires, Subscribed, ContainerExits, Kill,
           Reboot, vars, budgets
  <1>3. timer' \in {timer, TRUE, FALSE}
    BY Cases, Zenon
       DEF BeginDeploy, BeginTest, Replace, ReplaceFails, Restart, RestartFails,
           WaitForSubscription, Restore, RestartPrevious, StopIngest, StopWaiting,
           StartIngest, Disarm, TimerFires, Subscribed, ContainerExits, Kill,
           Reboot, vars, budgets
  <1> QED
    BY <1>1, <1>2, <1>3, Zenon

Core ==
    /\ target \in Scripts /\ container \in Container /\ job \in Job
    /\ OnTarget => container.script = target

LEMMA CoreOfInductive == Inductive => Core
  BY DEF Inductive, TypeOK, Core, Container, Job, Phases

\* The steps of deploy. Before it waits nothing is claimed; RestartPrevious and
\* Restart load what is installed.
LEMMA DeployStep ==
    ASSUME Core, \/ \E content \in Scripts : BeginDeploy(content)
                 \/ Deploy
    PROVE  Core'
  <1> USE DEF Core
  <1>1. ASSUME NEW content \in Scripts, BeginDeploy(content)
        PROVE  Core'
    <2>1. target' = target /\ container' = container
      BY <1>1 DEF BeginDeploy
    <2>2. CASE content = target
      <3>1. job' \in Job /\ job'.phase = "idle" /\ job'.result \in {"identical", "raised"}
        BY <1>1, <2>2, EndType DEF BeginDeploy, Results
      <3> QED
        BY <2>1, <3>1 DEF OnTarget, At
    <2>3. CASE content # target
      <3>1. job' = [phase |-> "replace", result |-> "none",
                    content |-> content, previous |-> target]
        BY <1>1, <2>3 DEF BeginDeploy
      <3>2. job' \in Job /\ job'.phase = "replace"
        BY <3>1 DEF Job, Phases, Deploying, Results
      <3> QED
        BY <2>1, <3>2 DEF OnTarget, At, Deploying
    <2> QED
      BY <2>2, <2>3
  <1>2. CASE Replace
    <2>1. target' \in Scripts /\ container' = container
      BY <1>2 DEF Replace, Job
    <2>2. job' \in Job /\ job'.phase = "restart"
      BY <1>2, GotoType DEF Replace, Phases, Deploying
    <2> QED
      BY <2>1, <2>2 DEF OnTarget, At, Deploying
  <1>3. CASE ReplaceFails
    <2>1. job' \in Job /\ job'.phase = "restore"
      BY <1>3, GotoType DEF ReplaceFails, Phases, Deploying
    <2> QED
      BY <1>3, <2>1 DEF ReplaceFails, OnTarget, At, Deploying
  <1>4. CASE Restart
    <2>1. job' \in Job
      BY <1>4, GotoType DEF Restart, Phases, Deploying
    <2> QED
      BY <1>4, <2>1, StartedType DEF Restart
  <1>5. CASE RestartFails
    <2>1. job' \in Job /\ job'.phase = "restore"
      BY <1>5, GotoType DEF RestartFails, Phases, Deploying
    <2>2. container' \in Container
      BY <1>5, StoppedType DEF RestartFails
    <2> QED
      BY <1>5, <2>1, <2>2 DEF RestartFails, OnTarget, At, Deploying
  <1>6. CASE WaitForSubscription
    <2>1. container.script = target /\ target' = target /\ container' = container
      BY <1>6 DEF WaitForSubscription, OnTarget
    <2>2. job' \in Job
      BY <1>6, GotoType, EndType DEF WaitForSubscription, Phases, Deploying, Results
    <2> QED
      BY <2>1, <2>2
  <1>7. CASE Restore
    <2>1. target' \in Scripts /\ container' = container
      BY <1>7 DEF Restore, Job
    <2>2. /\ job' \in Job
          /\ \/ job'.phase = "restart_previous"
             \/ job'.phase = "idle" /\ job'.result = "raised"
      BY <1>7, GotoType, EndType DEF Restore, Phases, Deploying, Results
    <2> QED
      BY <2>1, <2>2 DEF OnTarget, At, Deploying
  <1>8. CASE RestartPrevious
    <2>1. CASE container' = Started(target) /\ End("rolled_back")
      <3>1. job' \in Job
        BY <2>1, EndType DEF Results
      <3> QED
        BY <1>8, <2>1, <3>1, StartedType DEF RestartPrevious
    <2>2. CASE container' \in {container, Stopped} /\ End("raised")
      <3>1. job' \in Job /\ job'.phase = "idle" /\ job'.result = "raised"
        BY <2>2, EndType DEF Results
      <3> QED
        BY <1>8, <2>2, <3>1, StoppedType DEF RestartPrevious, OnTarget, At
    <2> QED
      BY <1>8, <2>1, <2>2 DEF RestartPrevious
  <1> QED
    BY <1>1, <1>2, <1>3, <1>4, <1>5, <1>6, <1>7, <1>8 DEF Deploy

\* The steps of verify keep the process on the file, or put it there.
LEMMA TestStep ==
    ASSUME Core, BeginTest \/ OutageTest
    PROVE  Core'
  <1> USE DEF Core
  <1>1. target' = target
    BY Zenon DEF BeginTest, OutageTest, StopIngest, StopWaiting, StartIngest, Disarm
  <1>2. container' \in Container /\ container'.script \in {container.script, target}
    BY StoppedType, ComposeStartType
       DEF BeginTest, OutageTest, StopIngest, StopWaiting, StartIngest, Disarm
  <1>3. job.phase \notin Deploying
    BY DEF BeginTest, OutageTest, StopIngest, StopWaiting, StartIngest, Disarm,
           At, Deploying
  <1>4. job' \in Job /\ ~At("wait")' /\ job'.result \in {job.result, "raised", "tested"}
    <2>1. \/ \E phase \in Testing : Goto(phase)
          \/ End("raised") \/ End("tested")
      BY DEF BeginTest, OutageTest, StopIngest, StopWaiting, StartIngest, Disarm, Testing
    <2>2. Testing \subseteq Phases /\ "wait" \notin Testing
      BY DEF Testing, Phases
    <2>3. "raised" \in Results /\ "tested" \in Results
      BY DEF Results
    <2> QED
      BY <2>1, <2>2, <2>3, GotoType, EndType DEF At
  <1> QED
    BY <1>1, <1>2, <1>3, <1>4 DEF OnTarget

\* What happens around the job: a process that starts loads what is installed.
LEMMA AroundStep ==
    ASSUME Core, Around
    PROVE  Core'
  <1> USE DEF Core
  <1>1. target' = target
    BY Zenon DEF Around, TimerFires, Subscribed, ContainerExits, Kill, Reboot
  <1>2. container' \in Container /\ container'.script \in {container.script, target}
    <2>1. CASE Subscribed
      BY <2>1 DEF Subscribed, Container
    <2>2. CASE TimerFires \/ ContainerExits \/ Kill \/ Reboot
      BY <2>2, StartedType, ComposeStartType
         DEF TimerFires, ContainerExits, Kill, Reboot
    <2> QED
      BY <2>1, <2>2 DEF Around
  <1>3. job' = job \/ End("killed")
    BY Zenon DEF Around, TimerFires, Subscribed, ContainerExits, Kill, Reboot
  <1>4. CASE job' = job
    BY <1>1, <1>2, <1>4 DEF OnTarget, At
  <1>5. CASE End("killed")
    <2>1. job' \in Job /\ job'.phase = "idle" /\ job'.result = "killed"
      BY <1>5, EndType DEF Results
    <2> QED
      BY <1>1, <1>2, <2>1 DEF OnTarget, At
  <1> QED
    BY <1>3, <1>4, <1>5

LEMMA StepInductive == Inductive /\ [Next]_vars => Inductive'
  <1> SUFFICES ASSUME Inductive, [Next]_vars
               PROVE  Inductive'
    OBVIOUS
  <1>1. Core
    BY CoreOfInductive
  <1>2. ASSUME UNCHANGED vars PROVE Core'
    BY <1>1, <1>2 DEF vars, Core, OnTarget, At
  <1>3. Core'
    BY <1>1, <1>2, DeployStep, TestStep, AroundStep DEF Next
  <1>4. /\ faults' \in 0 .. MaxFaults /\ reboots' \in 0 .. MaxReboots
        /\ noted' \in BOOLEAN /\ timer' \in BOOLEAN
    BY StepBounds, StepFlags DEF Inductive
  <1> QED
    BY <1>3, <1>4 DEF Inductive, TypeOK, Core, Container, Job, Phases

LEMMA InductiveInvariant == Spec => []Inductive
  BY InitInductive, StepInductive, PTL DEF Spec

\* The installed file is a whole script, whatever fails or is killed
\* (deploy_ingest.py:37-48).
THEOREM TypeCorrect == Spec => []TypeOK
  <1>1. Inductive => TypeOK
    BY DEF Inductive
  <1> QED
    BY <1>1, InductiveInvariant, PTL

\* A deployment or a rollback that ended leaves the process on the installed file,
\* until the next job changes it (deploy_ingest.py:74-82).
THEOREM InstalledCorrect == Spec => []RunsWhatIsInstalled
  <1>1. Inductive => RunsWhatIsInstalled
    BY DEF Inductive, RunsWhatIsInstalled, Finished, OnTarget, At, Deploying
  <1> QED
    BY <1>1, InductiveInvariant, PTL
=============================================================================
