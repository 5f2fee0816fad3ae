---------------------------- MODULE DeployIngest ----------------------------
(***************************************************************************)
(* deploy_ingest.py and verify_ingest_outage.py: one job at a time that    *)
(* replaces the installed script, restarts the container and rolls back,   *)
(* or that stops the container for a while and starts it again. A job may  *)
(* be killed between any two steps. Docker, systemd and the script that is *)
(* deployed are external.                                                  *)
(***************************************************************************)
EXTENDS Naturals

CONSTANTS
    Scripts,        \* contents of ingest.py that pass PAHO_CHECK and compile
    Works,          \* those that reach "MQTT subscription acknowledged"
    Installed,      \* what is installed, and runs, before the first job
    MaxFaults,      \* bound: commands that fail and jobs that are killed
    MaxReboots      \* bound: restarts of the whole machine

ASSUME DeployConstants ==
    /\ Works \subseteq Scripts /\ Installed \in Scripts
    /\ MaxFaults \in Nat /\ MaxReboots \in Nat

VARIABLES
    target,     \* the file TARGET
    container,  \* the service: script is what its process has loaded
    noted,      \* its log has the subscription's line, from "since" on
    timer,      \* RESTORE_UNIT is armed
    job,        \* phase, result of the last one; content and previous of deploy
    faults, reboots

vars == <<target, container, noted, timer, job, faults, reboots>>
budgets == <<faults, reboots>>

Deploying == {"replace", "restart", "wait", "restore", "restart_previous"}
Testing == {"stop", "stopped", "start", "disarm"}
Results == {"none", "deployed", "identical", "rolled_back", "tested", "raised", "killed"}

\* The installed file is always a whole script.
TypeOK ==
    /\ target \in Scripts
    /\ container \in [script : Scripts, up : BOOLEAN, subscribed : BOOLEAN]
    /\ noted \in BOOLEAN /\ timer \in BOOLEAN
    /\ job \in [phase : {"idle"} \cup Deploying \cup Testing, result : Results,
                content : Scripts, previous : Scripts]
    /\ faults \in 0 .. MaxFaults /\ reboots \in 0 .. MaxReboots

Started(script) == [script |-> script, up |-> TRUE, subscribed |-> FALSE]
Stopped == [container EXCEPT !.up = FALSE, !.subscribed = FALSE]

Init ==
    /\ target = Installed
    /\ container \in {Started(Installed), [Started(Installed) EXCEPT !.subscribed = TRUE]}
    /\ noted = FALSE /\ timer = FALSE
    /\ job = [phase |-> "idle", result |-> "none", content |-> Installed, previous |-> Installed]
    /\ faults = 0 /\ reboots = 0

At(phase) == job.phase = phase
Goto(phase) == job' = [job EXCEPT !.phase = phase]
End(result) == job' = [job EXCEPT !.phase = "idle", !.result = result]
Fault == faults < MaxFaults /\ faults' = faults + 1 /\ UNCHANGED reboots

-----------------------------------------------------------------------------
(* deploy                                                                  *)

\* "since" has no fraction: a subscription of the same second counts as later.
BeginDeploy(content) ==
    /\ At("idle")
    /\ IF content = target
       THEN /\ End(IF container.up THEN "identical" ELSE "raised")
            /\ UNCHANGED noted
       ELSE /\ job' = [phase |-> "replace", result |-> "none",
                       content |-> content, previous |-> target]
            /\ noted' \in {FALSE, container.subscribed}
    /\ UNCHANGED <<target, container, timer, budgets>>

Replace ==
    /\ At("replace")
    /\ target' = job.content /\ Goto("restart")
    /\ UNCHANGED <<container, noted, timer, budgets>>
ReplaceFailsInPlace ==      \* variant: the file is written where it is
    /\ At("replace") /\ Fault
    /\ target' = "partial" /\ Goto("restore")
    /\ UNCHANGED <<container, noted, timer>>
ReplaceFails ==
    /\ At("replace") /\ Fault
    /\ Goto("restore")
    /\ UNCHANGED <<target, container, noted, timer>>

Restart ==
    /\ At("restart")
    /\ container' = Started(target) /\ Goto("wait")
    /\ UNCHANGED <<target, noted, timer, budgets>>
RestartFails ==
    /\ At("restart") /\ Fault
    /\ container' \in {container, Stopped} /\ Goto("restore")
    /\ UNCHANGED <<target, noted, timer>>

WaitForSubscription ==
    /\ At("wait")
    /\ \/ /\ IF container.up /\ noted THEN End("deployed") ELSE Goto("restore")
          /\ UNCHANGED budgets
       \/ Fault /\ Goto("restore")
    /\ UNCHANGED <<target, container, noted, timer>>

\* The except clause; what it raises itself is not caught.
Restore ==
    /\ At("restore")
    /\ \/ target' = job.previous /\ Goto("restart_previous") /\ UNCHANGED budgets
       \/ Fault /\ End("raised") /\ UNCHANGED target
    /\ UNCHANGED <<container, noted, timer>>
RestartPreviousForgotten ==     \* variant: the container is not restarted
    /\ At("restart_previous") /\ End("rolled_back")
    /\ UNCHANGED <<target, container, noted, timer, budgets>>
RestartPrevious ==
    /\ At("restart_previous")
    /\ \/ container' = Started(target) /\ End("rolled_back") /\ UNCHANGED budgets
       \/ container' \in {container, Stopped} /\ End("raised") /\ Fault
    /\ UNCHANGED <<target, noted, timer>>

-----------------------------------------------------------------------------
(* verify                                                                  *)

\* main runs it after deploy. Any of the checks before the test may refuse it, and
\* systemd-run refuses a unit that exists.
BeginTest ==
    /\ At("idle") /\ job.result \in {"deployed", "identical"}
    /\ \/ container.up /\ ~timer /\ timer' = TRUE /\ Goto("stop")
       \/ End("raised") /\ UNCHANGED timer
    /\ UNCHANGED <<target, container, noted, budgets>>

StopIngest ==
    /\ At("stop")
    /\ \/ container' = Stopped /\ Goto("stopped") /\ UNCHANGED budgets
       \/ Fault /\ Goto("start") /\ UNCHANGED container
    /\ UNCHANGED <<target, noted, timer>>

\* After 360 s, or with an exception: SIGTERM and SIGHUP are one.
StopWaiting ==
    /\ At("stopped") /\ Goto("start")
    /\ UNCHANGED <<target, container, noted, timer, budgets>>

ComposeStart == container' = IF container.up THEN container ELSE Started(target)

StartIngestDisarmsFirst ==      \* variant: the timer is cancelled before the start
    /\ At("start") /\ timer' = FALSE
    /\ \/ ComposeStart /\ Goto("disarm") /\ UNCHANGED budgets
       \/ Fault /\ End("raised") /\ UNCHANGED container
    /\ UNCHANGED <<target, noted>>
\* The finally clause: the timer is cancelled only after a start that succeeded.
StartIngest ==
    /\ At("start")
    /\ \/ ComposeStart /\ Goto("disarm") /\ UNCHANGED budgets
       \/ Fault /\ End("raised") /\ UNCHANGED container
    /\ UNCHANGED <<target, noted, timer>>
Disarm ==
    /\ At("disarm")
    /\ \/ timer /\ timer' = FALSE /\ End("tested") /\ UNCHANGED budgets
       \/ ~timer /\ End("raised") /\ UNCHANGED <<timer, budgets>>
       \/ Fault /\ End("raised") /\ UNCHANGED timer
    /\ UNCHANGED <<target, container, noted>>

-----------------------------------------------------------------------------
(* Around the job.                                                         *)

\* 420 s after systemd-run, which is after 360 s or after a kill.
TimerFires ==
    /\ timer /\ ~At("stop") /\ timer' = FALSE
    /\ \/ ComposeStart /\ UNCHANGED budgets
       \/ Fault /\ UNCHANGED container
    /\ UNCHANGED <<target, noted, job>>

\* on_subscribe of ingest.py, at the first connection and at each reconnection.
Subscribed ==
    /\ container.up /\ container.script \in Works
    /\ container' = [container EXCEPT !.subscribed = TRUE] /\ noted' = TRUE
    /\ UNCHANGED <<target, timer, job, budgets>>

\* restart: unless-stopped (compose.yml). It loads what is installed by now.
ContainerExits ==
    /\ container.up /\ Fault
    /\ container' = Started(target)
    /\ UNCHANGED <<target, noted, timer, job>>

Kill ==
    /\ ~At("idle") /\ Fault
    /\ End("killed")
    /\ UNCHANGED <<target, container, noted, timer>>

\* A transient unit is gone, and a container that was stopped stays so.
Reboot ==
    /\ reboots < MaxReboots /\ reboots' = reboots + 1
    /\ timer' = FALSE /\ container' = IF container.up THEN Started(target) ELSE container
    /\ IF At("idle") THEN UNCHANGED job ELSE End("killed")
    /\ UNCHANGED <<target, noted, faults>>

Deploy ==
    \/ Replace \/ ReplaceFails \/ Restart \/ RestartFails
    \/ WaitForSubscription \/ Restore \/ RestartPrevious
OutageTest == StopIngest \/ StopWaiting \/ StartIngest \/ Disarm
Around == TimerFires \/ Subscribed \/ ContainerExits \/ Kill \/ Reboot

Next ==
    \/ \E content \in Scripts : BeginDeploy(content)
    \/ BeginTest \/ Deploy \/ OutageTest \/ Around

Spec == Init /\ [][Next]_vars

(***************************************************************************)
(* Fairness: a job goes on unless it is killed, and the timer goes off.    *)
(***************************************************************************)
FairSpec == Spec /\ WF_vars(Deploy) /\ WF_vars(OutageTest) /\ WF_vars(TimerFires)

-----------------------------------------------------------------------------
\* A job that has deployed or rolled back leaves the process on the file that is
\* installed, and no later job or fault parts the two before the next deployment
\* (cloud/mqtt/README.md:157-159).
Finished(results) == At("idle") /\ job.result \in results
RunsWhatIsInstalled == Finished({"deployed", "rolled_back"}) => container.script = target

\* A job that finds the script installed already leaves it running.
IdenticalRuns == Finished({"identical"}) => container.script = target

\* Ingest that the test has stopped runs again, also when the job is killed or its
\* own start fails, as the timer starts it then (verify_ingest_outage.py:2, 21-22,
\* 36-37). Not so when the timer's own start fails as well, nor after a restart of
\* the machine, which takes the timer with it.
StoppedIsStarted ==
    \A f \in 0 .. MaxFaults, r \in 0 .. MaxReboots :
        At("stopped") /\ timer /\ faults = f /\ reboots = r
            ~> container.up \/ faults > f + 1 \/ reboots > r
=============================================================================
