------------------------------- MODULE Hosts -------------------------------
(***************************************************************************)
(* One host with one server: the agent's heartbeats, the automatic start   *)
(* of a server that is down, the memory watcher's restarts, maintenance    *)
(* mode and the server's row, over the lifecycle jobs of GameServer.  Each *)
(* query of a request is a step; the job queue is JobRuns' in short: a run *)
(* is queued, executed, or lost until the sweeper fails it.                *)
(***************************************************************************)
EXTENDS GameServer, FiniteSets

CONSTANTS
    Requests,       \* heartbeat requests that may be in progress at once
    OpTypes,        \* the jobs operators ask for
    MaxOps,         \* requests of operators and of the memory watcher
    MaxQueue,       \* length of the queue
    StabilityRestart, \* the organisation's stabilityRestartEnabled
    MaxFaults       \* processes that die, results and calls that are lost

ASSUME HostsAssumption ==
    /\ OpTypes \subseteq DOMAIN Program
    /\ StabilityRestart \in BOOLEAN
    /\ MaxOps \in Nat /\ MaxQueue \in Nat \ {0} /\ MaxFaults \in Nat

VARIABLES
    inst,       \* the ServerInstance row
    agent,      \* the agent runs; it probes the game; the last probe's answer
    queue,      \* pending runs of lifecycle jobs, as queued
    lost,       \* types of the running runs that no agent executes
    orphan,     \* types of the pending runs that are in no queue
    recent,     \* "start", "watch": a job counted by this cooldown is recent
    setting,    \* maintenance mode a finished job is about to set
    hb,         \* where the heartbeat requests are
    maint,      \* an operator's maintenance request has updated the row
    watch,      \* where the watcher's request is
    quiet,      \* maintenance was asked for and no opt-in followed
    ops, faults

vars == <<gameVars, inst, agent, queue, lost, orphan, recent, setting, hb, maint,
          watch, quiet, ops, faults>>
hostVars == <<inst, agent, queue, lost, orphan, recent, setting, hb, maint, watch,
              quiet, ops, faults>>

Idle == [pc |-> "idle", late |-> FALSE]
OffAgent == [up |-> FALSE, probing |-> FALSE, reachable |-> FALSE]

Init ==
    /\ GameInit
    /\ inst \in [reboot : BOOLEAN, maintenance : {FALSE}, command : Commands]
    /\ agent = OffAgent
    /\ queue = <<>> /\ lost = {} /\ orphan = {} /\ recent = {}
    /\ setting = "none" /\ hb = [x \in Requests |-> Idle]
    /\ maint = FALSE /\ watch = "idle"
    /\ quiet = FALSE /\ ops = 0 /\ faults = 0

Fault == faults < MaxFaults /\ faults' = faults + 1
Operator == ops < MaxOps /\ ops' = ops + 1

\* A pending or running run of a lifecycle job.
ActiveTypes ==
    {queue[i] : i \in 1..Len(queue)} \cup lost \cup orphan
        \cup (IF cur = NoJob THEN {} ELSE {cur.type})

\* job.create, jobRun.create and addJob with the row's values of this moment;
\* the last call may throw.
Create(type) ==
    /\ recent' = recent \cup {"start"}
                   \cup (IF type = "SERVER_SAFE_RESTART" THEN {"watch"} ELSE {})
    /\ \/ /\ Len(queue) < MaxQueue
          /\ queue' = Append(queue, type)
          /\ UNCHANGED <<orphan, faults>>
       \/ orphan' = orphan \cup {type} /\ Fault /\ UNCHANGED queue

-----------------------------------------------------------------------------
(* The server's row                                                        *)

\* main: the agent starts.  Without a discovered RCON port the game is not probed.
AgentStarts ==
    /\ ~agent.up
    /\ \E p \in BOOLEAN : agent' = [OffAgent EXCEPT !.up = TRUE, !.probing = p]
    /\ UNCHANGED <<gameVars, inst, queue, lost, orphan, recent, setting, hb, maint, watch,
                   quiet, ops, faults>>

\* update: the operator turns reboot-if-down on or off.
UpdateInstance ==
    /\ inst' = [inst EXCEPT !.reboot = ~@]
    /\ quiet' = (quiet /\ inst.reboot)
    /\ UNCHANGED <<gameVars, agent, queue, lost, orphan, recent, setting, hb, maint,
                   watch, ops, faults>>

-----------------------------------------------------------------------------
(* Heartbeats                                                              *)

\* Mutant: the agent probes until it has reached the game once.
Probe_Once ==
    /\ agent.up /\ agent.probing /\ agent.reachable # Listening
    /\ ~agent.reachable
    /\ agent' = [agent EXCEPT !.reachable = Listening]
    /\ UNCHANGED <<gameVars, inst, queue, lost, orphan, recent, setting, hb, maint,
                   watch, quiet, ops, faults>>

\* probeEndpoint, every 15 seconds; between two probes the answer is kept.
Probe ==
    /\ agent.up /\ agent.probing /\ agent.reachable # Listening
    /\ agent' = [agent EXCEPT !.reachable = Listening]
    /\ UNCHANGED <<gameVars, inst, queue, lost, orphan, recent, setting, hb, maint,
                   watch, quiet, ops, faults>>

HbAt(x, pc) == hb[x].pc = pc
HbGoes(x, pc) == hb' = [hb EXCEPT ![x] = IF pc = "idle" THEN Idle ELSE [@ EXCEPT !.pc = pc]]
HbOnly == UNCHANGED <<gameVars, inst, agent, queue, lost, orphan, recent, setting, maint,
                      watch, quiet, ops, faults>>

\* recordHeartbeatByHostIdOnly: the metrics are stored, which nothing below reads, and
\* maybeRebootIfDown looks for a server that opted in and is not in maintenance.
OptedIn == inst.reboot /\ ~inst.maintenance

\* heartbeat.Run: without a probe the game counts as unreachable.  The next heartbeat is
\* sent when the last was answered or timed out.
Heartbeat(x) ==
    /\ agent.up /\ ~agent.reachable /\ HbAt(x, "idle")
    /\ OptedIn
    /\ hb' = [hb EXCEPT ![x] = [pc |-> "active", late |-> quiet]]
    /\ HbOnly

FindActive(x) ==
    /\ HbAt(x, "active")
    /\ HbGoes(x, IF ActiveTypes # {} THEN "idle" ELSE "recent")
    /\ HbOnly

FindRecent(x) ==
    /\ HbAt(x, "recent")
    /\ HbGoes(x, IF "start" \in recent THEN "idle" ELSE "enqueue")
    /\ HbOnly

\* enqueueInternalJob(SERVER_START).
EnqueueStart(x) ==
    /\ HbAt(x, "enqueue")
    /\ Create("SERVER_START")
    /\ HbGoes(x, "idle")
    /\ UNCHANGED <<gameVars, inst, agent, lost, setting, maint, watch, quiet, ops>>

-----------------------------------------------------------------------------
(* The memory watcher: evaluate                                            *)

WatchOnly == UNCHANGED <<gameVars, inst, agent, lost, setting, hb, maint, quiet>>

Evaluate ==
    /\ watch = "idle" /\ agent.up /\ Listening
    /\ StabilityRestart /\ Operator
    /\ watch' = IF "SERVER_SAFE_RESTART" \in ActiveTypes THEN "idle" ELSE "recent"
    /\ WatchOnly /\ UNCHANGED <<queue, orphan, recent, faults>>

EvaluateRecent ==
    /\ watch = "recent"
    /\ watch' = IF "watch" \in recent THEN "idle" ELSE "enqueue"
    /\ WatchOnly /\ UNCHANGED <<queue, orphan, recent, ops, faults>>

EnqueueSafeRestart ==
    /\ watch = "enqueue" /\ watch' = "idle"
    /\ Create("SERVER_SAFE_RESTART")
    /\ WatchOnly /\ UNCHANGED ops

\* A cooldown passes.
CooldownOver ==
    /\ \E c \in recent : recent' = recent \ {c}
    /\ UNCHANGED <<gameVars, inst, agent, queue, lost, orphan, setting, hb, maint, watch,
                   quiet, ops, faults>>

-----------------------------------------------------------------------------
(* Operators: createJob                                                    *)

CreateJob ==
    /\ Operator
    /\ \E type \in OpTypes \ {"ENTER_MAINTENANCE"} : Create(type)
    /\ UNCHANGED <<gameVars, inst, agent, lost, setting, hb, maint, watch, quiet>>

\* A request in progress before maintenance is asked for is not late.
NotLate == hb' = [x \in Requests |-> [hb[x] EXCEPT !.late = FALSE]]

\* Mutant: reboot-if-down is left to the result of the job.
EnterMaintenance_Later ==
    /\ "ENTER_MAINTENANCE" \in OpTypes /\ ~maint /\ Operator
    /\ maint' = TRUE /\ quiet' = TRUE
    /\ NotLate
    /\ UNCHANGED <<gameVars, inst, agent, queue, lost, orphan, recent, setting, watch, faults>>

\* Entering maintenance turns reboot-if-down off before the job is created.
EnterMaintenance ==
    /\ "ENTER_MAINTENANCE" \in OpTypes /\ ~maint /\ Operator
    /\ maint' = TRUE /\ quiet' = TRUE
    /\ inst' = [inst EXCEPT !.reboot = FALSE]
    /\ NotLate
    /\ UNCHANGED <<gameVars, agent, queue, lost, orphan, recent, setting, watch, faults>>

CreateMaintenanceJob ==
    /\ maint /\ maint' = FALSE
    /\ Create("ENTER_MAINTENANCE")
    /\ UNCHANGED <<gameVars, inst, agent, lost, setting, hb, watch, quiet, ops>>

-----------------------------------------------------------------------------
(* The agent and its jobs                                                  *)

AgentTakesJob ==
    /\ agent.up /\ queue # <<>>
    /\ TakeJob(Head(queue), inst.command) /\ queue' = Tail(queue)
    /\ UNCHANGED <<inst, agent, lost, orphan, recent, setting, hb, maint, watch, quiet,
                   ops, faults>>

AgentStep == JobStep /\ UNCHANGED hostVars

ModeAfter(type) == IF type = "ENTER_MAINTENANCE" THEN "on" ELSE "off"

\* reportJobResult: the run is settled first, the row is updated after; or the
\* result is lost.
AgentReports ==
    /\ FinishJob
    /\ \/ /\ setting = "none"
          /\ setting' = IF cur.ok /\ cur.type \in {"ENTER_MAINTENANCE", "LEAVE_MAINTENANCE"}
                        THEN ModeAfter(cur.type) ELSE "none"
          /\ UNCHANGED <<lost, faults>>
       \/ lost' = lost \cup {cur.type} /\ Fault /\ UNCHANGED setting
    /\ UNCHANGED <<inst, agent, queue, orphan, recent, hb, maint, watch, quiet, ops>>

SetMaintenanceMode ==
    /\ setting # "none" /\ setting' = "none"
    /\ inst' = [inst EXCEPT !.maintenance = (setting = "on"), !.reboot = @ /\ setting = "off"]
    /\ UNCHANGED <<gameVars, agent, queue, lost, orphan, recent, hb, maint, watch, quiet,
                   ops, faults>>

\* failStaleRunningJobs.
SweepLost ==
    /\ lost # {} /\ lost' = {}
    /\ UNCHANGED <<gameVars, inst, agent, queue, orphan, recent, setting, hb, maint, watch,
                   quiet, ops, faults>>

AgentStops ==
    /\ agent.up /\ Fault
    /\ agent' = OffAgent
    /\ AgentDies
    /\ lost' = lost \cup (IF cur = NoJob THEN {} ELSE {cur.type})
    /\ UNCHANGED <<inst, queue, orphan, recent, setting, hb, maint, watch, quiet, ops>>

GameRuns == GameStep /\ UNCHANGED hostVars

Next ==
    \/ GameRuns \/ AgentStarts \/ AgentStops \/ AgentTakesJob \/ AgentStep \/ AgentReports
    \/ Probe \/ CooldownOver \/ SweepLost \/ SetMaintenanceMode
    \/ UpdateInstance \/ CreateJob \/ EnterMaintenance \/ CreateMaintenanceJob
    \/ Evaluate \/ EvaluateRecent \/ EnqueueSafeRestart
    \/ \E x \in Requests :
         Heartbeat(x) \/ FindActive(x) \/ FindRecent(x) \/ EnqueueStart(x)

\* Timers fire, requests end and the agent, which systemd restarts, works; the game
\* and the operators owe nothing.
Fairness ==
    /\ WF_vars(AgentStarts) /\ WF_vars(AgentTakesJob) /\ WF_vars(AgentStep)
    /\ WF_vars(AgentReports) /\ WF_vars(Probe) /\ WF_vars(CooldownOver)
    /\ WF_vars(SweepLost) /\ WF_vars(SetMaintenanceMode) /\ WF_vars(CreateMaintenanceJob)
    /\ \A x \in Requests :
         /\ WF_vars(Heartbeat(x)) /\ WF_vars(FindActive(x))
         /\ WF_vars(FindRecent(x)) /\ WF_vars(EnqueueStart(x))

Spec == Init /\ [][Next]_vars /\ Fairness

-----------------------------------------------------------------------------
(* Properties                                                              *)

\* Stop, save-stop and kill: once such a job has ended well, the game no longer
\* listens and stays so until a job starts it (adapter.go Stop, Kill,
\* forceStopProcesses), whatever RCON answered, however long the game saves and
\* whichever job ran before.  A stop that met a game that was still booting is
\* excepted: forceStopProcesses takes it for stopped.
StopHolds == stopped => game \in {"down", "saving"}

\* Maintenance: once an operator has asked for it, no heartbeat that arrives later
\* gets as far as an automatic start before somebody opts in again (createJob
\* turns reboot-if-down off before it creates the job), whether the job is
\* queued, runs, fails or is lost.
MaintenanceQuiet == \A x \in Requests : quiet /\ hb[x].late => hb[x].pc # "enqueue"

\* Reboot-if-down: a server that is opted in for good, in no maintenance and with
\* no pending run outside the queue, is reachable or being started again and
\* again, although agents die, results are lost and the game ends at any time.
KeepAlive ==
    <>[](inst.reboot /\ ~inst.maintenance /\ orphan = {})
        => []<>(Listening \/ At("start"))
=============================================================================
