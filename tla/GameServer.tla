----------------------------- MODULE GameServer -----------------------------
(***************************************************************************)
(* The game process of one server and the lifecycle jobs of the agent's    *)
(* Minecraft adapter, which runs one of them at a time.  A job is a        *)
(* program of steps.  The adapter sees the process only through its ports: *)
(* a process that is still booting or that saves the world after closing   *)
(* its ports looks like one that does not exist.                           *)
(***************************************************************************)
EXTENDS Naturals, Sequences

CONSTANT NoJob

VARIABLES
    game,       \* the game process
    tied,       \* it was started directly and ends with the job's context
    cur,        \* the job the agent executes: its type, start command and steps
    stopped     \* the last lifecycle job to end stopped a game that was not booting

gameVars == <<game, tied, cur, stopped>>

GameStates == {"down", "booting", "up", "stopping", "saving"}
Listening == game \in {"up", "stopping"}

\* What a server may be started by: nothing configured or "java -jar" runs the
\* process directly, a script runs it as a child that outlives the script.
Commands == {"none", "script"}

\* The methods as programs.  A command that must succeed is a step; one whose error
\* is ignored changes nothing here and is left out.
Restart == <<"stop", "start">>
SafeRestart == <<"say", "say", "stop", "start">>
Update == <<"status", "shell">>

\* Execute: what a job of each type does.  SERVER_MAINTENANCE is split by its payload.
Program ==
    [SERVER_START        |-> <<"start">>,
     SERVER_STOP         |-> <<"stop">>,
     SERVER_KILL         |-> <<"kill">>,
     SERVER_RESTART      |-> Restart,
     SERVER_SAFE_RESTART |-> SafeRestart,
     SERVER_SAVE_STOP    |-> <<"say", "stop">>,
     SERVER_WIPE_SAVE    |-> <<"stop">>,
     SERVER_UPDATE       |-> Update,
     ENTER_MAINTENANCE   |-> <<"whitelist">>,
     LEAVE_MAINTENANCE   |-> <<"whitelist">>]

StopTypes == {"SERVER_STOP", "SERVER_SAVE_STOP", "SERVER_KILL"}

At(step) == cur # NoJob /\ cur.steps # <<>> /\ Head(cur.steps) = step
Steps(s) == cur' = [cur EXCEPT !.steps = s]
Next_ == Steps(Tail(cur.steps))
Fail == cur' = [cur EXCEPT !.steps = <<>>, !.ok = FALSE]

-----------------------------------------------------------------------------
(* The game                                                                *)

GameInit == game = "down" /\ tied = FALSE /\ cur = NoJob /\ stopped = FALSE

GameMoves(from, to) ==
    /\ game = from /\ game' = to
    /\ tied' = (tied /\ to # "down")
    /\ UNCHANGED <<cur, stopped>>

Boots == GameMoves("booting", "up")
ClosesPorts == GameMoves("stopping", "saving")
Exits == \E from \in GameStates \ {"down"} : GameMoves(from, "down")

-----------------------------------------------------------------------------
(* RCON                                                                    *)

\* Connect and Exec: only a game that is up answers.  Without an answer the command
\* may have been executed all the same.
Answers == game = "up"

\* say, save-all: a command whose error fails the job.
Say ==
    /\ At("say")
    /\ (Answers /\ Next_) \/ Fail
    /\ UNCHANGED <<game, tied, stopped>>

\* SetMaintenance fails only on the optional whitelist command.
SetMaintenance ==
    /\ At("whitelist")
    /\ Next_ \/ Fail
    /\ UNCHANGED <<game, tied, stopped>>

\* Update: Status is "running" when RCON answers; otherwise the shell command
\* is run without stopping or starting anything.
Status ==
    /\ At("status")
    /\ \/ Answers /\ Steps(<<"stop", "shell", "start">>)
       \/ Next_
    /\ UNCHANGED <<game, tied, stopped>>

\* The update command fails: a server that was running is started again.
Shell ==
    /\ At("shell")
    /\ \/ Next_
       \/ IF Tail(cur.steps) = <<>> THEN Fail
          ELSE cur' = [cur EXCEPT !.steps = <<"start">>, !.ok = FALSE]
    /\ UNCHANGED <<game, tied, stopped>>

-----------------------------------------------------------------------------
(* Stop and Kill                                                           *)

\* RCON "stop".  Stop waits for the ports when it was answered; Kill and an
\* error go on to the listeners.
AskToStop ==
    /\ At("stop") \/ At("kill")
    /\ LET then(step) == Steps(<<step>> \o Tail(cur.steps)) IN
       \/ Answers /\ game' = "stopping" /\ At("stop") /\ then("wait")
       \/ game' \in (IF Answers THEN {"up", "stopping"} ELSE {game}) /\ then("force")
    /\ UNCHANGED <<tied, stopped>>

\* Mutant: an answered stop counts as stopped.
WaitPortsClosed_AtOnce ==
    /\ At("wait")
    /\ Next_
    /\ UNCHANGED <<game, tied, stopped>>

\* waitPortsClosed: nothing listens, or 45 seconds have passed.
WaitPortsClosed ==
    /\ At("wait")
    /\ IF Listening THEN Steps(<<"force">> \o Tail(cur.steps)) ELSE Next_
    /\ UNCHANGED <<game, tied, stopped>>

\* forceStopProcesses: no listener counts as stopped, a listener is killed; finding
\* or killing it may fail, which WipeWorld ignores.
ForceStopProcesses ==
    /\ At("force")
    /\ \/ /\ Listening /\ game' = "down" /\ tied' = FALSE
          /\ Next_
       \/ /\ ~Listening /\ UNCHANGED <<game, tied>>
          /\ cur' = [cur EXCEPT !.steps = Tail(@), !.early = @ \/ game = "booting"]
       \/ /\ UNCHANGED <<game, tied>>
          /\ IF cur.type = "SERVER_WIPE_SAVE" THEN Next_ ELSE Fail
    /\ UNCHANGED stopped

-----------------------------------------------------------------------------
(* Start: the adapter does not look whether a process runs                 *)

\* The process is started and lives for three seconds, or the job fails: a script that is
\* done within them counts as failed, though the game it started may run.  Beside a live
\* process a new one does not get the world and ends, early or late; beside one that is
\* saving it may get the world when that one exits.
Start ==
    /\ At("start")
    /\ LET direct == cur.command = "none" IN
       \/ /\ game \in {"down", "saving"}
          /\ game' = "booting" /\ tied' = direct
          /\ Next_ \/ (~direct /\ Fail)
       \/ /\ game # "down" /\ UNCHANGED <<game, tied>>
          /\ Next_
       \/ /\ UNCHANGED <<game, tied>>
          /\ Fail
    /\ stopped' = FALSE

\* runOne: the job is taken.
TakeJob(type, command) ==
    /\ cur = NoJob
    /\ cur' = [type |-> type, command |-> command, steps |-> Program[type],
               ok |-> TRUE, early |-> FALSE]
    /\ UNCHANGED <<game, tied, stopped>>

\* runOne returns: its deferred cancel ends a process started with the context.
FinishJob ==
    /\ cur # NoJob /\ cur.steps = <<>>
    /\ cur' = NoJob
    /\ tied' = FALSE
    /\ game' = IF tied THEN "down" ELSE game
    /\ stopped' = (stopped \/ (cur.type \in StopTypes /\ cur.ok /\ ~cur.early))

\* The agent's process ends, and with it the processes systemd counts as its own.
AgentDies ==
    /\ cur' = NoJob /\ tied' = FALSE
    /\ game' \in (IF tied THEN {"down"} ELSE {game, "down"})
    /\ UNCHANGED stopped

JobStep ==
    \/ Say \/ SetMaintenance \/ Status \/ Shell
    \/ AskToStop \/ WaitPortsClosed \/ ForceStopProcesses \/ Start

GameStep == Boots \/ ClosesPorts \/ Exits
=============================================================================
