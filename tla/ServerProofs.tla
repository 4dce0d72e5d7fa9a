---------------------------- MODULE ServerProofs ----------------------------
(***************************************************************************)
(* Proofs about one server: its game process and its row (Hosts), for any  *)
(* number of requests, operations and faults; its world under backups and  *)
(* restores (Worlds), for any files, saves and backups; the archives       *)
(* staged for its agent (Uploads); the rows that operators and discovery   *)
(* reports write (Instances); and its jars (Jars), for any number of each. *)
(***************************************************************************)
EXTENDS Hosts, Worlds, Uploads, Instances, Jars, Sums, TLAPS, FiniteSetTheorems, SequenceTheorems,
        WellFoundedInduction

-----------------------------------------------------------------------------
(* A stop that ended well holds                                            *)

\* What is left of a job that stops the game.
StopPrograms == {<<"say", "stop">>, <<"stop">>, <<"kill">>, <<"wait">>, <<"force">>, <<>>}

GameTypeOK ==
    /\ game \in GameStates /\ tied \in BOOLEAN /\ stopped \in BOOLEAN
    /\ cur # NoJob =>
          /\ cur = [type |-> cur.type, command |-> cur.command, steps |-> cur.steps,
                    ok |-> cur.ok, early |-> cur.early]
          /\ cur.ok \in BOOLEAN /\ cur.early \in BOOLEAN

\* A job that stops the game waits only for a game that was told to stop, and
\* when it ends well, and did not meet a booting game, no port is open.
StopJob ==
    cur # NoJob /\ cur.type \in StopTypes =>
        /\ cur.steps \in StopPrograms
        /\ cur.steps = <<"wait">> => game \in {"stopping", "saving", "down"}
        /\ cur.steps = <<>> /\ cur.ok /\ ~cur.early => game \in {"down", "saving"}

StopInv == GameTypeOK /\ StopJob /\ StopHolds

(* The programs of the jobs that stop the game, and how they go on.         *)
LEMMA StopSteps ==
    /\ \A type \in StopTypes : Program[type] \in StopPrograms \ {<<"wait">>, <<>>}
    /\ Head(<<"say", "stop">>) = "say" /\ Tail(<<"say", "stop">>) = <<"stop">>
    /\ \A step \in {"stop", "kill", "wait", "force"} :
          Head(<<step>>) = step /\ Tail(<<step>>) = <<>> /\ <<step>> \o <<>> = <<step>>
<1>1. \A type \in StopTypes : Program[type] \in StopPrograms \ {<<"wait">>, <<>>}
  BY DEF StopTypes, Program, StopPrograms
<1>2. QED
  BY <1>1

(* Programs of one step each are the same only when the steps are.          *)
LEMMA OneStep == \A a, b : (<<a>> = <<b>> => a = b) /\ <<a>> # <<>>
<1>1. \A a, b : <<a>>[1] = a /\ <<b>>[1] = b /\ Len(<<a>>) = 1
  OBVIOUS
<1>2. QED
  BY <1>1

(* A step of the game process alone.                                        *)
LEMMA GameStepStops == StopInv /\ GameStep => StopInv'
<1> SUFFICES ASSUME StopInv, NEW from \in GameStates, NEW to \in GameStates, GameMoves(from, to),
                    <<from, to>> \in {<<"booting", "up">>, <<"stopping", "saving">>} \/ to = "down"
             PROVE  StopInv'
  BY DEF GameStep, Boots, ClosesPorts, Exits, GameStates
<1>1. game' = to /\ cur' = cur /\ stopped' = stopped /\ game = from /\ tied' \in BOOLEAN
  BY DEF GameMoves, StopInv, GameTypeOK
<1>2. QED
  BY <1>1 DEF StopInv, GameTypeOK, StopJob, StopHolds, StopPrograms


(* A job step keeps the shape of the job.                                   *)
LEMMA JobStepShape ==
    ASSUME GameTypeOK, JobStep
    PROVE  GameTypeOK' /\ cur # NoJob /\ cur'.type = cur.type
<1> USE DEF GameTypeOK
<1>1. cur # NoJob
  BY DEF JobStep, Say, SetMaintenance, Status, Shell, AskToStop, WaitPortsClosed, ForceStopProcesses, Start, At
<1>2. CASE Say \/ SetMaintenance
  BY <1>1, <1>2 DEF Say, SetMaintenance, Next_, Steps, Fail
<1>3. CASE Status \/ Shell
  BY <1>1, <1>3 DEF Status, Shell, Next_, Steps, Fail
<1>4. CASE AskToStop
  BY <1>1, <1>4 DEF AskToStop, Steps, GameStates, Answers
<1>5. CASE WaitPortsClosed
  BY <1>1, <1>5 DEF WaitPortsClosed, Next_, Steps
<1>6. CASE ForceStopProcesses
  BY <1>1, <1>6 DEF ForceStopProcesses, Next_, Steps, Fail, GameStates
<1>7. CASE Start
  BY <1>1, <1>7 DEF Start, Next_, Steps, Fail, GameStates
<1>8. QED
  BY <1>2, <1>3, <1>4, <1>5, <1>6, <1>7 DEF JobStep

(* A step of the job that the agent executes.                               *)
LEMMA JobStepStops == StopInv /\ JobStep => StopInv'
<1> SUFFICES ASSUME StopInv, JobStep PROVE StopInv'
  OBVIOUS
<1>0. GameTypeOK /\ StopJob /\ StopHolds
  BY DEF StopInv
<1>1. GameTypeOK' /\ cur # NoJob /\ cur'.type = cur.type
  BY <1>0, JobStepShape
<1>2. StopHolds'
  BY <1>0 DEF StopHolds, JobStep, Say, SetMaintenance, Status, Shell, AskToStop, WaitPortsClosed,
     ForceStopProcesses, Start, Answers, GameTypeOK
<1>3. StopJob'
  <2> SUFFICES ASSUME cur.type \in StopTypes
               PROVE  /\ cur'.steps \in StopPrograms
                      /\ cur'.steps = <<"wait">> => game' \in {"stopping", "saving", "down"}
                      /\ cur'.steps = <<>> /\ cur'.ok /\ ~cur'.early => game' \in {"down", "saving"}
    BY <1>1 DEF StopJob
  <2>0. /\ cur.steps \in StopPrograms /\ game \in GameStates
        /\ cur.steps = <<"wait">> => game \in {"stopping", "saving", "down"}
    BY <1>0, <1>1 DEF StopJob, GameTypeOK
  <2>1. \A step : At(step) => cur.steps # <<>> /\ step = Head(cur.steps)
    BY DEF At
  <2>2. CASE Say
    <3>1. cur.steps = <<"say", "stop">>
      BY <2>0, <2>1, <2>2 DEF Say, StopPrograms
    <3>2. cur' = [cur EXCEPT !.steps = <<"stop">>] \/ cur' = [cur EXCEPT !.steps = <<>>, !.ok = FALSE]
      BY <2>2, <3>1 DEF Say, Next_, Steps, Fail
    <3>3. cur'.steps = <<"stop">> \/ (cur'.steps = <<>> /\ ~cur'.ok)
      BY <1>0, <1>1, <3>2 DEF GameTypeOK
    <3>4. QED
      BY <3>3, OneStep DEF StopPrograms
  <2>3. CASE SetMaintenance \/ Status \/ Shell
    BY <2>0, <2>1, <2>3 DEF SetMaintenance, Status, Shell, StopPrograms
  <2>4. CASE AskToStop
    <3>1. cur.steps \in {<<"stop">>, <<"kill">>}
      BY <2>0, <2>1, <2>4 DEF AskToStop, StopPrograms
    <3>2. \/ cur' = [cur EXCEPT !.steps = <<"wait">>] /\ game' = "stopping"
          \/ cur' = [cur EXCEPT !.steps = <<"force">>]
      BY <2>4, <3>1 DEF AskToStop, Steps
    <3>3. (cur'.steps = <<"wait">> /\ game' = "stopping") \/ cur'.steps = <<"force">>
      BY <1>0, <1>1, <3>2 DEF GameTypeOK
    <3>4. QED
      BY <3>3, OneStep DEF StopPrograms
  <2>5. CASE WaitPortsClosed
    <3>1. cur.steps = <<"wait">> /\ game \in {"stopping", "saving", "down"} /\ game' = game
      BY <2>0, <2>1, <2>5 DEF WaitPortsClosed, StopPrograms
    <3>2. \/ cur' = [cur EXCEPT !.steps = <<"force">>]
          \/ cur' = [cur EXCEPT !.steps = <<>>] /\ game \in {"saving", "down"}
      BY <2>5, <3>1 DEF WaitPortsClosed, Next_, Steps, Listening
    <3>3. cur'.steps = <<"force">> \/ (cur'.steps = <<>> /\ game \in {"saving", "down"})
      BY <1>0, <1>1, <3>2 DEF GameTypeOK
    <3>4. QED
      BY <3>1, <3>3, OneStep DEF StopPrograms
  <2>6. CASE ForceStopProcesses
    <3>1. cur.steps = <<"force">>
      BY <2>0, <2>1, <2>6 DEF ForceStopProcesses, StopPrograms
    <3>2. \/ cur' = [cur EXCEPT !.steps = <<>>] /\ game' = "down"
          \/ /\ cur' = [cur EXCEPT !.steps = <<>>, !.early = @ \/ game = "booting"]
             /\ game' = game /\ ~Listening
          \/ cur' = [cur EXCEPT !.steps = <<>>, !.ok = FALSE]
      BY <2>6, <3>1 DEF ForceStopProcesses, Next_, Steps, Fail, StopTypes
    <3>3. cur'.steps = <<>> /\ (game' = "down" \/ ~cur'.ok \/ (game' = game /\ ~Listening /\ (game = "booting" => cur'.early)))
      BY <1>0, <1>1, <3>2 DEF GameTypeOK
    <3>4. QED
      BY <2>0, <3>3 DEF StopPrograms, Listening, GameStates
  <2>7. CASE Start
    BY <2>0, <2>1, <2>7 DEF Start, StopPrograms
  <2>8. QED
    BY <2>2, <2>3, <2>4, <2>5, <2>6, <2>7 DEF JobStep
<1>4. QED
  BY <1>1, <1>2, <1>3 DEF StopInv

(* A job is taken, ends, or dies with the agent.                            *)
LEMMA JobEndsStops == StopInv /\ ((\E type, command : type \in DOMAIN Program /\ TakeJob(type, command)) \/ FinishJob \/ AgentDies) => StopInv'
<1> SUFFICES ASSUME StopInv, (\E type, command : type \in DOMAIN Program /\ TakeJob(type, command)) \/ FinishJob \/ AgentDies
             PROVE  StopInv'
  OBVIOUS
<1>0. GameTypeOK /\ StopJob /\ StopHolds
  BY DEF StopInv
<1>1. ASSUME NEW type \in DOMAIN Program, NEW command, TakeJob(type, command) PROVE StopInv'
  <2>1. /\ cur' = [type |-> type, command |-> command, steps |-> Program[type], ok |-> TRUE, early |-> FALSE]
        /\ UNCHANGED <<game, tied, stopped>>
    BY <1>1 DEF TakeJob
  <2>2. type \in StopTypes => Program[type] \in StopPrograms \ {<<"wait">>, <<>>}
    BY StopSteps
  <2>3. GameTypeOK' /\ StopHolds'
    BY <1>0, <2>1 DEF GameTypeOK, StopHolds
  <2>4. StopJob'
    BY <2>1, <2>2 DEF StopJob
  <2>5. QED
    BY <2>3, <2>4 DEF StopInv
<1>2. CASE FinishJob
  <2>1. /\ cur # NoJob /\ cur.steps = <<>> /\ cur' = NoJob /\ tied' = FALSE
        /\ game' = IF tied THEN "down" ELSE game
        /\ stopped' = (stopped \/ (cur.type \in StopTypes /\ cur.ok /\ ~cur.early))
    BY <1>2 DEF FinishJob
  <2>2. cur.type \in StopTypes /\ cur.ok /\ ~cur.early => game \in {"down", "saving"}
    BY <1>0, <2>1 DEF StopJob
  <2>3. QED
    BY <1>0, <2>1, <2>2 DEF StopInv, GameTypeOK, StopJob, StopHolds, GameStates
<1>3. CASE AgentDies
  BY <1>0, <1>3 DEF AgentDies, StopInv, GameTypeOK, StopJob, StopHolds, GameStates
<1>4. QED
  BY <1>1, <1>2, <1>3

\* The runs that are queued are of types the adapter has a program for.
QueuedOK == queue \in Seq(DOMAIN Program)

(* Only runs of lifecycle jobs are queued.                                  *)
LEMMA QueuedStep == QueuedOK /\ [Next]_vars => QueuedOK'
<1> SUFFICES ASSUME QueuedOK, [Next]_vars PROVE QueuedOK'
  OBVIOUS
<1> USE HostsAssumption DEF QueuedOK, hostVars, gameVars
<1>1. ASSUME NEW type \in DOMAIN Program, Create(type) PROVE QueuedOK'
  BY <1>1 DEF Create
<1>2. {"SERVER_START", "SERVER_SAFE_RESTART", "ENTER_MAINTENANCE"} \subseteq DOMAIN Program
  BY DEF Program
<1>3. ASSUME NEW x \in Requests, EnqueueStart(x) PROVE QueuedOK'
  BY <1>1, <1>2, <1>3 DEF EnqueueStart
<1>4. CASE EnqueueSafeRestart \/ CreateJob \/ CreateMaintenanceJob
  BY <1>1, <1>2, <1>4 DEF EnqueueSafeRestart, CreateJob, CreateMaintenanceJob
<1>5. CASE AgentTakesJob
  BY <1>5 DEF AgentTakesJob
<1>6. ASSUME NEW x \in Requests, Heartbeat(x) \/ FindActive(x) \/ FindRecent(x) PROVE QueuedOK'
  BY <1>6 DEF Heartbeat, FindActive, FindRecent, HbOnly
<1>7. CASE \/ GameRuns \/ AgentStarts \/ AgentStops \/ AgentStep \/ AgentReports \/ Probe \/ CooldownOver
           \/ SweepLost \/ SetMaintenanceMode \/ UpdateInstance \/ EnterMaintenance \/ Evaluate \/ EvaluateRecent
  BY <1>7 DEF GameRuns, AgentStarts, AgentStops, AgentStep, AgentReports, Probe, CooldownOver,
     SweepLost, SetMaintenanceMode, UpdateInstance, EnterMaintenance, Evaluate, EvaluateRecent
<1>8. CASE UNCHANGED vars
  BY <1>8 DEF vars
<1> HIDE DEF QueuedOK
<1>9. QED
  BY <1>3, <1>4, <1>5, <1>6, <1>7, <1>8 DEF Next

(* No other step touches the game or the job.                               *)
LEMMA StopStep == QueuedOK /\ StopInv /\ [Next]_vars => StopInv'
<1> SUFFICES ASSUME QueuedOK, StopInv, [Next]_vars PROVE StopInv'
  OBVIOUS
<1>1. UNCHANGED gameVars => StopInv'
  BY DEF gameVars, StopInv, GameTypeOK, StopJob, StopHolds
<1>2. CASE GameRuns
  BY <1>2, GameStepStops DEF GameRuns
<1>3. CASE AgentStep
  BY <1>3, JobStepStops DEF AgentStep
<1>4. CASE AgentReports \/ AgentStops
  BY <1>4, JobEndsStops DEF AgentReports, AgentStops
<1>5. CASE AgentTakesJob
  <2>1. Head(queue) \in DOMAIN Program
    BY <1>5 DEF AgentTakesJob, QueuedOK
  <2>2. QED
    BY <1>5, <2>1, JobEndsStops DEF AgentTakesJob
<1>6. ASSUME NEW x \in Requests, Heartbeat(x) \/ FindActive(x) \/ FindRecent(x) \/ EnqueueStart(x) PROVE StopInv'
  BY <1>1, <1>6 DEF Heartbeat, FindActive, FindRecent, EnqueueStart, HbOnly
<1>7. CASE \/ AgentStarts \/ Probe \/ CooldownOver \/ SweepLost \/ SetMaintenanceMode \/ UpdateInstance
           \/ CreateJob \/ EnterMaintenance \/ CreateMaintenanceJob
           \/ Evaluate \/ EvaluateRecent \/ EnqueueSafeRestart
  BY <1>1, <1>7 DEF AgentStarts, Probe, CooldownOver, SweepLost, SetMaintenanceMode, UpdateInstance, CreateJob,
     EnterMaintenance, CreateMaintenanceJob, Evaluate, EvaluateRecent, EnqueueSafeRestart, WatchOnly
<1>8. CASE UNCHANGED vars
  BY <1>1, <1>8 DEF vars
<1>9. QED
  BY <1>2, <1>3, <1>4, <1>5, <1>6, <1>7, <1>8 DEF Next

(* Stop, save-stop and kill: once such a job has ended well, the game does  *)
(* not listen until a job starts it, whatever RCON answered and whichever   *)
(* process died meanwhile.                                                  *)
THEOREM StopKeepsTheServerDown == Spec => []StopHolds
<1>1. Init => QueuedOK /\ StopInv
  <2> SUFFICES ASSUME Init PROVE QueuedOK /\ StopInv
    OBVIOUS
  <2>1. QueuedOK
    BY DEF Init, QueuedOK
  <2>2. GameTypeOK /\ StopJob /\ StopHolds
    BY DEF Init, GameInit, GameTypeOK, StopJob, StopHolds, GameStates
  <2>3. QED
    BY <2>1, <2>2 DEF StopInv
<1>2. QueuedOK /\ StopInv /\ [Next]_vars => (QueuedOK /\ StopInv)'
  BY QueuedStep, StopStep
<1>3. StopInv => StopHolds
  BY DEF StopInv
<1>4. QED
  BY <1>1, <1>2, <1>3, PTL DEF Spec

-----------------------------------------------------------------------------
(* Maintenance                                                             *)

Heartbeats == [pc : {"idle", "active", "recent", "enqueue"}, late : BOOLEAN]

\* While maintenance is asked for reboot-if-down is off, so that no heartbeat
\* request begins that late.
QuietInv ==
    /\ inst \in [reboot : BOOLEAN, maintenance : BOOLEAN, command : Commands]
    /\ hb \in [Requests -> Heartbeats]
    /\ quiet \in BOOLEAN /\ (quiet => ~inst.reboot)
    /\ \A x \in Requests : ~hb[x].late


(* Every step keeps the opt-in off while maintenance is asked for.          *)
LEMMA QuietStep == QuietInv /\ [Next]_vars => QuietInv'
<1> SUFFICES ASSUME QuietInv, [Next]_vars PROVE QuietInv'
  OBVIOUS
<1> USE DEF QuietInv
<1>0. ASSUME NEW x \in Requests, NEW e \in Heartbeats, hb' = [hb EXCEPT ![x] = e], ~e.late, UNCHANGED <<inst, quiet>>
      PROVE  QuietInv'
  BY <1>0
<1>1. ASSUME NEW x \in Requests, Heartbeat(x) PROVE QuietInv'
  <2>1. ~quiet /\ [pc |-> "active", late |-> quiet] \in Heartbeats
    BY <1>1 DEF Heartbeat, OptedIn, Heartbeats
  <2>2. QED
    BY <1>0, <1>1, <2>1 DEF Heartbeat, HbOnly
<1>2. ASSUME NEW x \in Requests, FindActive(x) \/ FindRecent(x) PROVE QuietInv'
  <2>1. PICK pc \in {"idle", "recent", "enqueue"} : HbGoes(x, pc) /\ HbOnly
    BY <1>2 DEF FindActive, FindRecent
  <2>2. hb[x] \in Heartbeats /\ Idle \in Heartbeats /\ ~Idle.late
    BY DEF Heartbeats, Idle
  <2>3. [hb[x] EXCEPT !.pc = pc] \in Heartbeats /\ ~[hb[x] EXCEPT !.pc = pc].late
    BY <2>2 DEF Heartbeats
  <2>4. QED
    BY <1>0, <2>1, <2>2, <2>3 DEF HbGoes, HbOnly
<1>3. ASSUME NEW x \in Requests, EnqueueStart(x) PROVE QuietInv'
  <2>1. Idle \in Heartbeats /\ ~Idle.late
    BY DEF Heartbeats, Idle
  <2>2. QED
    BY <1>0, <1>3, <2>1 DEF EnqueueStart, HbGoes
<1>4. CASE UpdateInstance
  BY <1>4 DEF UpdateInstance
<1>5. CASE EnterMaintenance
  <2>1. \A x \in Requests : [hb[x] EXCEPT !.late = FALSE] \in Heartbeats /\ ~[hb[x] EXCEPT !.late = FALSE].late
    BY DEF Heartbeats
  <2>2. QED
    BY <1>5, <2>1 DEF EnterMaintenance, NotLate
<1>6. CASE SetMaintenanceMode
  BY <1>6 DEF SetMaintenanceMode
<1>7. CASE UNCHANGED <<inst, hb, quiet>>
  BY <1>7
<1> HIDE DEF QuietInv
<1>8. CASE \/ GameRuns \/ AgentStarts \/ AgentStops \/ AgentTakesJob \/ AgentStep \/ AgentReports
           \/ Probe \/ CooldownOver \/ SweepLost \/ CreateJob \/ CreateMaintenanceJob
           \/ Evaluate \/ EvaluateRecent \/ EnqueueSafeRestart \/ UNCHANGED vars
  BY <1>7, <1>8 DEF GameRuns, AgentStarts, AgentStops, AgentTakesJob, AgentStep, AgentReports, Probe,
     CooldownOver, SweepLost, CreateJob, CreateMaintenanceJob, Evaluate, EvaluateRecent,
     EnqueueSafeRestart, WatchOnly, hostVars, vars
<1>9. QED
  BY <1>1, <1>2, <1>3, <1>4, <1>5, <1>6, <1>8 DEF Next

(* Once maintenance is asked for, no heartbeat that arrives later gets as   *)
(* far as an automatic start before somebody opts in again.                 *)
THEOREM MaintenanceIsQuiet == Spec => []MaintenanceQuiet
<1>1. Init => QuietInv
  <2>1. Idle \in Heartbeats /\ ~Idle.late
    BY DEF Heartbeats, Idle
  <2>2. QED
    BY <2>1 DEF Init, QuietInv
<1>2. QuietInv => MaintenanceQuiet
  BY DEF QuietInv, MaintenanceQuiet
<1>3. QED
  BY <1>1, <1>2, QuietStep, PTL DEF Spec

-----------------------------------------------------------------------------
(* The world of a server.                                                  *)

WorldTypeOK ==
    /\ running \in BOOLEAN /\ version \in Nat
    /\ world \in Directories \cup {NoDir} /\ old \in Directories \cup {NoDir}
    /\ before \in Directories \cup {NoDir} /\ discarded \in BOOLEAN
    /\ restored \in Directories \cup {NoDir}
    /\ backups \in Seq(Directories)
    /\ job \in WorldJobs \cup {NoTask}

\* While a restore copies, the world that was found, if no restore has discarded it, is
\* the one put aside, and what is in its place is the part of the backup that was copied,
\* unless the game saved meanwhile.
RestoreCopies ==
    job # NoTask =>
        /\ job.b \in DOMAIN backups
        /\ job.step = "stage" => job.todo = DOMAIN backups[job.b]
        /\ job.step = "restore" =>
               /\ (before # NoDir /\ ~discarded => before = old) /\ restored = NoDir
               /\ job.todo \subseteq DOMAIN backups[job.b]
               /\ ~job.dirty =>
                      /\ Files(world) = DOMAIN backups[job.b] \ job.todo
                      /\ \A q \in Files(world) : world[q] = backups[job.b][q]

WorldInv == WorldTypeOK /\ RestoreCopies /\ WorldKept

(* A directory, and one with a file more.                                   *)
LEMMA DirectoryFacts ==
    \A d \in Directories : d # NoDir /\ DOMAIN d \subseteq Parts /\ d = [q \in DOMAIN d |-> d[q]]
                           /\ \A q \in DOMAIN d : d[q] \in Nat
<1> SUFFICES ASSUME NEW d \in Directories
    PROVE  d # NoDir /\ DOMAIN d \subseteq Parts /\ d = [q \in DOMAIN d |-> d[q]]
           /\ \A q \in DOMAIN d : d[q] \in Nat
  OBVIOUS
<1>1. PICK S \in SUBSET Parts : d \in [S -> Nat]
  BY DEF Directories
<1>2. QED
  BY <1>1, WorldsAssumption

(* The empty directory.                                                     *)
LEMMA EmptyDirectory == << >> \in Directories /\ \A d \in Directories : DOMAIN d = {} => d = << >>
<1>1. << >> = [q \in {} |-> 0]
  BY SMT, EmptySeq, IsASeq
<1>2. [q \in {} |-> 0] \in [{} -> Nat]
  OBVIOUS
<1>3. << >> \in Directories
  BY <1>1, <1>2 DEF Directories
<1>4. \A d \in Directories : DOMAIN d = {} => d = [q \in {} |-> 0]
  BY DirectoryFacts
<1>5. QED
  BY <1>1, <1>3, <1>4

LEMMA WithFile ==
    ASSUME NEW d \in Directories \cup {NoDir}, NEW p \in Parts, NEW v \in Nat
    PROVE  /\ With(d, p, v) \in Directories /\ With(d, p, v) # NoDir
           /\ Files(With(d, p, v)) = Files(d) \cup {p} /\ DOMAIN With(d, p, v) = Files(d) \cup {p}
           /\ \A q \in Files(d) \cup {p} : With(d, p, v)[q] = IF q = p THEN v ELSE d[q]
<1> DEFINE w == With(d, p, v)
           S == Files(d) \cup {p}
<1>1. S \subseteq Parts /\ \A q \in Files(d) : d[q] \in Nat
  BY DirectoryFacts DEF Files
<1>2. w = [q \in S |-> IF q = p THEN v ELSE d[q]]
  BY DEF With
<1>3. w \in [S -> Nat]
  BY <1>1, <1>2
<1>4. w \in Directories
  BY <1>1, <1>3 DEF Directories
<1>5. w # NoDir
  BY <1>4, DirectoryFacts
<1>6. QED
  BY <1>2, <1>3, <1>4, <1>5 DEF Files

(* A walk begins with the least number.                                     *)
LEMMA LeastPart == ASSUME NEW S \in SUBSET Parts, S # {} PROVE Min(S) \in S
<1> DEFINE R == {q \in Nat \X Nat : q[1] < q[2]}
<1>1. IsWellFoundedOn(R, Nat)
  BY NatLessThanWellFounded DEF OpToRel
<1>2. \A x, y \in Nat : <<y, x>> \notin R => x <= y
  OBVIOUS
<1>3. S \subseteq Nat
  BY WorldsAssumption
<1> HIDE DEF R
<1>4. \E x \in S : \A y \in S : ~(<<y, x>> \in R)
  BY <1>1, <1>3, WFMin
<1>5. \E x \in S : \A y \in S : x <= y
  BY <1>2, <1>3, <1>4
<1>6. QED
  BY <1>5 DEF Min

(* The game saves a file.                                                   *)
LEMMA GameSavesStep == ASSUME WorldInv, NEW p \in Parts, GameSaves(p) PROVE WorldInv'
<1>0. WorldTypeOK /\ RestoreCopies /\ WorldKept
  BY DEF WorldInv
<1> DEFINE v == version + 1
           w == With(world, p, v)
<1>1. /\ version' = v /\ v \in Nat /\ world' = w
      /\ before' = (IF before = world /\ w # world THEN NoDir ELSE before)
      /\ discarded' = (discarded /\ before' # NoDir) /\ restored' = NoDir
      /\ job' = (IF job = NoTask THEN NoTask ELSE [job EXCEPT !.dirty = TRUE])
      /\ UNCHANGED <<running, old, backups>>
  BY <1>0 DEF GameSaves, Forgets, WorldTypeOK
<1> HIDE DEF v
<1>2. w \in Directories
  BY <1>0, <1>1, WithFile DEF WorldTypeOK
<1> HIDE DEF w
<1>3. job # NoTask =>
          /\ job' \in WorldJobs /\ job'.step = job.step /\ job'.b = job.b
          /\ job'.todo = job.todo /\ job'.dirty
  BY <1>0, <1>1 DEF WorldTypeOK, WorldJobs
<1>4. WorldTypeOK'
  BY <1>0, <1>1, <1>2, <1>3 DEF WorldTypeOK
<1>5. RestoreCopies'
  BY <1>0, <1>1, <1>3 DEF RestoreCopies
<1>6. WorldKept'
  BY <1>0, <1>1 DEF WorldKept
<1>7. QED
  BY <1>4, <1>5, <1>6 DEF WorldInv

(* A restore begins, moves the world aside, copies, fails or ends.          *)
LEMMA RestoreStep ==
    ASSUME WorldInv,
           \/ \E b \in DOMAIN backups : RestoreSave(b)
           \/ StageWorld \/ RestorePart \/ RestoreFails \/ RestoreDone
    PROVE  WorldInv'
<1>0. WorldTypeOK /\ RestoreCopies /\ WorldKept
  BY DEF WorldInv
<1>1. ASSUME NEW b \in DOMAIN backups, RestoreSave(b) PROVE WorldInv'
  <2> DEFINE todo == Files(backups[b])
  <2>1. /\ b \in Nat /\ backups[b] \in Directories
        /\ todo = DOMAIN backups[b] /\ todo \in SUBSET Parts
    BY <1>0, DirectoryFacts DEF WorldTypeOK, Files
  <2>2. /\ running' \in BOOLEAN /\ UNCHANGED <<version, world, old, backups, before, discarded, restored>>
        /\ (job' = [step |-> "stage", b |-> b, todo |-> todo, dirty |-> FALSE] \/ job' = NoTask)
    BY <1>0, <1>1 DEF RestoreSave, StopIgnored, Begin, End, WorldTypeOK
  <2> HIDE DEF todo
  <2>3. job' # NoTask => job' \in WorldJobs /\ job'.step = "stage" /\ job'.b = b /\ job'.todo = todo
    <3> DEFINE first == [step |-> "stage", b |-> b, todo |-> todo, dirty |-> FALSE]
    <3>1. first \in WorldJobs /\ first.step = "stage" /\ first.b = b /\ first.todo = todo
      BY <2>1 DEF WorldJobs
    <3>2. QED
      BY <2>2, <3>1
  <2>4. QED
    BY <1>0, <2>1, <2>2, <2>3 DEF WorldInv, WorldTypeOK, RestoreCopies, WorldKept
<1>2. CASE StageWorld
  <2>1. /\ job # NoTask /\ job.step = "stage" /\ UNCHANGED <<running, version, backups>>
        /\ before' = (IF before = NoDir THEN world ELSE before)
        /\ discarded' = (discarded \/ (before \notin {NoDir, world} /\ old' # old))
        /\ \/ /\ old' \in (IF world = NoDir THEN {NoDir, old} ELSE {world})
              /\ world' = NoDir /\ restored' = NoDir
              /\ job' = [job EXCEPT !.step = "restore", !.dirty = FALSE]
           \/ /\ old' \in {old, NoDir} /\ world' = world /\ restored' = restored /\ job' = NoTask
    BY <1>2 DEF StageWorld, Doing, End
  <2>2. job' # NoTask =>
            /\ job' \in WorldJobs /\ job'.step = "restore" /\ job'.b = job.b
            /\ job'.todo = job.todo /\ world' = NoDir /\ restored' = NoDir
            /\ old' \in (IF world = NoDir THEN {NoDir, old} ELSE {world})
    BY <1>0, <2>1 DEF WorldTypeOK, WorldJobs
  <2>3. Files(NoDir) = {}
    BY DEF Files
  <2>4. WorldTypeOK'
    BY <1>0, <2>1, <2>2 DEF WorldTypeOK
  <2>5. job' # NoTask /\ before' # NoDir /\ ~discarded' => before' = old'
    <3>1. before \notin {NoDir, world} /\ ~discarded => before = old
      BY <1>0 DEF WorldKept
    <3>2. QED
      BY <2>1, <2>2, <3>1
  <2>6. RestoreCopies'
    BY <1>0, <2>1, <2>2, <2>3, <2>5 DEF RestoreCopies
  <2>7. WorldKept'
    BY <1>0, <2>1 DEF WorldKept
  <2>8. QED
    BY <2>4, <2>6, <2>7 DEF WorldInv
<1>3. CASE RestorePart
  <2> DEFINE p == Min(job.todo)
             v == backups[job.b][p]
             w == With(world, p, v)
             left == job.todo \ {p}
  <2>1. /\ job # NoTask /\ job.step = "restore" /\ job.todo # {}
        /\ world' = w /\ job' = [job EXCEPT !.todo = left]
        /\ UNCHANGED <<running, version, old, backups, before, discarded, restored>>
    BY <1>3 DEF RestorePart, Doing, Copied
  <2>2. /\ job \in WorldJobs /\ job.b \in DOMAIN backups /\ backups[job.b] \in Directories
        /\ job.todo \in SUBSET Parts /\ job.todo \subseteq DOMAIN backups[job.b]
        /\ (before # NoDir /\ ~discarded => before = old) /\ restored = NoDir
        /\ ~job.dirty => /\ Files(world) = DOMAIN backups[job.b] \ job.todo
                         /\ \A q \in Files(world) : world[q] = backups[job.b][q]
    BY <1>0, <2>1 DEF WorldTypeOK, RestoreCopies, WorldJobs
  <2>3. p \in job.todo /\ p \in Parts /\ v \in Nat
    BY <2>1, <2>2, LeastPart, DirectoryFacts
  <2> HIDE DEF p, v
  <2>4. /\ w \in Directories /\ Files(w) = Files(world) \cup {p}
        /\ \A q \in Files(world) \cup {p} : w[q] = IF q = p THEN v ELSE world[q]
    <3>1. PICK d \in Directories \cup {NoDir}, q0 \in Parts, n \in Nat : d = world /\ q0 = p /\ n = v
      BY <1>0, <2>3 DEF WorldTypeOK
    <3>2. /\ With(d, q0, n) \in Directories /\ Files(With(d, q0, n)) = Files(d) \cup {q0}
          /\ \A q \in Files(d) \cup {q0} : With(d, q0, n)[q] = IF q = q0 THEN n ELSE d[q]
      BY WithFile, ZenonT(90)
    <3>3. w = With(d, q0, n)
      BY <3>1
    <3> HIDE DEF w
    <3>4. QED
      BY <3>1, <3>2, <3>3
  <2> HIDE DEF w
  <2>5. left \in SUBSET Parts /\ left \subseteq job.todo
    BY <2>2
  <2>6. /\ job' \in WorldJobs /\ job'.step = "restore" /\ job'.b = job.b
        /\ job'.todo = left /\ job'.dirty = job.dirty /\ job' # NoTask
    <3> HIDE DEF left
    <3>1. QED
      BY <2>1, <2>2, <2>5, WorldsAssumption DEF WorldJobs
  <2>7. WorldTypeOK'
    BY <1>0, <2>1, <2>4, <2>6 DEF WorldTypeOK
  <2>8. ~job.dirty => /\ Files(w) = DOMAIN backups[job.b] \ left
                      /\ \A q \in Files(w) : w[q] = backups[job.b][q]
    BY <2>2, <2>3, <2>4 DEF v
  <2>9. RestoreCopies'
    BY <2>1, <2>2, <2>5, <2>6, <2>8 DEF RestoreCopies
  <2>10. WorldKept'
    BY <2>1, <2>2 DEF WorldKept
  <2>11. QED
    BY <2>7, <2>9, <2>10 DEF WorldInv
<1>4. CASE RestoreFails
  <2>1. /\ job # NoTask /\ job.step = "restore" /\ job' = NoTask
        /\ \/ world' = old /\ old' = NoDir
           \/ world' \in {world, NoDir} /\ old' = old
        /\ UNCHANGED <<running, version, backups, before, discarded, restored>>
    BY <1>4 DEF RestoreFails, Doing, End
  <2>2. (before # NoDir /\ ~discarded => before = old) /\ restored = NoDir
    BY <1>0, <2>1 DEF RestoreCopies
  <2>3. QED
    BY <1>0, <2>1, <2>2 DEF WorldInv, WorldTypeOK, RestoreCopies, WorldKept
<1>5. CASE RestoreDone
  <2> DEFINE empty == << >>
  <2>1. /\ job # NoTask /\ job.step = "restore" /\ job.todo = {} /\ job' = NoTask
        /\ old' \in {old, NoDir} /\ before' = NoDir /\ discarded' = FALSE
        /\ restored' = (IF job.dirty THEN NoDir ELSE backups[job.b])
        /\ world' = (IF world = NoDir THEN empty ELSE world)
        /\ UNCHANGED <<running, version, backups>>
    BY <1>5 DEF RestoreDone, Doing, End
  <2>2. /\ job.b \in DOMAIN backups /\ backups[job.b] \in Directories
        /\ ~job.dirty => /\ Files(world) = DOMAIN backups[job.b]
                         /\ \A q \in Files(world) : world[q] = backups[job.b][q]
    BY <1>0, <2>1 DEF WorldTypeOK, RestoreCopies
  <2>3. empty \in Directories /\ \A d \in Directories : DOMAIN d = {} => d = empty
    BY EmptyDirectory
  <2> HIDE DEF empty
  <2>4. WorldTypeOK'
    BY <1>0, <2>1, <2>2, <2>3 DEF WorldTypeOK
  <2>5. ~job.dirty => world' = backups[job.b]
    <3>1. CASE world = NoDir
      BY <2>1, <2>2, <2>3, <3>1 DEF Files
    <3>2. CASE world # NoDir
      BY <1>0, <2>1, <2>2, <3>2, DirectoryFacts DEF Files, WorldTypeOK
    <3>3. QED
      BY <3>1, <3>2
  <2>6. QED
    BY <2>1, <2>4, <2>5 DEF WorldInv, RestoreCopies, WorldKept
<1>6. QED
  BY <1>1, <1>2, <1>3, <1>4, <1>5

(* A backup begins, copies a file, fails or ends.                           *)
LEMMA BackupStep == ASSUME WorldInv, BackupWorld \/ BackupPart \/ BackupDone PROVE WorldInv'
<1>0. WorldTypeOK /\ RestoreCopies /\ WorldKept
  BY DEF WorldInv
<1>1. CASE BackupWorld
  <2> DEFINE empty == << >>
             todo == Files(world)
             last == Len(backups')
             first == [step |-> "backup", b |-> last, todo |-> todo, dirty |-> FALSE]
  <2>1. empty \in Directories /\ todo \in SUBSET Parts
    BY <1>0, EmptyDirectory, DirectoryFacts DEF Files, WorldTypeOK
  <2>2. /\ backups' = Append(backups, empty) /\ job' = first
        /\ UNCHANGED <<running, version, world, old, before, discarded, restored>>
    BY <1>1 DEF BackupWorld, Begin
  <2> HIDE DEF empty, todo
  <2>3. backups' \in Seq(Directories) /\ last \in DOMAIN backups' /\ last \in Nat
    BY <1>0, <2>1, <2>2 DEF WorldTypeOK
  <2> HIDE DEF last
  <2>4. first \in WorldJobs /\ first.step = "backup" /\ first.b = last
    BY <2>1, <2>3 DEF WorldJobs
  <2> HIDE DEF first
  <2>5. QED
    BY <1>0, <2>2, <2>3, <2>4 DEF WorldInv, WorldTypeOK, RestoreCopies, WorldKept
<1>2. CASE BackupPart /\ job' # NoTask
  <2> DEFINE left == job.todo \ {Min(job.todo)}
  <2>1. /\ job # NoTask /\ job.step = "backup" /\ job.todo # {} /\ Min(job.todo) \in Files(world)
        /\ backups' = [backups EXCEPT ![job.b] = With(backups[job.b], Min(job.todo), world[Min(job.todo)])]
        /\ job' = [job EXCEPT !.todo = left]
        /\ UNCHANGED <<running, version, world, old, before, discarded, restored>>
    BY <1>2 DEF BackupPart, Doing, Copied, End
  <2>2. /\ job \in WorldJobs /\ job.b \in DOMAIN backups /\ backups[job.b] \in Directories
        /\ job.todo \in SUBSET Parts
    BY <1>0, <2>1 DEF WorldTypeOK, RestoreCopies, WorldJobs
  <2>3. Min(job.todo) \in Parts /\ world[Min(job.todo)] \in Nat
    BY <1>0, <2>1, <2>2, LeastPart, DirectoryFacts DEF Files, WorldTypeOK
  <2>4. PICK d \in Directories, p \in Parts, v \in Nat :
            d = backups[job.b] /\ p = Min(job.todo) /\ v = world[Min(job.todo)]
    BY <2>2, <2>3
  <2>5. With(d, p, v) \in Directories
    BY WithFile, ZenonT(30)
  <2>6. PICK w \in Directories : w = With(backups[job.b], Min(job.todo), world[Min(job.todo)])
    BY <2>4, <2>5
  <2>7. backups' = [backups EXCEPT ![job.b] = w]
    BY <2>1, <2>6
  <2>8. backups' \in Seq(Directories) /\ DOMAIN backups' = DOMAIN backups
    BY <1>0, <2>2, <2>6, <2>7 DEF WorldTypeOK
  <2>9. left \in SUBSET Parts
    BY <2>2
  <2> HIDE DEF left
  <2>10. job' \in WorldJobs /\ job'.step = "backup" /\ job'.b = job.b
    BY <2>1, <2>2, <2>9 DEF WorldJobs
  <2>11. QED
    BY <1>0, <2>1, <2>2, <2>8, <2>10 DEF WorldInv, WorldTypeOK, RestoreCopies, WorldKept
<1>3. CASE (BackupPart /\ job' = NoTask) \/ BackupDone
  <2>1. job # NoTask /\ job.step = "backup" /\ job' = NoTask
    BY <1>3 DEF BackupPart, BackupDone, Doing, End
  <2>2. UNCHANGED <<running, version, world, old, before, discarded, restored>>
    BY <1>3 DEF BackupPart, BackupDone
  <2>3. backups' \in Seq(Directories)
    <3>1. CASE UNCHANGED backups
      BY <1>0, <3>1 DEF WorldTypeOK
    <3>2. CASE job' = [job EXCEPT !.todo = @ \ {Min(job.todo)}]
      BY <1>0, <2>1, <3>2, WorldsAssumption DEF WorldTypeOK, WorldJobs
    <3>3. QED
      BY <1>3, <3>1, <3>2 DEF BackupPart, BackupDone, Copied, End
  <2>4. QED
    BY <1>0, <2>1, <2>2, <2>3 DEF WorldInv, WorldTypeOK, RestoreCopies, WorldKept
<1>4. QED
  BY <1>1, <1>2, <1>3

(* A part of the backups is a sequence of directories.                      *)
LEMMA SomeBackups ==
    ASSUME backups \in Seq(Directories), NEW m \in Nat, NEW n \in Nat,
           m <= Len(backups), 1 <= n
    PROVE  SubSeq(backups, 1, m) \o SubSeq(backups, n, Len(backups)) \in Seq(Directories)
<1> DEFINE z == Len(backups)
<1>0. z \in Nat /\ \A i \in 1 .. z : backups[i] \in Directories
  OBVIOUS
<1> HIDE DEF z
<1>1. SubSeq(backups, 1, m) \in Seq(Directories)
  BY <1>0, SubSeqProperties DEF z
<1>2. SubSeq(backups, n, z) \in Seq(Directories)
  BY <1>0, SubSeqProperties DEF z
<1>3. QED
  BY <1>1, <1>2, ConcatProperties DEF z

(* Steps that no job of the agent is under way in, and the agent's death.   *)
LEMMA OtherWorldStep ==
    ASSUME WorldInv,
           \/ \E b \in DOMAIN backups : DeleteSaveBackup(b)
           \/ WipeWorld \/ PruneSaveBackups \/ GameStarts \/ GameStops \/ WorldJobDies
    PROVE  WorldInv'
<1>0. WorldTypeOK /\ RestoreCopies /\ WorldKept
  BY DEF WorldInv
<1>1. ASSUME NEW b \in DOMAIN backups, DeleteSaveBackup(b) PROVE WorldInv'
  <2>1. PICK m, n \in Nat : m = b - 1 /\ n = b + 1 /\ m <= Len(backups) /\ 1 <= n
    BY <1>0, <1>1 DEF WorldTypeOK
  <2>2. /\ job = NoTask /\ backups' = SubSeq(backups, 1, m) \o SubSeq(backups, n, Len(backups))
        /\ UNCHANGED <<running, version, world, old, job, before, discarded, restored>>
    BY <1>1, <2>1 DEF DeleteSaveBackup
  <2>3. backups' \in Seq(Directories)
    BY <1>0, <2>1, <2>2, SomeBackups DEF WorldTypeOK
  <2>4. QED
    BY <1>0, <2>2, <2>3 DEF WorldInv, WorldTypeOK, RestoreCopies, WorldKept
<1>2. CASE PruneSaveBackups
  <2>1. PICK keep \in 0 .. Len(backups) - Retention - 1 :
            backups' = SubSeq(backups, 1, keep)
                       \o SubSeq(backups, Len(backups) - Retention + 1, Len(backups))
    BY <1>2 DEF PruneSaveBackups
  <2>2. /\ job = NoTask /\ Len(backups) > Retention
        /\ UNCHANGED <<running, version, world, old, job, before, discarded, restored>>
    BY <1>2 DEF PruneSaveBackups
  <2>3. PICK n \in Nat : n = Len(backups) - Retention + 1 /\ 1 <= n
    <3> DEFINE length == Len(backups)
               first == length - Retention + 1
    <3>1. length \in Nat /\ length > Retention
      BY <1>0, <2>2 DEF WorldTypeOK
    <3>2. Retention \in Nat
      BY WorldsAssumption
    <3> HIDE DEF length
    <3>3. first \in Nat /\ 1 <= first
      BY <3>1, <3>2
    <3> HIDE DEF first
    <3>4. \E n \in Nat : n = first /\ 1 <= n
      BY <3>3
    <3>5. QED
      BY <3>4 DEF first, length
  <2>4. keep \in Nat /\ keep <= Len(backups)
    BY <1>0, <2>1, <2>2, WorldsAssumption DEF WorldTypeOK
  <2>5. backups' = SubSeq(backups, 1, keep) \o SubSeq(backups, n, Len(backups))
    BY <2>1, <2>3
  <2>6. backups' \in Seq(Directories)
    BY <1>0, <2>3, <2>4, <2>5, SomeBackups DEF WorldTypeOK
  <2>7. QED
    BY <1>0, <2>2, <2>6 DEF WorldInv, WorldTypeOK, RestoreCopies, WorldKept
<1>3. CASE WipeWorld
  <2>1. PICK rest \in SUBSET Files(world) :
            world' = IF rest = {} THEN NoDir ELSE [p \in rest |-> world[p]]
    BY <1>3 DEF WipeWorld
  <2>2. /\ job = NoTask /\ running' \in BOOLEAN
        /\ before' = (IF before = world /\ world' # world THEN NoDir ELSE before)
        /\ discarded' = (discarded /\ before' # NoDir)
        /\ restored' = (IF world' = world THEN restored ELSE NoDir)
        /\ UNCHANGED <<version, old, backups, job>>
    BY <1>0, <1>3 DEF WipeWorld, Forgets, StopIgnored, WorldTypeOK
  <2>3. world' \in Directories \cup {NoDir}
    <3>1. CASE rest = {}
      BY <2>1, <3>1
    <3>2. CASE rest # {}
      <4>1. world \in Directories /\ rest \subseteq DOMAIN world /\ DOMAIN world \subseteq Parts
            /\ \A p \in DOMAIN world : world[p] \in Nat
        BY <1>0, <3>2, DirectoryFacts DEF Files, WorldTypeOK
      <4>2. [p \in rest |-> world[p]] \in [rest -> Nat] /\ rest \in SUBSET Parts
        BY <4>1
      <4>3. [p \in rest |-> world[p]] \in Directories
        BY <4>2 DEF Directories
      <4>4. QED
        BY <2>1, <3>2, <4>3
    <3>3. QED
      BY <3>1, <3>2
  <2>4. QED
    BY <1>0, <2>2, <2>3 DEF WorldInv, WorldTypeOK, RestoreCopies, WorldKept
<1>4. CASE GameStarts \/ GameStops
  BY <1>0, <1>4 DEF GameStarts, GameStops, WorldInv, WorldTypeOK, RestoreCopies, WorldKept
<1>5. CASE WorldJobDies
  BY <1>0, <1>5 DEF WorldJobDies, End, WorldInv, WorldTypeOK, RestoreCopies, WorldKept
<1>6. QED
  BY <1>1, <1>2, <1>3, <1>4, <1>5

LEMMA WorldInvariant == WorldSpec => []WorldInv
<1>1. WorldInit => WorldInv
  <2> SUFFICES ASSUME WorldInit PROVE WorldInv
    OBVIOUS
  <2>1. [p \in Parts |-> 0] \in [Parts -> Nat]
    OBVIOUS
  <2>2. world \in Directories
    BY <2>1 DEF WorldInit, Directories
  <2>3. backups \in Seq(Directories) /\ job = NoTask
    BY <2>2 DEF WorldInit
  <2>4. WorldTypeOK
    BY <2>2, <2>3 DEF WorldInit, WorldTypeOK
  <2>5. QED
    BY <2>3, <2>4 DEF WorldInit, WorldInv, RestoreCopies, WorldKept
<1>2. WorldInv /\ [WorldStep \/ WorldJob]_worldVars => WorldInv'
  <2> SUFFICES ASSUME WorldInv, [WorldStep \/ WorldJob]_worldVars PROVE WorldInv'
    OBVIOUS
  <2>1. CASE WorldStep
    BY <2>1, GameSavesStep, RestoreStep, BackupStep, OtherWorldStep DEF WorldStep
  <2>2. CASE WorldJob
    BY <2>2, RestoreStep, BackupStep, OtherWorldStep DEF WorldJob
  <2>3. CASE UNCHANGED worldVars
    BY <2>3 DEF worldVars, WorldInv, WorldTypeOK, RestoreCopies, WorldKept
  <2>4. QED
    BY <2>1, <2>2, <2>3
<1>3. QED
  BY <1>1, <1>2, PTL DEF WorldSpec

\* RestoreSave: whichever files a world has, however many backups and saves there are,
\* whichever step fails and wherever the agent dies, the world found by a restore that has
\* not succeeded is on disk, unless a further restore discarded what it had put aside, and
\* a success leaves exactly the backup's files.
THEOREM WorldIsKept == WorldSpec => []WorldKept
<1>1. WorldInv => WorldKept
  BY DEF WorldInv
<1>2. QED
  BY <1>1, WorldInvariant, PTL

-----------------------------------------------------------------------------
(* Archives                                                                *)

UploadRuns == {"none", "pending", "queued", "running", "reported", "settled", "failed"}
Uploading == [kind : UploadKinds \cup {"none"}, pc : {"none", "gate", "run", "request", "queue", "over"}]

\* Where the archive of an upload is that nothing has cut off: on the disk from
\* the first write to the refusal or to the end of its run.
ArchiveFollows(u) ==
    /\ upload[u].pc = "none" => u \notin staged /\ uploadRun[u] = "none"
    /\ upload[u].pc \in {"gate", "run", "request"} => u \in staged /\ uploadRun[u] = "none"
    /\ upload[u].pc = "queue" => u \in staged /\ uploadRun[u] = "pending"
    /\ upload[u].pc = "over" =>
          /\ uploadRun[u] \in {"queued", "running", "reported"} <=> u \in staged
          /\ uploadRun[u] # "failed"

UploadInv ==
    /\ upload \in [UploadIds -> Uploading] /\ uploadRun \in [UploadIds -> UploadRuns]
    /\ \A u \in UploadIds : upload[u].pc = "none" <=> upload[u] = NoUpload
    /\ \A u \in UploadIds \ cutOff : ArchiveFollows(u)

(* A step about one upload keeps the invariant when it keeps it of that     *)
(* upload.                                                                  *)
LEMMA OneUpload ==
    ASSUME UploadInv, NEW u \in UploadIds,
           upload' \in [UploadIds -> Uploading], uploadRun' \in [UploadIds -> UploadRuns],
           upload'[u].pc # "none",
           \A x \in UploadIds \ {u} :
              upload'[x] = upload[x] /\ uploadRun'[x] = uploadRun[x] /\ (x \in staged <=> x \in staged'),
           cutOff \subseteq cutOff',
           u \notin cutOff' => ArchiveFollows(u)'
    PROVE  UploadInv'
<1>1. \A x \in UploadIds : upload'[x].pc = "none" <=> upload'[x] = NoUpload
  BY DEF UploadInv, NoUpload
<1>2. \A x \in UploadIds \ cutOff' : ArchiveFollows(x)'
  BY DEF UploadInv, ArchiveFollows
<1>3. QED
  BY <1>1, <1>2 DEF UploadInv

(* Every step of a request, of the agent or of the control plane keeps the  *)
(* archive with its run.                                                    *)
LEMMA UploadStep == UploadInv /\ [UploadsNext]_uploadVars => UploadInv'
<1> SUFFICES ASSUME UploadInv, [UploadsNext]_uploadVars PROVE UploadInv'
  OBVIOUS
<1>0. /\ upload \in [UploadIds -> Uploading] /\ uploadRun \in [UploadIds -> UploadRuns]
      /\ \A u \in UploadIds : upload[u].pc = "none" <=> upload[u] = NoUpload
      /\ \A u \in UploadIds \ cutOff : ArchiveFollows(u)
  BY DEF UploadInv
<1>1. \A u \in UploadIds, pc \in {"gate", "run", "request", "queue", "over"} :
         /\ [upload[u] EXCEPT !.pc = pc] \in Uploading /\ [upload[u] EXCEPT !.pc = pc].pc = pc
         /\ upload = [upload EXCEPT ![u] = upload[u]] /\ uploadRun = [uploadRun EXCEPT ![u] = uploadRun[u]]
  BY <1>0 DEF Uploading
<1>2. ASSUME UNCHANGED <<staged, upload, uploadRun, cutOff>> PROVE UploadInv'
  BY <1>2 DEF UploadInv, ArchiveFollows
<1>3. CASE RoleChanges \/ PortalMods \/ WaitForPortalJobData \/ (\E how : ListSettles(how)) \/ UNCHANGED uploadVars
  BY <1>2, <1>3 DEF RoleChanges, PortalMods, WaitForPortalJobData, ListSettles, uploadVars
<1>4. ASSUME NEW u \in UploadIds, NEW kind \in UploadKinds, NEW pc \in {"gate", "request"}, Stages(u, kind, pc)
      PROVE  UploadInv'
  <2>1. upload[u].pc = "none" /\ [kind |-> kind, pc |-> pc] \in Uploading
    BY <1>0, <1>4 DEF Stages, Uploading
  <2>2. uploadRun[u] \in UploadRuns /\ (u \notin cutOff => uploadRun[u] = "none")
    BY <1>0, <2>1 DEF ArchiveFollows
  <2>3. QED
    BY <1>0, <1>4, <2>1, <2>2, OneUpload DEF Stages, ArchiveFollows
<1> USE DEF Uploading, UploadRuns, ArchiveFollows
<1>5. ASSUME NEW u \in UploadIds, Gate(u) PROVE UploadInv'
  BY <1>0, <1>5, OneUpload DEF Gate, Refuse
<1>6. ASSUME NEW u \in UploadIds, NEW known \in BOOLEAN, upload[u].pc \in {"run", "request"}, CreatesRows(u, known)
      PROVE  UploadInv'
  BY <1>0, <1>6, OneUpload DEF CreatesRows, Refuse
<1>7. ASSUME NEW u \in UploadIds, AddJob(u) PROVE UploadInv'
  BY <1>0, <1>7, OneUpload DEF AddJob
<1>8. ASSUME NEW u \in UploadIds, NEW added \in BOOLEAN, AddJobFails(u, added) PROVE UploadInv'
  BY <1>0, <1>8, OneUpload DEF AddJobFails, Refuse
<1>9. ASSUME NEW u \in UploadIds, RequestDies(u) PROVE UploadInv'
  BY <1>0, <1>9, OneUpload DEF RequestDies
<1>10. ASSUME NEW u \in UploadIds, PollUpload(u) \/ \E ok \in BOOLEAN : ReportUpload(u, ok) PROVE UploadInv'
  <2>1. PICK to \in {"running", "reported"} : RunMoves(u, IF to = "running" THEN "queued" ELSE "running", to)
    BY <1>10 DEF PollUpload, ReportUpload
  <2>2. UNCHANGED <<staged, upload, cutOff>>
    BY <1>10 DEF PollUpload, ReportUpload
  <2>3. uploadRun[u] \in {"queued", "running"} /\ uploadRun'[u] = to
    BY <1>0, <2>1 DEF RunMoves
  <2>4. /\ uploadRun' \in [UploadIds -> UploadRuns]
        /\ \A x \in UploadIds \ {u} : uploadRun'[x] = uploadRun[x]
    BY <1>0, <2>1 DEF RunMoves
  <2>5. CASE upload[u].pc = "none" \/ u \in cutOff
    BY <1>0, <2>2, <2>3, <2>4, <2>5 DEF UploadInv
  <2>6. CASE upload[u].pc # "none" /\ u \notin cutOff
    BY <1>0, <2>2, <2>3, <2>4, <2>6, OneUpload
  <2>7. QED
    BY <2>5, <2>6
<1>11. ASSUME NEW u \in UploadIds, DownloadJobFile(u) PROVE UploadInv'
  BY <1>2, <1>11 DEF DownloadJobFile
<1>12. ASSUME NEW u \in UploadIds, (\E dies \in BOOLEAN : RemoveArchive(u, dies)) \/ ReleaseStale(u) PROVE UploadInv'
  <2>1. /\ uploadRun[u] \in {"reported", "running"} /\ upload' = upload
        /\ uploadRun' \in [UploadIds -> UploadRuns]
        /\ \A x \in UploadIds \ {u} : uploadRun'[x] = uploadRun[x] /\ (x \in staged <=> x \in staged')
        /\ cutOff \subseteq cutOff'
    BY <1>0, <1>12 DEF RemoveArchive, ReleaseStale, RunMoves
  <2>2. u \notin cutOff' => uploadRun'[u] = "settled" /\ u \notin staged'
    BY <1>0, <1>12 DEF RemoveArchive, ReleaseStale, RunMoves
  <2>3. CASE upload[u].pc # "none"
    <3>1. u \notin cutOff' => ArchiveFollows(u)'
      BY <1>0, <2>1, <2>2, <2>3
    <3>2. QED
      BY <1>0, <2>1, <2>3, <3>1, OneUpload
  <2>4. CASE upload[u].pc = "none"
    <3>1. u \in cutOff
      BY <1>0, <2>1, <2>4
    <3>2. QED
      BY <1>0, <2>1, <2>4, <3>1 DEF UploadInv
  <2>5. QED
    BY <2>3, <2>4
<1>13. ASSUME NEW u \in UploadIds, RequestMod(u) \/ \E kind \in UploadKinds : StageModUpload(u, kind) PROVE UploadInv'
  BY <1>4, <1>13 DEF RequestMod, StageModUpload, UploadKinds
<1>14. ASSUME NEW u \in UploadIds, NEW known \in BOOLEAN, CreateRun(u, known) \/ CreatePlayerModRequest(u, known)
       PROVE  UploadInv'
  BY <1>6, <1>14 DEF CreateRun, CreatePlayerModRequest
<1>15. QED
  BY <1>3, <1>5, <1>7, <1>8, <1>9, <1>10, <1>11, <1>12, <1>13, <1>14 DEF UploadsNext

(* Between requests an archive is on the disk exactly while its run may     *)
(* still fetch it, for any uploads in progress at once: what a refusal, a   *)
(* failed call or a result leaves is neither an orphan nor a run without    *)
(* its archive.                                                             *)
THEOREM ArchivesFollowRuns == UploadsSpec => []ArchiveWhileNeeded
<1>1. UploadsInit => UploadInv
  BY DEF UploadsInit, UploadInv, ArchiveFollows, NoUpload, Uploading, UploadRuns
<1>2. UploadInv => ArchiveWhileNeeded
  BY DEF UploadInv, ArchiveFollows, ArchiveWhileNeeded, UploadRuns
<1>3. QED
  BY <1>1, <1>2, UploadStep, PTL DEF UploadsSpec


-----------------------------------------------------------------------------
(* Server instances                                                        *)

Row == [path : Paths, start : {Nothing, "found", "mine"}, url : {Nothing, "mine", "public"},
        cmd : {Nothing, "mine"}, managed : BOOLEAN, hint : DiscoveryHints]
Seen == [id : Rows, row : Row]

Report == [pc : {"idle", "read"}, seen : SUBSET Seen, dir : Dirs \cup {Nothing},
           hint : DiscoveryHints]

InstanceTypeOK ==
    /\ created \in 0..MaxRows
    /\ instance \in [Rows -> Row \cup {Nothing}]
    /\ wish \in [Rows -> [url : {Nothing, "mine"}, cmd : {Nothing, "mine"}]]
    /\ sync \in [Syncs -> Report]
    /\ \A s \in Syncs : sync[s].pc = "read" => sync[s].dir \in Dirs
    /\ clerk \in [Clerks -> [pc : {"idle", "read"}, id : {0} \cup Rows, copy : Row \cup {Nothing}]]
    /\ \A c \in Clerks : clerk[c].pc = "read" => clerk[c].id \in Rows /\ clerk[c].copy \in Row

\* A row holds, and a report has read, what the operator asked for.
KeepsWish(i, row) == row.cmd = wish[i].cmd /\ (wish[i].url # Nothing => row.url = wish[i].url)

\* Nobody has read a row that is not yet created.
NotYetCreated ==
    \A i \in Rows : i > created =>
        /\ instance[i] = Nothing /\ wish[i] = NoWish
        /\ \A s \in Syncs : \A r \in sync[s].seen : r.id # i
        /\ \A c \in Clerks : clerk[c].id # i

\* A report and an update that know the same row have crossed.
CrossedRows ==
    \A s \in Syncs, c \in Clerks : \A r \in sync[s].seen : clerk[c].id = r.id => r.id \in crossed

InstanceInv ==
    /\ InstanceTypeOK /\ NotYetCreated /\ CrossedRows
    /\ \A i \in Live \ crossed : KeepsWish(i, instance[i])
    /\ \A s \in Syncs : \A r \in sync[s].seen : r.id \in Live \ crossed => KeepsWish(r.id, r.row)

(* A set of rows that a report has read has a first row.                    *)
LEMMA FirstSeen ==
    ASSUME NEW S \in SUBSET Seen, S # {}
    PROVE  (CHOOSE r \in S : \A o \in S : r.id <= o.id) \in S
<1> DEFINE R == {p \in Nat \X Nat : p[1] < p[2]}
           T == {r.id : r \in S}
<1>1. R = OpToRel(<, Nat)
  BY DEF OpToRel
<1>2. IsWellFoundedOn(R, Nat)
  BY <1>1, NatLessThanWellFounded
<1>3. T \subseteq Nat /\ T # {}
  BY InstancesAssumption DEF Seen, Rows
<1>4. \E x \in T : \A y \in T : ~ (<<y, x>> \in R)
  <2> HIDE DEF R, T
  <2> QED
    BY <1>2, <1>3, WFMin
<1>5. \A x, y \in Nat : <<y, x>> \notin R => x =< y
  OBVIOUS
<1>6. \E x \in T : \A y \in T : x =< y
  <2> HIDE DEF R, T
  <2> QED
    BY <1>3, <1>4, <1>5
<1>7. \E r \in S : \A o \in S : r.id <= o.id
  BY <1>6
<1>8. QED
  BY <1>7

(* The row a report goes to is one of the rows it has read.                 *)
LEMMA MatchIsSeen ==
    ASSUME NEW S \in SUBSET Seen, NEW path
    PROVE  FindMatchingDiscoveredInstance(S, path) \subseteq S
<1> DEFINE same == {r \in S : NormalizePath(r.row.path) = NormalizePath(path)}
<1>1. same \in SUBSET Seen /\ same \subseteq S
  OBVIOUS
<1>2. CASE same # {}
  <2>1. (CHOOSE r \in same : \A o \in same : r.id <= o.id) \in same
    <3> HIDE DEF same
    <3> QED
      BY <1>1, <1>2, FirstSeen
  <2>2. FindMatchingDiscoveredInstance(S, path) = {CHOOSE r \in same : \A o \in same : r.id <= o.id}
    BY <1>2 DEF FindMatchingDiscoveredInstance
  <2> HIDE DEF same
  <2>3. QED
    BY <1>1, <2>1, <2>2
<1>3. CASE same = {}
  BY <1>3 DEF FindMatchingDiscoveredInstance
<1>4. QED
  BY <1>2, <1>3

(* What an update writes: only the column it names, and with a command the  *)
(* rest of the configuration it had read.                                   *)
LEMMA UpdatedKeeps ==
    ASSUME NEW row \in Row, NEW copy \in Row, NEW f \in Fields
    PROVE  /\ Updated(row, copy, f) \in Row
           /\ Updated(row, copy, f).cmd = IF "cmd" \in DOMAIN f THEN f.cmd ELSE row.cmd
           /\ Updated(row, copy, f).url = IF "url" \in DOMAIN f THEN f.url ELSE row.url
           /\ "url" \in DOMAIN f => "cmd" \notin DOMAIN f /\ f.url \in {Nothing, "mine"}
           /\ "cmd" \in DOMAIN f => "url" \notin DOMAIN f /\ f.cmd \in {Nothing, "mine"}
<1>1. CASE f \in [url : {"mine"}] \cup {[url |-> Nothing]}
  BY <1>1 DEF Updated, Row
<1>2. CASE f \in [cmd : {"mine"}] \cup {[cmd |-> Nothing]}
  <2>1. "url" \notin DOMAIN f /\ "start" \notin DOMAIN f /\ "path" \notin DOMAIN f /\ "cmd" \in DOMAIN f
    BY <1>2
  <2>2. f.cmd \in {Nothing, "mine"}
    BY <1>2
  <2>3. Updated(row, copy, f) = [row EXCEPT !.cmd = f.cmd, !.managed = copy.managed, !.hint = copy.hint]
    BY <2>1 DEF Updated
  <2>4. QED
    BY <2>1, <2>2, <2>3 DEF Row
<1>3. CASE f \in [start : {"mine"}]
  BY <1>3 DEF Updated, Row
<1>4. CASE f \in [path : Paths]
  BY <1>4 DEF Updated, Row
<1>5. QED
  BY <1>1, <1>2, <1>3, <1>4 DEF Fields

(* What a report writes: the address only where it had read none.           *)
LEMMA DiscoveredKeeps ==
    ASSUME NEW row \in Row, NEW prior \in Row, NEW path \in Paths, NEW hint \in DiscoveryHints
    PROVE  /\ Discovered(row, prior, path, hint) \in Row
           /\ Discovered(row, prior, path, hint).cmd = prior.cmd
           /\ prior.url # Nothing => Discovered(row, prior, path, hint).url = row.url
<1> DEFINE m == MergeConfig(prior, hint)
<1>1. m \in Row /\ m.cmd = prior.cmd
  BY DEF MergeConfig, Row, DiscoveryHints
<1>2. MapEmbedHint(m.hint) \in {Nothing, "public"}
  BY <1>1 DEF MapEmbedHint, Row, DiscoveryHints
<1> HIDE DEF m
<1>3. QED
  BY <1>1, <1>2 DEF Discovered, Row, m


(* A report that is done has read nothing.                                  *)
LEMMA ReportDone ==
    ASSUME sync \in [Syncs -> Report], \A s \in Syncs : sync[s].pc = "read" => sync[s].dir \in Dirs,
           sync' = sync \/ \E s \in Syncs : sync' = [sync EXCEPT ![s] = NoSync]
    PROVE  /\ sync' \in [Syncs -> Report]
           /\ \A s \in Syncs : sync'[s].pc = "read" => sync'[s].dir \in Dirs
<1>1. NoSync \in Report /\ NoSync.pc = "idle"
  BY DEF NoSync, Report, DiscoveryHints
<1> HIDE DEF NoSync
<1>2. sync' \in [Syncs -> Report]
  BY <1>1
<1>3. \A s \in Syncs : sync'[s] = sync[s] \/ sync'[s] = NoSync
  OBVIOUS
<1>4. QED
  BY <1>1, <1>2, <1>3

(* A new row is nobody's yet and holds what was asked.                      *)
LEMMA RowCreated ==
    ASSUME InstanceInv, created < MaxRows, created' = created + 1, NEW row \in Row, NEW w,
           w \in [url : {Nothing, "mine"}, cmd : {Nothing, "mine"}],
           instance' = [instance EXCEPT ![created + 1] = row],
           wish' = [wish EXCEPT ![created + 1] = w],
           row.cmd = w.cmd, w.url # Nothing => row.url = w.url,
           UNCHANGED <<clerk, crossed>>,
           sync' = sync \/ \E s \in Syncs : sync' = [sync EXCEPT ![s] = NoSync]
    PROVE  InstanceInv'
<1> DEFINE n == created + 1
<1>1. n \in Rows /\ created \in Nat
  BY InstancesAssumption DEF InstanceInv, InstanceTypeOK, Rows
<1>2. \A s \in Syncs : sync'[s] = sync[s] \/ sync'[s] = NoSync
  BY DEF InstanceInv, InstanceTypeOK
<1>3. InstanceTypeOK'
  <2>1. created' \in 0..MaxRows
    BY <1>1, InstancesAssumption DEF Rows
  <2>2. instance' \in [Rows -> Row \cup {Nothing}]
    BY DEF InstanceInv, InstanceTypeOK
  <2>3. wish' \in [Rows -> [url : {Nothing, "mine"}, cmd : {Nothing, "mine"}]]
    <3> DEFINE W == [url : {Nothing, "mine"}, cmd : {Nothing, "mine"}]
    <3>1. w \in W /\ wish \in [Rows -> W]
      BY DEF InstanceInv, InstanceTypeOK
    <3> HIDE DEF W
    <3>2. wish' \in [Rows -> W]
      BY <3>1
    <3>3. QED
      BY <3>2 DEF W
  <2>4. QED
    BY <1>2, <2>1, <2>2, <2>3, ReportDone DEF InstanceInv, InstanceTypeOK
<1>4. NotYetCreated'
  <2>1. \A i \in Rows : i > created' => i > created /\ i # n
    BY <1>1 DEF Rows
  <2>2. \A i \in Rows \ {n} : instance'[i] = instance[i] /\ wish'[i] = wish[i]
    BY DEF InstanceInv, InstanceTypeOK
  <2> HIDE DEF n
  <2>3. QED
    BY <1>2, <2>1, <2>2 DEF InstanceInv, NotYetCreated, NoSync
<1>5. CrossedRows'
  BY <1>2 DEF InstanceInv, CrossedRows, NoSync
<1>6. \A i \in Rows \ {n} : instance'[i] = instance[i] /\ wish'[i] = wish[i]
  BY DEF InstanceInv, InstanceTypeOK
<1>7. instance'[n] = row /\ wish'[n] = w
  BY <1>1 DEF InstanceInv, InstanceTypeOK
<1>8. \A i \in Live' \ crossed' : KeepsWish(i, instance[i])'
  BY <1>1, <1>6, <1>7 DEF InstanceInv, KeepsWish, Live
<1>9. \A s \in Syncs : \A r \in sync'[s].seen : r.id \in Live' \ crossed' => KeepsWish(r.id, r.row)'
  <2> SUFFICES ASSUME NEW s \in Syncs, NEW r \in sync'[s].seen, r.id \in Live' \ crossed'
               PROVE  KeepsWish(r.id, r.row)'
    OBVIOUS
  <2>1. r \in sync[s].seen
    BY <1>2 DEF NoSync
  <2>2. r.id # n /\ r.id \in Rows
    BY <1>1, <2>1 DEF InstanceInv, NotYetCreated, InstanceTypeOK, Report, Seen
  <2>3. r.id \in Live \ crossed
    BY <1>6, <2>2 DEF Live
  <2>4. KeepsWish(r.id, r.row)
    BY <2>1, <2>3 DEF InstanceInv
  <2>5. wish'[r.id] = wish[r.id]
    BY <1>6, <2>2
  <2>6. QED
    BY <2>4, <2>5 DEF KeepsWish
<1>10. QED
  BY <1>3, <1>4, <1>5, <1>8, <1>9 DEF InstanceInv

(* A report writes to the row it has read, or creates one.                  *)
LEMMA ReportWrites == ASSUME InstanceInv, NEW s \in Syncs, SyncWrites(s) PROVE InstanceInv'
<1> DEFINE path == [dir |-> sync[s].dir, spelling |-> "plain"]
           hint == sync[s].hint
           match == FindMatchingDiscoveredInstance(sync[s].seen, path)
<1>1. path \in Paths /\ hint \in DiscoveryHints /\ sync[s].seen \in SUBSET Seen
  BY DEF InstanceInv, InstanceTypeOK, Report, SyncWrites, Paths, Spellings
<1>2. match \subseteq sync[s].seen
  BY <1>1, MatchIsSeen
<1>3. sync' = [sync EXCEPT ![s] = NoSync] /\ UNCHANGED <<clerk, wish, crossed, changes>>
  BY DEF SyncWrites
<1>4. CASE match = {}
  <2> DEFINE new == [path |-> path, start |-> "found", url |-> MapEmbedHint(hint), cmd |-> Nothing,
                     managed |-> FALSE, hint |-> Nothing]
  <2>1. SyncCreates(path, hint)
    BY <1>4 DEF SyncWrites
  <2>2. new \in Row
    BY <1>1 DEF Row, MapEmbedHint, DiscoveryHints
  <2>3. MergeConfig(new, hint) \in Row /\ MergeConfig(new, hint).cmd = Nothing
    <3> HIDE DEF path, hint
    <3>1. QED
      BY <1>1, <2>2 DEF MergeConfig, Row, DiscoveryHints
  <2>4. created + 1 \in Rows /\ wish[created + 1] = NoWish
    BY <2>1, InstancesAssumption DEF SyncCreates, InstanceInv, InstanceTypeOK, NotYetCreated, Rows
  <2>5. wish' = [wish EXCEPT ![created + 1] = NoWish]
    BY <1>3, <2>4 DEF InstanceInv, InstanceTypeOK
  <2>6. created < MaxRows /\ created' = created + 1 /\ instance' = [instance EXCEPT ![created + 1] = MergeConfig(new, hint)]
    BY <2>1 DEF SyncCreates
  <2> HIDE DEF new, path, hint, match
  <2>7. QED
    BY <1>3, <2>3, <2>5, <2>6, RowCreated DEF NoWish
<1>5. ASSUME NEW r \in match, UNCHANGED created,
             instance' = IF r.id \in Live THEN [instance EXCEPT ![r.id] = Discovered(@, r.row, path, hint)] ELSE instance
      PROVE  InstanceInv'
  <2> DEFINE i == r.id
             row == Discovered(instance[i], r.row, path, hint)
  <2>1. i \in Rows /\ r.row \in Row /\ r \in sync[s].seen
    BY <1>1, <1>2 DEF Seen
  <2> HIDE DEF path, hint, match
  <2> HIDE DEF i
  <2>12. i \in Live => instance[i] \in Row
    BY <2>1 DEF InstanceInv, InstanceTypeOK, Live
  <2>2. i \in Live => /\ instance[i] \in Row /\ row \in Row /\ row.cmd = r.row.cmd
                      /\ r.row.url # Nothing => row.url = instance[i].url
    <3> DEFINE was == instance[i]
               read == r.row
    <3>1. \A a, b \in Row : /\ Discovered(a, b, path, hint) \in Row
                            /\ Discovered(a, b, path, hint).cmd = b.cmd
                            /\ b.url # Nothing => Discovered(a, b, path, hint).url = a.url
      BY <1>1, DiscoveredKeeps
    <3>2. read \in Row /\ (i \in Live => was \in Row)
      BY <2>1, <2>12
    <3> HIDE DEF was, read
    <3>3. QED
      BY <3>1, <3>2 DEF was, read
  <2> HIDE DEF row
  <2>3. instance' = IF i \in Live THEN [instance EXCEPT ![i] = row] ELSE instance
    BY <1>5, <2>1 DEF i, row, InstanceInv, InstanceTypeOK
  <2>4. \A x \in Syncs : sync'[x] = sync[x] \/ sync'[x] = NoSync
    BY <1>3 DEF InstanceInv, InstanceTypeOK
  <2>5. InstanceTypeOK'
    <3>1. instance' \in [Rows -> Row \cup {Nothing}]
      BY <2>1, <2>2, <2>3 DEF InstanceInv, InstanceTypeOK
    <3>2. QED
      BY <1>3, <1>5, <3>1, ReportDone DEF InstanceInv, InstanceTypeOK
  <2>6. NotYetCreated' /\ CrossedRows'
    BY <1>3, <1>5, <2>1, <2>3, <2>4 DEF InstanceInv, InstanceTypeOK, NotYetCreated, CrossedRows, NoSync, Live
  <2>7. Live' \subseteq Live
    BY <2>3 DEF Live, InstanceInv, InstanceTypeOK
  <2>8. \A x \in Syncs : \A q \in sync'[x].seen : q.id \in Live' \ crossed' => KeepsWish(q.id, q.row)'
    BY <1>3, <2>4, <2>7 DEF InstanceInv, KeepsWish, NoSync
  <2>9. i \in Live \ crossed => KeepsWish(i, row)
    <3>1. i \in Live \ crossed => KeepsWish(i, r.row) /\ KeepsWish(i, instance[i])
      BY <2>1 DEF InstanceInv, i
    <3>2. QED
      BY <2>2, <3>1 DEF KeepsWish
  <2>10. \A x \in Live' \ crossed' : KeepsWish(x, instance[x])'
    BY <1>3, <2>3, <2>7, <2>9 DEF InstanceInv, InstanceTypeOK, KeepsWish, Live
  <2>11. QED
    BY <2>5, <2>6, <2>8, <2>10 DEF InstanceInv
<1>6. QED
  BY <1>4, <1>5 DEF SyncWrites


(* The other steps of the requests: an update that overlaps a report or     *)
(* another update is counted as crossed when the second of them reads.      *)
LEMMA InstanceStep == InstanceInv /\ [InstancesNext]_instanceVars => InstanceInv'
<1> SUFFICES ASSUME InstanceInv, [InstancesNext]_instanceVars PROVE InstanceInv'
  OBVIOUS
<1>0. /\ InstanceTypeOK /\ NotYetCreated /\ CrossedRows
      /\ \A i \in Live \ crossed : KeepsWish(i, instance[i])
      /\ \A s \in Syncs : \A r \in sync[s].seen : r.id \in Live \ crossed => KeepsWish(r.id, r.row)
  BY DEF InstanceInv
<1>1. ASSUME NEW path \in Paths, NEW url \in {Nothing, "mine"}, CreateInstance(path, url)
      PROVE  InstanceInv'
  <2> DEFINE row == [path |-> path, start |-> Nothing, url |-> url, cmd |-> Nothing,
                     managed |-> FALSE, hint |-> Nothing]
             w == [url |-> url, cmd |-> Nothing]
  <2>1. /\ created < MaxRows /\ created' = created + 1
        /\ instance' = [instance EXCEPT ![created + 1] = row]
        /\ UNCHANGED <<sync, clerk, crossed>>
    BY <1>1 DEF CreateInstance
  <2>2. created + 1 \in Rows /\ wish[created + 1] = NoWish
    BY <1>0, <2>1, InstancesAssumption DEF InstanceTypeOK, NotYetCreated, Rows
  <2>3. wish' = [wish EXCEPT ![created + 1] = w]
    <3>1. [NoWish EXCEPT !.url = url] = w
      BY DEF NoWish
    <3>2. wish' = [wish EXCEPT ![created + 1] = [wish[created + 1] EXCEPT !.url = url]]
      BY <1>0, <1>1, <2>2 DEF CreateInstance, InstanceTypeOK
    <3>3. QED
      BY <2>2, <3>1, <3>2
  <2>4. row \in Row /\ w \in [url : {Nothing, "mine"}, cmd : {Nothing, "mine"}]
    BY DEF Row, DiscoveryHints
  <2>5. row.cmd = w.cmd /\ row.url = w.url
    OBVIOUS
  <2> HIDE DEF row, w
  <2>6. QED
    BY <2>1, <2>3, <2>4, <2>5, RowCreated
<1>2. ASSUME NEW c \in Clerks, NEW i \in Rows, UpdateReads(c, i) PROVE InstanceInv'
  <2>1. /\ i \in Live /\ clerk' = [clerk EXCEPT ![c] = [pc |-> "read", id |-> i, copy |-> instance[i]]]
        /\ crossed' = IF Meets(i) THEN crossed \cup {i} ELSE crossed
        /\ UNCHANGED <<instance, created, sync, wish>>
    BY <1>2 DEF UpdateReads
  <2>2. instance[i] \in Row
    BY <1>0, <2>1 DEF Live, InstanceTypeOK
  <2>3. \A d \in Clerks : IF d = c THEN clerk'[d] = [pc |-> "read", id |-> i, copy |-> instance[i]]
                          ELSE clerk'[d] = clerk[d]
    BY <1>0, <2>1 DEF InstanceTypeOK
  <2>4. InstanceTypeOK'
    <3>1. clerk' \in [Clerks -> [pc : {"idle", "read"}, id : {0} \cup Rows, copy : Row \cup {Nothing}]]
      BY <1>0, <2>1, <2>2 DEF InstanceTypeOK
    <3>2. \A d \in Clerks : clerk'[d].pc = "read" => clerk'[d].id \in Rows /\ clerk'[d].copy \in Row
      BY <1>0, <2>2, <2>3 DEF InstanceTypeOK
    <3>3. QED
      BY <1>0, <2>1, <3>1, <3>2 DEF InstanceTypeOK
  <2>5. NotYetCreated'
    BY <1>0, <2>1, <2>3 DEF NotYetCreated, Live
  <2>6. CrossedRows'
    BY <1>0, <2>1, <2>3 DEF CrossedRows, Meets
  <2>7. Live' = Live /\ crossed \subseteq crossed'
    BY <2>1 DEF Live
  <2>8. QED
    BY <1>0, <2>1, <2>4, <2>5, <2>6, <2>7 DEF InstanceInv, KeepsWish
<1>3. ASSUME NEW c \in Clerks, NEW f \in Fields, UpdateWrites(c, f) PROVE InstanceInv'
  <2> DEFINE i == clerk[c].id
             copy == clerk[c].copy
             row == Updated(instance[i], copy, f)
             w == IF "url" \in DOMAIN f THEN [wish[i] EXCEPT !.url = f.url]
                  ELSE IF "cmd" \in DOMAIN f THEN [wish[i] EXCEPT !.cmd = f.cmd] ELSE wish[i]
  <2>1. i \in Rows /\ copy \in Row /\ clerk[c].pc = "read"
    BY <1>0, <1>3 DEF UpdateWrites, InstanceTypeOK
  <2>2. /\ instance' = IF i \in Live THEN [instance EXCEPT ![i] = row] ELSE instance
        /\ wish' = [wish EXCEPT ![i] = w]
        /\ clerk' = [clerk EXCEPT ![c] = NoClerk]
        /\ UNCHANGED <<created, sync, crossed>>
    BY <1>0, <1>3, <2>1 DEF UpdateWrites, InstanceTypeOK
  <2>3. /\ wish[i].url \in {Nothing, "mine"} /\ wish[i].cmd \in {Nothing, "mine"}
        /\ w \in [url : {Nothing, "mine"}, cmd : {Nothing, "mine"}]
        /\ w.cmd = IF "cmd" \in DOMAIN f THEN f.cmd ELSE wish[i].cmd
        /\ w.url = IF "url" \in DOMAIN f THEN f.url ELSE wish[i].url
    <3> DEFINE prior == wish[i]
    <3>1. prior \in [url : {Nothing, "mine"}, cmd : {Nothing, "mine"}]
      BY <1>0, <2>1 DEF InstanceTypeOK
    <3>2. /\ "url" \in DOMAIN f => "cmd" \notin DOMAIN f /\ f.url \in {Nothing, "mine"}
          /\ "cmd" \in DOMAIN f => "url" \notin DOMAIN f /\ f.cmd \in {Nothing, "mine"}
      BY <2>1, UpdatedKeeps
    <3> HIDE DEF prior
    <3>3. QED
      BY <3>1, <3>2 DEF prior
  <2>4. i \in Live => /\ row \in Row
                      /\ row.cmd = IF "cmd" \in DOMAIN f THEN f.cmd ELSE instance[i].cmd
                      /\ row.url = IF "url" \in DOMAIN f THEN f.url ELSE instance[i].url
    <3> DEFINE was == instance[i]
    <3>1. i \in Live => was \in Row
      BY <1>0, <2>1 DEF InstanceTypeOK, Live
    <3>2. \A a, b \in Row :
             /\ Updated(a, b, f) \in Row
             /\ Updated(a, b, f).cmd = IF "cmd" \in DOMAIN f THEN f.cmd ELSE a.cmd
             /\ Updated(a, b, f).url = IF "url" \in DOMAIN f THEN f.url ELSE a.url
      BY UpdatedKeeps
    <3> HIDE DEF was, copy
    <3>3. QED
      BY <2>1, <3>1, <3>2 DEF was
  <2>5. \A d \in Clerks : clerk'[d] = IF d = c THEN NoClerk ELSE clerk[d]
    BY <1>0, <2>2 DEF InstanceTypeOK
  <2>6. \A s \in Syncs : \A r \in sync[s].seen : r.id = i => i \in crossed
    BY <1>0 DEF CrossedRows
  <2>7. i <= created
    BY <1>0, <2>1 DEF NotYetCreated, InstanceTypeOK, Rows
  <2> HIDE DEF i, copy, row, w
  <2>9. InstanceTypeOK'
    <3>1. instance' \in [Rows -> Row \cup {Nothing}]
      BY <1>0, <2>1, <2>2, <2>4 DEF InstanceTypeOK
    <3>2. wish' \in [Rows -> [url : {Nothing, "mine"}, cmd : {Nothing, "mine"}]]
      <4> DEFINE W == [url : {Nothing, "mine"}, cmd : {Nothing, "mine"}]
      <4>1. w \in W /\ wish \in [Rows -> W]
        BY <1>0, <2>3 DEF InstanceTypeOK
      <4> HIDE DEF W
      <4>2. wish' \in [Rows -> W]
        BY <2>2, <4>1
      <4>3. QED
        BY <4>2 DEF W
    <3>3. clerk' \in [Clerks -> [pc : {"idle", "read"}, id : {0} \cup Rows, copy : Row \cup {Nothing}]]
      BY <1>0, <2>2 DEF InstanceTypeOK, NoClerk
    <3>4. \A d \in Clerks : clerk'[d].pc = "read" => clerk'[d].id \in Rows /\ clerk'[d].copy \in Row
      BY <1>0, <2>5 DEF InstanceTypeOK, NoClerk
    <3>5. QED
      BY <1>0, <2>2, <3>1, <3>2, <3>3, <3>4 DEF InstanceTypeOK
  <2>10. /\ \A x \in Rows \ {i} : instance'[x] = instance[x] /\ wish'[x] = wish[x]
         /\ wish'[i] = w /\ (i \in Live => instance'[i] = row) /\ (i \notin Live => instance'[i] = instance[i])
    BY <1>0, <2>1, <2>2 DEF InstanceTypeOK
  <2>11. NotYetCreated'
    <3>1. \A x \in Rows : x > created => x # i
      BY <1>0, <2>1, <2>7 DEF Rows, InstanceTypeOK
    <3>2. \A d \in Clerks : \A x \in Rows : clerk'[d].id = x => clerk[d].id = x
      BY <2>5 DEF NoClerk, Rows
    <3>3. QED
      BY <1>0, <2>2, <2>10, <3>1, <3>2 DEF NotYetCreated
  <2>12. CrossedRows'
    <3>1. \A s \in Syncs : \A r \in sync[s].seen : r.id \in Rows
      BY <1>0 DEF InstanceTypeOK, Report, Seen
    <3>2. \A d \in Clerks : \A x \in Rows : clerk'[d].id = x => clerk[d].id = x
      BY <2>5 DEF NoClerk, Rows
    <3>3. QED
      BY <1>0, <2>2, <3>1, <3>2 DEF CrossedRows
  <2>13. Live' \subseteq Live
    BY <2>10 DEF Live
  <2>14. \A x \in Live' \ crossed' : KeepsWish(x, instance[x])'
    <3>1. i \in Live \ crossed => row.cmd = w.cmd /\ (w.url # Nothing => row.url = w.url)
      BY <1>0, <2>3, <2>4 DEF KeepsWish
    <3>2. QED
      BY <1>0, <2>2, <2>10, <2>13, <3>1 DEF KeepsWish, Live
  <2>15. \A s \in Syncs : \A r \in sync'[s].seen : r.id \in Live' \ crossed' => KeepsWish(r.id, r.row)'
    <3> SUFFICES ASSUME NEW s \in Syncs, NEW r \in sync[s].seen, r.id \in Live' \ crossed'
                 PROVE  KeepsWish(r.id, r.row)'
      BY <2>2
    <3>1. r.id \in Live \ crossed /\ r.id # i /\ r.id \in Rows
      BY <2>2, <2>6, <2>13 DEF Live, i
    <3>2. wish'[r.id] = wish[r.id] /\ KeepsWish(r.id, r.row)
      BY <1>0, <2>10, <3>1
    <3>3. QED
      BY <3>2 DEF KeepsWish
  <2>16. QED
    BY <2>9, <2>11, <2>12, <2>14, <2>15 DEF InstanceInv
<1>4. ASSUME NEW i \in Rows, RemoveInstance(i) PROVE InstanceInv'
  <2>1. /\ instance' = [instance EXCEPT ![i] = Nothing]
        /\ UNCHANGED <<created, sync, clerk, wish, crossed>>
    BY <1>4 DEF RemoveInstance
  <2>2. \A x \in Rows : instance'[x] = IF x = i THEN Nothing ELSE instance[x]
    BY <1>0, <2>1 DEF InstanceTypeOK
  <2>3. instance' \in [Rows -> Row \cup {Nothing}]
    BY <1>0, <2>1 DEF InstanceTypeOK
  <2>4. InstanceTypeOK'
    BY <1>0, <2>1, <2>3 DEF InstanceTypeOK
  <2>5. NotYetCreated' /\ CrossedRows'
    BY <1>0, <2>1, <2>2 DEF NotYetCreated, CrossedRows
  <2>6. Live' \subseteq Live /\ i \notin Live'
    BY <2>2 DEF Live
  <2>7. QED
    BY <1>0, <2>1, <2>2, <2>4, <2>5, <2>6 DEF InstanceInv, KeepsWish, Live
<1>5. ASSUME NEW s \in Syncs, NEW dir \in Dirs, NEW hint \in DiscoveryHints, SyncReads(s, dir, hint)
      PROVE  InstanceInv'
  <2> DEFINE new == [pc |-> "read", dir |-> dir, hint |-> hint,
                     seen |-> {[id |-> i, row |-> instance[i]] : i \in Live}]
  <2>1. /\ sync' = [sync EXCEPT ![s] = new]
        /\ crossed' = crossed \cup {i \in Live : \E c \in Clerks : clerk[c].id = i}
        /\ UNCHANGED <<instance, created, clerk, wish>>
    BY <1>5 DEF SyncReads
  <2>2. new \in Report /\ new.dir \in Dirs
    BY <1>0 DEF Report, Seen, Live, InstanceTypeOK
  <2>3. \A r \in new.seen : r.id \in Live /\ r.row = instance[r.id]
    OBVIOUS
  <2> HIDE DEF new
  <2>4. \A x \in Syncs : sync'[x] = IF x = s THEN new ELSE sync[x]
    BY <1>0, <2>1 DEF InstanceTypeOK
  <2>5. InstanceTypeOK'
    <3>1. sync' \in [Syncs -> Report]
      BY <1>0, <2>1, <2>2 DEF InstanceTypeOK
    <3>2. QED
      BY <1>0, <2>1, <2>2, <2>4, <3>1 DEF InstanceTypeOK
  <2>6. NotYetCreated'
    BY <1>0, <2>1, <2>3, <2>4 DEF NotYetCreated, Live
  <2>7. CrossedRows'
    BY <1>0, <2>1, <2>3, <2>4 DEF CrossedRows
  <2>8. Live' = Live /\ crossed \subseteq crossed'
    BY <2>1 DEF Live
  <2>9. QED
    BY <1>0, <2>1, <2>3, <2>4, <2>5, <2>6, <2>7, <2>8 DEF InstanceInv, KeepsWish
<1>6. ASSUME NEW s \in Syncs, SyncWrites(s) PROVE InstanceInv'
  BY <1>6, ReportWrites
<1>7. CASE UNCHANGED instanceVars
  BY <1>0, <1>7 DEF instanceVars, InstanceInv, InstanceTypeOK, NotYetCreated, CrossedRows, KeepsWish, Live
<1>8. QED
  BY <1>1, <1>2, <1>3, <1>4, <1>5, <1>6, <1>7 DEF InstancesNext

(* What the operator set is what the row keeps (OperatorKept): a report or  *)
(* an update in progress changes the address and the command of a row only  *)
(* as asked, unless an update overlapped another writer of the row.         *)
THEOREM OperatorIsKept == InstancesSpec => []OperatorKept
<1>1. InstancesInit => InstanceInv
  <2> SUFFICES ASSUME InstancesInit PROVE InstanceInv
    OBVIOUS
  <2>1. Live = {}
    BY DEF InstancesInit, Live
  <2>2. InstanceTypeOK
    BY InstancesAssumption DEF InstancesInit, InstanceTypeOK, Report, NoSync, NoClerk, NoWish, DiscoveryHints
  <2>3. NotYetCreated /\ CrossedRows
    BY DEF InstancesInit, NotYetCreated, CrossedRows, NoSync, NoClerk, Rows
  <2>4. QED
    BY <2>1, <2>2, <2>3 DEF InstanceInv
<1>2. InstanceInv => OperatorKept
  BY DEF InstanceInv, OperatorKept, KeepsWish
<1>3. QED
  BY <1>1, <1>2, InstanceStep, PTL DEF InstancesSpec
-----------------------------------------------------------------------------
(* The jars of a server                                                    *)

JarsTypeOK ==
    /\ place \in [Places -> [Names -> JarRow \cup {NoJar}]]
    /\ made \in Nat /\ gone \subseteq 1 .. made

Has(pl, n) == place[pl][n] # NoJar
Holds(pl, n, i) == Has(pl, n) /\ place[pl][n].id = i

\* What is in a directory was written and not deleted, nothing is in two of them, and what
\* was not deleted is in one.
JarsCounted == \A pl \in Places, n \in Names : Has(pl, n) => place[pl][n].id \in (1 .. made) \ gone
JarsOnce ==
    \A pl, ql \in Places, n, m \in Names :
        Has(pl, n) /\ Has(ql, m) /\ place[pl][n].id = place[ql][m].id => pl = ql /\ n = m
JarsFound == \A i \in (1 .. made) \ gone : \E pl \in Places, n \in Names : Holds(pl, n, i)

JarsInv == JarsTypeOK /\ JarsCounted /\ JarsOnce /\ JarsFound

(* The directories are five and differ.                                     *)
LEMMA PlaceFacts ==
    /\ \A kind \in Kinds : Active(kind) \in Places /\ Quarantine(kind) \in Places
    /\ \A kind \in Kinds : Active(kind) # Quarantine(kind) /\ Active(kind) # Pending
    /\ Pending \in Places
    /\ \A kind \in Kinds, dir \in {"active", "quarantine"} : <<dir, kind>> \in Places
    /\ UploadPlaces \subseteq Places
BY DEF Places, Active, Quarantine, Pending, Kinds, UploadPlaces

(* A jar that is found in a directory is there.                             *)
LEMMA FoundMod ==
    ASSUME NEW dir, NEW n, NEW hint \in Hints, FindMod(dir, n, hint) # ""
    PROVE  /\ FindMod(dir, n, hint) \in Kinds
           /\ place[<<dir, FindMod(dir, n, hint)>>][n] # NoJar
<1> DEFINE has == {k \in Kinds : hint \in {"", k} /\ place[<<dir, k>>][n] # NoJar}
<1>1. FindMod(dir, n, hint) = CASE has = {} -> "" [] "mods" \in has -> "mods" [] OTHER -> "plugins"
  BY DEF FindMod
<1>2. has # {}
  BY <1>1
<1>3. has \subseteq Kinds /\ \A k \in has : place[<<dir, k>>][n] # NoJar
  OBVIOUS
<1> HIDE DEF has
<1>4. CASE "mods" \in has
  BY <1>1, <1>2, <1>3, <1>4
<1>5. CASE "mods" \notin has
  <2>1. "plugins" \in has
    BY <1>2, <1>3, <1>5 DEF Kinds
  <2>2. QED
    BY <1>1, <1>2, <1>3, <1>5, <2>1
<1>6. QED
  BY <1>4, <1>5

(* What a directory holds after a jar is put there.                         *)
LEMMA PutFacts ==
    ASSUME NEW f \in [Places -> [Names -> JarRow \cup {NoJar}]], NEW ql \in Places, NEW n \in Names,
           NEW jar \in JarRow \cup {NoJar}
    PROVE  /\ Put(f, ql, n, jar) \in [Places -> [Names -> JarRow \cup {NoJar}]]
           /\ \A pl \in Places, m \in Names :
                 Put(f, ql, n, jar)[pl][m] = IF pl = ql /\ m = n THEN jar ELSE f[pl][m]
BY DEF Put

(* A jar is moved, and the one in its way is gone.                          *)
LEMMA MoveKeeps ==
    ASSUME JarsInv, NEW from \in Places, NEW to \in Places, from # to, NEW n \in Names,
           Has(from, n), Move(from, to, n), made' = made,
           gone' = IF Has(to, n) THEN gone \cup {place[to][n].id} ELSE gone
    PROVE  JarsInv'
<1>1. /\ place' \in [Places -> [Names -> JarRow \cup {NoJar}]]
      /\ \A pl \in Places, m \in Names :
            place'[pl][m] = IF pl = from /\ m = n THEN NoJar
                            ELSE IF pl = to /\ m = n THEN place[from][n] ELSE place[pl][m]
  <2> DEFINE mid == Put(place, to, n, place[from][n])
  <2>1. place \in [Places -> [Names -> JarRow \cup {NoJar}]]
    BY DEF JarsInv, JarsTypeOK
  <2>2. place[from][n] \in JarRow \cup {NoJar}
    BY <2>1
  <2>3. /\ mid \in [Places -> [Names -> JarRow \cup {NoJar}]]
        /\ \A pl \in Places, m \in Names :
              mid[pl][m] = IF pl = to /\ m = n THEN place[from][n] ELSE place[pl][m]
    BY <2>1, <2>2, PutFacts
  <2>4. place' = Put(mid, from, n, NoJar)
    BY DEF Move
  <2> HIDE DEF mid
  <2>5. /\ Put(mid, from, n, NoJar) \in [Places -> [Names -> JarRow \cup {NoJar}]]
        /\ \A pl \in Places, m \in Names :
              Put(mid, from, n, NoJar)[pl][m] = IF pl = from /\ m = n THEN NoJar ELSE mid[pl][m]
    BY <2>3, PutFacts
  <2>6. QED
    BY <2>3, <2>4, <2>5
<1>2. place[from][n].id \in (1 .. made) \ gone /\ (Has(to, n) => place[to][n].id \in (1 .. made) \ gone)
  BY DEF JarsInv, JarsCounted
<1>3. Has(to, n) => place[from][n].id # place[to][n].id
  BY DEF JarsInv, JarsOnce
<1>4. made \in Nat /\ gone \subseteq 1 .. made /\ gone' \subseteq 1 .. made
  BY <1>2 DEF JarsInv, JarsTypeOK
<1>5. JarsTypeOK'
  BY <1>1, <1>4 DEF JarsTypeOK
<1>6. \A pl \in Places, m \in Names :
         Has(pl, m)' => IF pl = to /\ m = n THEN place'[pl][m] = place[from][n]
                        ELSE place'[pl][m] = place[pl][m] /\ Has(pl, m) /\ ~(pl = from /\ m = n)
  BY <1>1 DEF Has
<1>7. JarsCounted'
  <2> SUFFICES ASSUME NEW pl \in Places, NEW m \in Names, Has(pl, m)'
      PROVE  place'[pl][m].id \in (1 .. made) \ gone'
    BY DEF JarsCounted
  <2>1. CASE pl = to /\ m = n
    BY <1>2, <1>3, <1>6, <2>1
  <2>2. CASE ~(pl = to /\ m = n)
    <3>1. place'[pl][m] = place[pl][m] /\ Has(pl, m)
      BY <1>6, <2>2
    <3>2. place[pl][m].id \in (1 .. made) \ gone
      BY <3>1 DEF JarsInv, JarsCounted
    <3>3. Has(to, n) => place[pl][m].id # place[to][n].id
      BY <2>2, <3>1 DEF JarsInv, JarsOnce
    <3>4. QED
      BY <3>1, <3>2, <3>3
  <2>3. QED
    BY <2>1, <2>2
<1>8. JarsOnce'
  <2> SUFFICES ASSUME NEW pl \in Places, NEW ql \in Places, NEW m \in Names, NEW o \in Names,
                      Has(pl, m)', Has(ql, o)', place'[pl][m].id = place'[ql][o].id
      PROVE  pl = ql /\ m = o
    BY DEF JarsOnce
  <2>1. CASE (pl = to /\ m = n) /\ ~(ql = to /\ o = n)
    BY <1>6, <2>1 DEF JarsInv, JarsOnce
  <2>2. CASE ~(pl = to /\ m = n) /\ (ql = to /\ o = n)
    BY <1>6, <2>2 DEF JarsInv, JarsOnce
  <2>3. CASE ~(pl = to /\ m = n) /\ ~(ql = to /\ o = n)
    BY <1>6, <2>3 DEF JarsInv, JarsOnce
  <2>4. QED
    BY <2>1, <2>2, <2>3
<1>9. JarsFound'
  <2> SUFFICES ASSUME NEW i \in (1 .. made) \ gone'
      PROVE  \E pl \in Places, m \in Names : Holds(pl, m, i)'
    BY DEF JarsFound
  <2>1. PICK pl \in Places, m \in Names : Holds(pl, m, i)
    BY DEF JarsInv, JarsFound
  <2>2. ~(pl = to /\ m = n)
    BY <2>1 DEF Holds
  <2>3. CASE pl = from /\ m = n
    <3>1. place'[to][n] = place[from][n]
      BY <1>1
    <3>2. QED
      BY <2>1, <2>3, <3>1 DEF Holds, Has
  <2>4. CASE ~(pl = from /\ m = n)
    <3>1. place'[pl][m] = place[pl][m]
      BY <1>1, <2>2, <2>4
    <3>2. QED
      BY <2>1, <3>1 DEF Holds, Has
  <2>5. QED
    BY <2>3, <2>4
<1>10. QED
  BY <1>5, <1>7, <1>8, <1>9 DEF JarsInv

(* A jar is removed, and counts as gone.                                    *)
LEMMA RemoveKeeps ==
    ASSUME JarsInv, NEW ql \in Places, NEW n \in Names, Has(ql, n), place' = Put(place, ql, n, NoJar),
           made' = made, gone' = gone \cup {place[ql][n].id}
    PROVE  JarsInv'
<1>1. place \in [Places -> [Names -> JarRow \cup {NoJar}]]
  BY DEF JarsInv, JarsTypeOK
<1>2. /\ place' \in [Places -> [Names -> JarRow \cup {NoJar}]]
      /\ \A pl \in Places, m \in Names :
            place'[pl][m] = IF pl = ql /\ m = n THEN NoJar ELSE place[pl][m]
  BY <1>1, PutFacts
<1>3. place[ql][n].id \in (1 .. made) \ gone
  BY DEF JarsInv, JarsCounted
<1>4. JarsTypeOK'
  BY <1>2, <1>3 DEF JarsInv, JarsTypeOK
<1>5. \A pl \in Places, m \in Names :
         Has(pl, m)' => place'[pl][m] = place[pl][m] /\ Has(pl, m) /\ ~(pl = ql /\ m = n)
  BY <1>2 DEF Has
<1>6. JarsCounted'
  <2> SUFFICES ASSUME NEW pl \in Places, NEW m \in Names, Has(pl, m)'
      PROVE  place'[pl][m].id \in (1 .. made) \ gone'
    BY DEF JarsCounted
  <2>1. place[pl][m].id \in (1 .. made) \ gone
    BY <1>5 DEF JarsInv, JarsCounted
  <2>2. place[pl][m].id # place[ql][n].id
    BY <1>5 DEF JarsInv, JarsOnce
  <2>3. QED
    BY <1>5, <2>1, <2>2
<1>7. JarsOnce'
  BY <1>5 DEF JarsInv, JarsOnce
<1>8. JarsFound'
  <2> SUFFICES ASSUME NEW i \in (1 .. made) \ gone'
      PROVE  \E pl \in Places, m \in Names : Holds(pl, m, i)'
    BY DEF JarsFound
  <2>1. PICK pl \in Places, m \in Names : Holds(pl, m, i)
    BY DEF JarsInv, JarsFound
  <2>2. ~(pl = ql /\ m = n)
    BY <2>1 DEF Holds
  <2>3. place'[pl][m] = place[pl][m]
    BY <1>2, <2>2
  <2>4. QED
    BY <2>1, <2>3 DEF Holds, Has
<1>9. QED
  BY <1>4, <1>6, <1>7, <1>8 DEF JarsInv

(* An archive is a sequence of jars, and not empty.                         *)
LEMMA ArchiveFacts ==
    \A zip \in Zips :
       /\ Len(zip) \in Nat /\ DOMAIN zip = 1 .. Len(zip) /\ 1 \in DOMAIN zip
       /\ \A k \in DOMAIN zip : zip[k].name \in Names /\ zip[k].defaults \in AllDefaults
<1> SUFFICES ASSUME NEW zip \in Zips
    PROVE  /\ Len(zip) \in Nat /\ DOMAIN zip = 1 .. Len(zip) /\ 1 \in DOMAIN zip
           /\ \A k \in DOMAIN zip : zip[k].name \in Names /\ zip[k].defaults \in AllDefaults
  OBVIOUS
<1> DEFINE R == {zip[k] : k \in DOMAIN zip}
<1>1. /\ zip \in Seq(R) /\ zip # <<>>
      /\ \A k \in DOMAIN zip : zip[k].name \in Names
  BY JarsAssumption
<1>2. \A k \in DOMAIN zip : zip[k].defaults \in AllDefaults
  BY DEF AllDefaults
<1> HIDE DEF R
<1>3. Len(zip) \in Nat /\ DOMAIN zip = 1 .. Len(zip) /\ Len(zip) # 0
  BY <1>1, EmptySeq
<1>4. QED
  BY <1>1, <1>2, <1>3

(* The jars that are written have names of their own, and none was there.   *)
LEMMA ExtractableFacts ==
    ASSUME NEW zip \in Zips, NEW pl \in Places, NEW last \in Nat, last <= Extractable(zip, pl)
    PROVE  \A k \in 1 .. last :
              /\ k \in DOMAIN zip /\ zip[k].name \in Names /\ ~Has(pl, zip[k].name)
              /\ \A j \in 1 .. last : zip[j].name = zip[k].name => j = k
<1> DEFINE Taken(k) == \/ place[pl][zip[k].name] # NoJar
                       \/ \E j \in 1 .. k - 1 : zip[j].name = zip[k].name
           B == {k \in DOMAIN zip : Taken(k)} \cup {Len(zip) + 1}
<1>1. /\ Len(zip) \in Nat /\ DOMAIN zip = 1 .. Len(zip)
      /\ \A k \in DOMAIN zip : zip[k].name \in Names
  BY ArchiveFacts
<1>2. Extractable(zip, pl) = Min(B) - 1
  BY DEF Extractable
<1>3. B \subseteq Nat /\ Len(zip) + 1 \in B
  BY <1>1
<1>4. \A k \in DOMAIN zip : k \notin B => ~Taken(k)
  OBVIOUS
<1> HIDE DEF Taken
<1>5. PICK least \in B : \A k \in B : least <= k
  <2> HIDE DEF B
  <2>1. B # {}
    BY <1>3
  <2>2. QED
    BY <1>3, <2>1, LeastNumber
<1>6. Min(B) \in B /\ \A k \in B : Min(B) <= k
  <2> HIDE DEF B
  <2>1. QED
    BY <1>5, Zenon DEF Min
<1> HIDE DEF B
<1>7. last + 1 <= Min(B) /\ Min(B) \in Nat /\ Min(B) <= Len(zip) + 1
  <2> DEFINE low == Min(B)
  <2>1. low \in B /\ \A k \in B : low <= k
    BY <1>6
  <2>2. last <= low - 1
    BY <1>2
  <2> HIDE DEF low
  <2>3. low \in Nat /\ low <= Len(zip) + 1
    BY <1>3, <2>1
  <2>4. last + 1 <= low
    BY <2>2, <2>3
  <2>5. QED
    BY <2>3, <2>4 DEF low
<1>8. \A k \in 1 .. last : k \in DOMAIN zip /\ ~Taken(k)
  <2> SUFFICES ASSUME NEW k \in 1 .. last PROVE k \in DOMAIN zip /\ ~Taken(k)
    OBVIOUS
  <2>1. k \in DOMAIN zip /\ ~(Min(B) <= k)
    BY <1>1, <1>7
  <2>2. k \notin B
    BY <1>6, <2>1
  <2>3. QED
    BY <1>4, <2>1, <2>2
<1>9. \A k \in 1 .. last : place[pl][zip[k].name] = NoJar
                           /\ \A j \in 1 .. k - 1 : zip[j].name # zip[k].name
  BY <1>8 DEF Taken
<1>10. \A j, k \in 1 .. last : zip[j].name = zip[k].name => j = k
  <2> SUFFICES ASSUME NEW j \in 1 .. last, NEW k \in 1 .. last, zip[j].name = zip[k].name, j # k
      PROVE  FALSE
    OBVIOUS
  <2>1. j \in 1 .. k - 1 \/ k \in 1 .. j - 1
    OBVIOUS
  <2>2. QED
    BY <1>9, <2>1
<1>11. QED
  BY <1>1, <1>8, <1>9, <1>10 DEF Has

(* An archive's jars are new.                                               *)
LEMMA WriteKeeps ==
    ASSUME JarsInv, NEW zip \in Zips, NEW ql \in Places, NEW n \in 0 .. Len(zip), NEW torn \in BOOLEAN,
           WriteJars(zip, ql, n, torn)
    PROVE  JarsInv'
<1> DEFINE last == IF torn THEN n + 1 ELSE n
           Jar(k) == [id |-> made + k, whole |-> k <= n, defaults |-> zip[k].defaults]
           Of(m) == {k \in 1 .. last : zip[k].name = m}
<1>1. Len(zip) \in Nat /\ DOMAIN zip = 1 .. Len(zip)
  BY ArchiveFacts
<1>2. n \in Nat /\ last \in Nat
  BY <1>1
<1>3. /\ last <= Extractable(zip, ql)
      /\ place' = [place EXCEPT ![ql] =
                      [m \in Names |-> IF Of(m) = {} THEN @[m] ELSE Jar(CHOOSE k \in Of(m) : TRUE)]]
      /\ made' = made + last /\ gone' = gone
  BY DEF WriteJars
<1>4. /\ place \in [Places -> [Names -> JarRow \cup {NoJar}]]
      /\ made \in Nat /\ gone \subseteq 1 .. made
  BY DEF JarsInv, JarsTypeOK
<1> HIDE DEF last
<1>5. \A k \in 1 .. last :
         /\ k \in DOMAIN zip /\ zip[k].name \in Names /\ ~Has(ql, zip[k].name)
         /\ \A j \in 1 .. last : zip[j].name = zip[k].name => j = k
  BY <1>2, <1>3, ExtractableFacts
<1>6. \A k \in 1 .. last : Jar(k) \in JarRow /\ Jar(k) # NoJar /\ Jar(k).id = made + k
  <2> SUFFICES ASSUME NEW k \in 1 .. last
      PROVE  Jar(k) \in JarRow /\ Jar(k) # NoJar /\ Jar(k).id = made + k
    OBVIOUS
  <2>1. zip[k].defaults \in AllDefaults
    BY <1>5 DEF AllDefaults
  <2>2. made + k \in Nat /\ (k <= n) \in BOOLEAN
    BY <1>2, <1>4
  <2>3. Jar(k) \in JarRow
    BY <2>1, <2>2 DEF JarRow
  <2>4. QED
    BY <2>3, JarsAssumption
<1> HIDE DEF Jar
<1>7. \A m \in Names : Of(m) # {} => (CHOOSE k \in Of(m) : TRUE) \in Of(m)
  OBVIOUS
<1>8. /\ place' \in [Places -> [Names -> JarRow \cup {NoJar}]]
      /\ \A pl \in Places, m \in Names :
            /\ pl # ql \/ Of(m) = {} => place'[pl][m] = place[pl][m]
            /\ pl = ql /\ Of(m) # {} => \E k \in 1 .. last : zip[k].name = m /\ place'[pl][m] = Jar(k)
  <2>1. \A m \in Names : Of(m) # {} => \E k \in 1 .. last : zip[k].name = m /\ k = (CHOOSE i \in Of(m) : TRUE)
    BY <1>7
  <2> DEFINE row == [m \in Names |-> IF Of(m) = {} THEN place[ql][m] ELSE Jar(CHOOSE k \in Of(m) : TRUE)]
  <2>2. place' = [place EXCEPT ![ql] = row]
    BY <1>3
  <2>3. row \in [Names -> JarRow \cup {NoJar}]
    BY <1>4, <1>6, <2>1
  <2>4. \A m \in Names :
           /\ Of(m) = {} => row[m] = place[ql][m]
           /\ Of(m) # {} => \E k \in 1 .. last : zip[k].name = m /\ row[m] = Jar(k)
    BY <2>1
  <2> HIDE DEF row
  <2>5. place'[ql] = row /\ \A pl \in Places \ {ql} : place'[pl] = place[pl]
    BY <1>4, <2>2
  <2>6. place' \in [Places -> [Names -> JarRow \cup {NoJar}]]
    BY <1>4, <2>2, <2>3
  <2>7. QED
    BY <2>4, <2>5, <2>6
<1>9. \A pl \in Places, m \in Names :
         Has(pl, m)' => \/ place'[pl][m] = place[pl][m] /\ Has(pl, m)
                        \/ \E k \in 1 .. last : pl = ql /\ zip[k].name = m /\ place'[pl][m] = Jar(k)
  BY <1>8 DEF Has
<1>10. \A pl \in Places, m \in Names : Has(pl, m) => place'[pl][m] = place[pl][m]
  <2> SUFFICES ASSUME NEW pl \in Places, NEW m \in Names, Has(pl, m) PROVE place'[pl][m] = place[pl][m]
    OBVIOUS
  <2>1. pl # ql \/ Of(m) = {}
    BY <1>5
  <2>2. QED
    BY <1>8, <2>1
<1>11. \A k \in 1 .. last : place'[ql][zip[k].name] = Jar(k)
  <2> SUFFICES ASSUME NEW k \in 1 .. last PROVE place'[ql][zip[k].name] = Jar(k)
    OBVIOUS
  <2>1. k \in Of(zip[k].name) /\ zip[k].name \in Names
    BY <1>5
  <2>2. PICK j \in 1 .. last : zip[j].name = zip[k].name /\ place'[ql][zip[k].name] = Jar(j)
    BY <1>8, <2>1
  <2>3. j = k
    BY <1>5, <2>2
  <2>4. QED
    BY <2>2, <2>3
<1> HIDE DEF Of
<1>12. JarsTypeOK'
  BY <1>2, <1>3, <1>4, <1>8 DEF JarsTypeOK
<1>13. \A k \in 1 .. last : made + k \in (1 .. made') \ gone'
  BY <1>2, <1>3, <1>4
<1>14. \A i \in (1 .. made) \ gone : i \in (1 .. made') \ gone'
  BY <1>2, <1>3, <1>4
<1>15. JarsCounted'
  <2> SUFFICES ASSUME NEW pl \in Places, NEW m \in Names, Has(pl, m)'
      PROVE  place'[pl][m].id \in (1 .. made') \ gone'
    BY DEF JarsCounted
  <2>1. CASE place'[pl][m] = place[pl][m] /\ Has(pl, m)
    BY <1>14, <2>1 DEF JarsInv, JarsCounted
  <2>2. CASE \E k \in 1 .. last : pl = ql /\ zip[k].name = m /\ place'[pl][m] = Jar(k)
    BY <1>6, <1>13, <2>2
  <2>3. QED
    BY <1>9, <2>1, <2>2
<1>16. JarsOnce'
  <2> DEFINE Old(pl, m) == place'[pl][m] = place[pl][m] /\ Has(pl, m)
             New(pl, m) == \E k \in 1 .. last : pl = ql /\ zip[k].name = m /\ place'[pl][m] = Jar(k)
  <2>1. \A pl \in Places, m \in Names : Old(pl, m) => place'[pl][m].id \in 1 .. made
    BY DEF JarsInv, JarsCounted
  <2>2. \A pl \in Places, m \in Names :
           New(pl, m) => \E k \in 1 .. last : pl = ql /\ zip[k].name = m /\ place'[pl][m].id = made + k
    BY <1>6
  <2>3. \A pl \in Places, m \in Names : New(pl, m) => place'[pl][m].id \notin 1 .. made
    BY <1>2, <1>4, <2>2
  <2>4. \A pl, rl \in Places, m, o \in Names :
           Old(pl, m) /\ Old(rl, o) /\ place'[pl][m].id = place'[rl][o].id => pl = rl /\ m = o
    BY DEF JarsInv, JarsOnce
  <2>5. \A pl, rl \in Places, m, o \in Names :
           New(pl, m) /\ New(rl, o) /\ place'[pl][m].id = place'[rl][o].id => pl = rl /\ m = o
    <3> SUFFICES ASSUME NEW pl \in Places, NEW rl \in Places, NEW m \in Names, NEW o \in Names,
                        New(pl, m), New(rl, o), place'[pl][m].id = place'[rl][o].id
        PROVE  pl = rl /\ m = o
      OBVIOUS
    <3> HIDE DEF New
    <3>1. PICK j \in 1 .. last : pl = ql /\ zip[j].name = m /\ place'[pl][m].id = made + j
      BY <2>2
    <3>2. PICK k \in 1 .. last : rl = ql /\ zip[k].name = o /\ place'[rl][o].id = made + k
      BY <2>2
    <3>3. j = k
      BY <1>2, <1>4, <3>1, <3>2
    <3>4. QED
      BY <3>1, <3>2, <3>3
  <2>6. \A pl \in Places, m \in Names : Has(pl, m)' => Old(pl, m) \/ New(pl, m)
    BY <1>9
  <2> HIDE DEF Old, New
  <2>7. QED
    BY <2>1, <2>3, <2>4, <2>5, <2>6 DEF JarsOnce
<1>17. JarsFound'
  <2> SUFFICES ASSUME NEW i \in (1 .. made') \ gone'
      PROVE  \E pl \in Places, m \in Names : Holds(pl, m, i)'
    BY DEF JarsFound
  <2>1. CASE i <= made
    <3>1. i \in (1 .. made) \ gone
      BY <1>3, <1>4, <2>1
    <3>2. PICK pl \in Places, m \in Names : Holds(pl, m, i)
      BY <3>1 DEF JarsInv, JarsFound
    <3>3. QED
      BY <1>10, <3>2 DEF Holds, Has
  <2>2. CASE i > made
    <3>1. PICK k \in 1 .. last : i = made + k
      <4>1. i - made \in 1 .. last /\ i = made + (i - made)
        BY <1>2, <1>3, <1>4, <2>2
      <4>2. QED
        BY <4>1
    <3>2. zip[k].name \in Names /\ place'[ql][zip[k].name] = Jar(k) /\ Jar(k) # NoJar /\ Jar(k).id = i
      BY <1>5, <1>6, <1>11, <3>1
    <3>3. Holds(ql, zip[k].name, i)'
      BY <3>2 DEF Holds, Has
    <3>4. QED
      BY <3>2, <3>3
  <2>3. QED
    BY <1>2, <1>3, <1>4, <2>1, <2>2
<1>18. QED
  BY <1>12, <1>15, <1>16, <1>17 DEF JarsInv

(* Every job keeps every jar in one place.                                  *)
LEMMA JarsStep == JarsInv /\ [JarsNext]_jarVars => JarsInv'
<1> SUFFICES ASSUME JarsInv, [JarsNext]_jarVars PROVE JarsInv'
  OBVIOUS
<1>1. ASSUME NEW n \in Names, NEW hint \in Hints, NEW force \in BOOLEAN, RestoreMod(n, hint, force)
      PROVE  JarsInv'
  <2> DEFINE kind == FindMod("quarantine", n, hint)
  <2>1. /\ kind # "" /\ made' = made
        /\ gone' = IF Has(Active(kind), n) THEN gone \cup {place[Active(kind)][n].id} ELSE gone
        /\ \/ Move(Quarantine(kind), Active(kind), n)
           \/ Has(Active(kind), n) /\ place' = Put(place, Active(kind), n, NoJar)
    BY <1>1 DEF RestoreMod, Has
  <2>2. kind \in Kinds /\ Has(Quarantine(kind), n)
    BY <2>1, FoundMod DEF Quarantine, Has
  <2> HIDE DEF kind
  <2>3. Active(kind) \in Places /\ Quarantine(kind) \in Places /\ Active(kind) # Quarantine(kind)
    BY <2>2, PlaceFacts
  <2>4. CASE Move(Quarantine(kind), Active(kind), n)
    BY <2>1, <2>2, <2>3, <2>4, MoveKeeps
  <2>5. CASE Has(Active(kind), n) /\ place' = Put(place, Active(kind), n, NoJar)
    BY <2>1, <2>3, <2>5, RemoveKeeps
  <2>6. QED
    BY <2>1, <2>4, <2>5
<1>2. ASSUME NEW n \in Names, NEW pl \in Places, Discard(pl, n) PROVE JarsInv'
  BY <1>2, RemoveKeeps DEF Discard, Has
<1>3. ASSUME NEW n \in Names, NEW hint \in Hints, NEW source \in {"active", "quarantine", "pending"},
             DeleteMod(n, source, hint)
      PROVE  JarsInv'
  <2>1. CASE source = "pending" /\ Discard(Pending, n)
    BY <1>2, <2>1, PlaceFacts
  <2>2. CASE /\ source \in {"active", "quarantine"} /\ FindMod(source, n, hint) # ""
             /\ Discard(<<source, FindMod(source, n, hint)>>, n)
    <3>1. <<source, FindMod(source, n, hint)>> \in Places
      BY <2>2, FoundMod, PlaceFacts
    <3>2. QED
      BY <1>2, <2>2, <3>1
  <2>3. QED
    BY <1>3, <2>1, <2>2 DEF DeleteMod
<1>4. ASSUME NEW n \in Names, RejectPendingMod(n) PROVE JarsInv'
  BY <1>2, <1>4, PlaceFacts DEF RejectPendingMod
<1>5. ASSUME NEW n \in Names, NEW kind \in Kinds, ApprovePendingMod(n, kind) PROVE JarsInv'
  <2>1. /\ Has(Pending, n) /\ ~Has(Active(kind), n) /\ Move(Pending, Active(kind), n)
        /\ made' = made /\ gone' = gone
    BY <1>5 DEF ApprovePendingMod, Has
  <2>2. Pending \in Places /\ Active(kind) \in Places /\ Active(kind) # Pending
    BY PlaceFacts
  <2>3. QED
    BY <2>1, <2>2, MoveKeeps
<1>6. ASSUME NEW n \in Names, NEW hint \in Hints, QuarantineJar(n, hint) PROVE JarsInv'
  <2> DEFINE kind == FindMod("active", n, hint)
  <2>1. /\ kind # "" /\ ~Has(Quarantine(kind), n) /\ Move(Active(kind), Quarantine(kind), n)
        /\ made' = made /\ gone' = gone
    BY <1>6 DEF QuarantineJar, Has
  <2>2. kind \in Kinds /\ Has(Active(kind), n)
    BY <2>1, FoundMod DEF Active, Has
  <2> HIDE DEF kind
  <2>3. Active(kind) \in Places /\ Quarantine(kind) \in Places /\ Active(kind) # Quarantine(kind)
    BY <2>2, PlaceFacts
  <2>4. QED
    BY <2>1, <2>2, <2>3, MoveKeeps
<1>7. ASSUME NEW zip \in Zips, NEW pl \in UploadPlaces, NEW n \in 0 .. Len(zip), NEW torn \in BOOLEAN,
             WriteJars(zip, pl, n, torn)
      PROVE  JarsInv'
  BY <1>7, PlaceFacts, WriteKeeps
<1>8. ASSUME UNCHANGED jarVars PROVE JarsInv'
  BY <1>8 DEF JarsInv, JarsTypeOK, JarsCounted, JarsOnce, JarsFound, Holds, Has, jarVars
<1>9. QED
  BY <1>1, <1>3, <1>4, <1>5, <1>6, <1>7, <1>8 DEF JarsNext, JarJob

(* At the start there are two jars: one active, one in the quarantine.      *)
LEMMA JarsStart == JarsInit => JarsInv
<1> SUFFICES ASSUME NEW zip \in Zips, JarsFrom(zip) PROVE JarsInv
  BY DEF JarsInit
<1> DEFINE jar(i, d) == [id |-> i, whole |-> TRUE, defaults |-> d]
           first == zip[1]
<1>1. first.name \in Names /\ first.defaults \in AllDefaults /\ NoFiles \in AllDefaults
  <2>1. 1 \in DOMAIN zip
    BY ArchiveFacts
  <2>2. first.name \in Names /\ first.defaults \in AllDefaults
    BY <2>1, ArchiveFacts
  <2>3. QED
    BY <2>2 DEF AllDefaults
<1>2. /\ made = 2 /\ gone = {}
      /\ place = [pl \in Places |-> [m \in Names |->
                   CASE pl = Active("mods") /\ m = FirstJar -> jar(1, NoFiles)
                     [] pl = Quarantine("mods") /\ m = first.name -> jar(2, first.defaults)
                     [] OTHER -> NoJar]]
  BY DEF JarsFrom
<1>3. Active("mods") \in Places /\ Quarantine("mods") \in Places /\ Active("mods") # Quarantine("mods")
  BY PlaceFacts DEF Kinds
<1>4. /\ jar(1, NoFiles) \in JarRow /\ jar(1, NoFiles) # NoJar
      /\ jar(2, first.defaults) \in JarRow /\ jar(2, first.defaults) # NoJar
  <2>1. jar(1, NoFiles) \in JarRow /\ jar(2, first.defaults) \in JarRow
    BY <1>1 DEF JarRow
  <2>2. QED
    BY <2>1, JarsAssumption
<1>5. jar(1, NoFiles).id = 1 /\ jar(2, first.defaults).id = 2
  OBVIOUS
<1> HIDE DEF jar, first
<1>6. \A pl \in Places, m \in Names :
         place[pl][m] = IF pl = Active("mods") /\ m = FirstJar THEN jar(1, NoFiles)
                        ELSE IF pl = Quarantine("mods") /\ m = first.name THEN jar(2, first.defaults)
                        ELSE NoJar
  BY <1>2, <1>3
<1>7. place \in [Places -> [Names -> JarRow \cup {NoJar}]]
  BY <1>2, <1>3, <1>4
<1>8. \A pl \in Places, m \in Names :
         Has(pl, m) => \/ pl = Active("mods") /\ m = FirstJar /\ place[pl][m].id = 1
                       \/ pl = Quarantine("mods") /\ m = first.name /\ place[pl][m].id = 2
  BY <1>5, <1>6 DEF Has
<1>9. Holds(Active("mods"), FirstJar, 1) /\ Holds(Quarantine("mods"), first.name, 2)
  BY <1>1, <1>3, <1>4, <1>5, <1>6, JarsAssumption DEF Holds, Has
<1>10. JarsTypeOK
  BY <1>2, <1>7 DEF JarsTypeOK
<1>11. JarsCounted /\ JarsOnce
  BY <1>2, <1>8 DEF JarsCounted, JarsOnce
<1>12. JarsFound
  <2> SUFFICES ASSUME NEW i \in (1 .. made) \ gone PROVE \E pl \in Places, m \in Names : Holds(pl, m, i)
    BY DEF JarsFound
  <2>1. i = 1 \/ i = 2
    BY <1>2
  <2>2. QED
    BY <1>1, <1>3, <1>9, <2>1, JarsAssumption
<1>13. QED
  BY <1>10, <1>11, <1>12 DEF JarsInv

(* In every state each jar that was ever written is in exactly one directory,*)
(* or was deleted, rejected or overridden, for any archives, names and jobs. *)
THEOREM JarsAreKept == JarsSpec => []JarsKept
<1>1. JarsInv => JarsKept
  <2> SUFFICES ASSUME JarsInv, NEW i \in 1 .. made,
                      NEW at, at = {w \in Places \X Names :
                                      place[w[1]][w[2]] # NoJar /\ place[w[1]][w[2]].id = i}
      PROVE  IF i \in gone THEN at = {} ELSE Cardinality(at) = 1
    BY DEF JarsKept
  <2>1. \A w \in at : /\ w[1] \in Places /\ w[2] \in Names /\ Has(w[1], w[2])
                      /\ place[w[1]][w[2]].id = i /\ w = <<w[1], w[2]>>
    BY DEF Has
  <2>2. CASE i \in gone
    <3>1. \A w \in at : FALSE
      BY <2>1, <2>2 DEF JarsInv, JarsCounted
    <3>2. QED
      BY <2>2, <3>1
  <2>3. CASE i \notin gone
    <3>1. PICK pl \in Places, n \in Names : Holds(pl, n, i)
      BY <2>3 DEF JarsInv, JarsFound
    <3>2. <<pl, n>> \in at
      BY <3>1 DEF Holds, Has
    <3>3. \A w \in at : w = <<pl, n>>
      BY <2>1, <3>1 DEF JarsInv, JarsOnce, Holds
    <3>4. at = {<<pl, n>>}
      BY <3>2, <3>3
    <3>5. QED
      BY <2>3, <3>4, FS_Singleton
  <2>4. QED
    BY <2>2, <2>3
<1>2. QED
  BY <1>1, JarsStart, JarsStep, PTL DEF JarsSpec

=============================================================================
