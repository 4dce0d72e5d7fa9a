----------------------------- MODULE Scheduler -----------------------------
(***************************************************************************)
(* One cron schedule (control-plane/src/scheduler/scheduler.service.ts):   *)
(* its row, the delayed fires of the BullMQ queue "scheduler", the worker  *)
(* that processes a fire and adds the next one, hydration at start-up, and *)
(* the requests that edit the row.  Every await is a point where the row   *)
(* may change under the handler, and where the process may die.            *)
(*                                                                         *)
(* Time is counted in minutes, the grain of a cron expression.  A fire is  *)
(* named by its time, as its jobId is.  The row's telemetry (lastRunAt,    *)
(* lastRunStatus, the counters) is left out.                               *)
(***************************************************************************)
EXTENDS Integers, FiniteSets, TLAPS

CONSTANTS
    Horizon,     \* bound on the clock
    Crons,       \* cron expressions a schedule may have
    Occ,         \* Occ[c]: the minutes up to Horizon at which c occurs
    Admins,      \* requests that edit the schedule, served at once
    Edits,       \* what an update may change: a cron or a job type to set,
                 \* "enable", "disable", or "name" for anything else
    MaxEdits,    \* bound on edit requests
    Faulty,      \* where in its handler a call may throw
    MaxFailures  \* bound on calls that throw and on deaths of the process

JobTypes == {"restart", "backup"}
Later == Horizon + 1          \* stands for every occurrence after Horizon
Times == 1..Later

FirePc == {"off", "read", "skip", "busy", "skipBusy", "create", "enqueue", "write",
           "next", "nextAfterSkip", "catch", "nextAfterCatch"}
\* Inside the try block of processScheduleFire.
TryBlock == {"create", "enqueue", "write", "next"}

ASSUME SchedulerAssumption ==
    /\ Horizon \in Nat
    /\ Occ \in [Crons -> SUBSET (1..Horizon)]
    /\ Edits \subseteq Crons \cup JobTypes \cup {"enable", "disable", "name"}
    /\ Faulty \subseteq FirePc \ {"off"}
    /\ MaxEdits \in Nat /\ MaxFailures \in Nat

VARIABLES
    clock,       \* minutes since the start
    up,          \* whether the control plane runs
    row,         \* the Schedule row
    fire,        \* the scheduler queue's job of each time
    stalls,      \* how often the queue took a fire back from a dead worker
    pc,          \* where processScheduleFire is for each fire
    seen,        \* the cron and the job type it read
    nxt,         \* the next run it computed
    hyd,         \* where hydrateSchedules is
    hydNext,     \* the next run it computed
    admin,       \* the edit requests in progress
    waiting,     \* runs of the schedule pending or running, per job type
    stuck,       \* pending runs of the schedule that were never queued
    overlapped,  \* whether two fires were ever processed at once
    lost,        \* since the last start the next fire was lost: a call threw outside
                 \* the try block, or a request's fire was one the queue had finished
    edits, failures

fireVars == <<fire, stalls, pc, seen, nxt>>
runVars == <<waiting, stuck>>
histVars == <<overlapped, lost>>
boundVars == <<edits, failures>>
vars == <<clock, up, row, fireVars, hyd, hydNext, admin, runVars, histVars, boundVars>>

Unseen == [cron |-> CHOOSE c \in Crons : TRUE, type |-> "restart"]
Idle == [pc |-> "off"]

\* Mutant: the present minute counts as an occurrence.
ComputeNextRun_Inclusive(c, from) ==
    CHOOSE t \in Occ[c] \cup {Later} :
        t >= from /\ \A u \in Occ[c] \cup {Later} : u >= from => t <= u

\* computeNextRun: the first occurrence after from.
ComputeNextRun(c, from) ==
    CHOOSE t \in Occ[c] \cup {Later} :
        t > from /\ \A u \in Occ[c] \cup {Later} : u > from => t <= u

Init ==
    /\ clock = 0
    /\ up = TRUE
    /\ row = [state |-> "absent", enabled |-> FALSE, cron |-> Unseen.cron,
              type |-> Unseen.type, next |-> Later, skip |-> FALSE]
    /\ fire = [t \in Times |-> "none"]
    /\ stalls = [t \in Times |-> 0]
    /\ pc = [t \in Times |-> "off"]
    /\ seen = [t \in Times |-> Unseen]
    /\ nxt = [t \in Times |-> Later]
    /\ hyd = "off"
    /\ hydNext = Later
    /\ admin = [a \in Admins |-> Idle]
    /\ waiting = [y \in JobTypes |-> 0]
    /\ stuck = [y \in JobTypes |-> 0]
    /\ overlapped = FALSE /\ lost = FALSE
    /\ edits = 0 /\ failures = 0

Live == row.state = "live"

\* schedulerQueue.add: a jobId the queue knows, even a finished one, is ignored.
AddFire(t) == fire' = [fire EXCEPT ![t] = IF @ = "none" THEN "delayed" ELSE @]

-----------------------------------------------------------------------------
(* processScheduleFire                                                     *)

At(t, p) == up /\ pc[t] = p

Goto(t, p) == pc' = [pc EXCEPT ![t] = p]

\* The worker takes a fire whose delay is over (up to five at once).
Begin(t) ==
    /\ up
    /\ fire[t] = "delayed"
    /\ t <= clock
    /\ Cardinality({u \in Times : pc[u] # "off"}) < 5
    /\ fire' = [fire EXCEPT ![t] = "active"]
    /\ Goto(t, "read")
    /\ overlapped' = (overlapped \/ \E u \in Times : pc[u] # "off")
    /\ UNCHANGED <<clock, up, row, stalls, seen, nxt, hyd, hydNext, admin, runVars, lost,
                   boundVars>>

Ends(t) ==
    /\ Goto(t, "off")
    /\ seen' = [seen EXCEPT ![t] = Unseen]
    /\ nxt' = [nxt EXCEPT ![t] = Later]
    /\ UNCHANGED stalls

\* findUnique; a fire of a deleted or disabled schedule ends here.
ReadSchedule(t) ==
    /\ At(t, "read")
    /\ IF ~Live \/ ~row.enabled
       THEN /\ fire' = [fire EXCEPT ![t] = "done"]
            /\ Ends(t)
       ELSE /\ seen' = [seen EXCEPT ![t] = [cron |-> row.cron, type |-> row.type]]
            /\ Goto(t, IF row.skip /\ row.type = "restart" THEN "skip" ELSE "busy")
            /\ UNCHANGED <<fire, stalls, nxt>>
    /\ UNCHANGED <<clock, up, row, hyd, hydNext, admin, runVars, histVars, boundVars>>

\* The skip request is consumed and the next run noted.
SkipRun(t) ==
    /\ At(t, "skip")
    /\ Live
    /\ nxt' = [nxt EXCEPT ![t] = ComputeNextRun(seen[t].cron, clock)]
    /\ row' = [row EXCEPT !.next = nxt'[t], !.skip = FALSE]
    /\ Goto(t, "nextAfterSkip")
    /\ UNCHANGED <<clock, up, fire, stalls, seen, hyd, hydNext, admin, runVars,
                   histVars, boundVars>>

\* Mutant: periodic work is stacked.
CheckBusy_Never(t) ==
    /\ At(t, "busy")
    /\ Goto(t, "create")
    /\ UNCHANGED <<clock, up, row, fire, stalls, seen, nxt, hyd, hydNext, admin, runVars,
                   histVars, boundVars>>

\* A run of the previous occurrence that still waits or runs, of this type.
CheckBusy(t) ==
    /\ At(t, "busy")
    /\ Goto(t, IF waiting[seen[t].type] + stuck[seen[t].type] > 0 THEN "skipBusy" ELSE "create")
    /\ UNCHANGED <<clock, up, row, fire, stalls, seen, nxt, hyd, hydNext, admin, runVars,
                   histVars, boundVars>>

NoteNext(t, p, q) ==
    /\ At(t, p)
    /\ Live
    /\ nxt' = [nxt EXCEPT ![t] = ComputeNextRun(seen[t].cron, clock)]
    /\ row' = [row EXCEPT !.next = nxt'[t]]
    /\ Goto(t, q)
    /\ UNCHANGED <<clock, up, fire, stalls, seen, hyd, hydNext, admin, runVars, histVars,
                   boundVars>>

SkipBusy(t) == NoteNext(t, "skipBusy", "nextAfterSkip")

\* job.create and jobRun.create.
CreateRun(t) ==
    /\ At(t, "create")
    /\ stuck' = [stuck EXCEPT ![seen[t].type] = @ + 1]
    /\ Goto(t, "enqueue")
    /\ UNCHANGED <<clock, up, row, fire, stalls, seen, nxt, hyd, hydNext, admin, waiting,
                   histVars, boundVars>>

EnqueueRun(t) ==
    /\ At(t, "enqueue")
    /\ stuck' = [stuck EXCEPT ![seen[t].type] = @ - 1]
    /\ waiting' = [waiting EXCEPT ![seen[t].type] = @ + 1]
    /\ Goto(t, "write")
    /\ UNCHANGED <<clock, up, row, fire, stalls, seen, nxt, hyd, hydNext, admin, histVars,
                   boundVars>>

NoteRun(t) == NoteNext(t, "write", "next")

NoteFailure(t) == NoteNext(t, "catch", "nextAfterCatch")

\* The next fire is added, and this one ends (failed, after a catch).
AddNext(t) ==
    /\ up
    /\ pc[t] \in {"next", "nextAfterSkip", "nextAfterCatch"}
    /\ fire' = [fire EXCEPT ![nxt[t]] = IF @ = "none" THEN "delayed" ELSE @, ![t] = "done"]
    /\ Ends(t)
    /\ UNCHANGED <<clock, up, row, hyd, hydNext, admin, runVars, histVars, boundVars>>

\* A call throws: inside the try block the handler goes to the catch block,
\* elsewhere the fire fails (handleWorkerFailure only counts it).
Throw(t) ==
    /\ IF pc[t] \in TryBlock
       THEN /\ Goto(t, "catch")
            /\ nxt' = [nxt EXCEPT ![t] = Later]
            /\ UNCHANGED <<fire, stalls, seen, lost>>
       ELSE /\ fire' = [fire EXCEPT ![t] = "done"]
            /\ Ends(t)
            /\ lost' = TRUE
    /\ UNCHANGED <<clock, up, row, hyd, hydNext, admin, runVars, overlapped, edits>>

CallFails(t) ==
    /\ up
    /\ pc[t] \in Faulty
    /\ failures < MaxFailures
    /\ failures' = failures + 1
    /\ Throw(t)

\* schedule.update throws when the row is gone.
RowGone(t) ==
    /\ up
    /\ ~Live
    /\ pc[t] \in {"skip", "skipBusy", "write", "catch"}
    /\ Throw(t)
    /\ UNCHANGED failures

-----------------------------------------------------------------------------
(* hydrateSchedules, and the death of the process                          *)

Crash ==
    /\ up
    /\ failures < MaxFailures
    /\ failures' = failures + 1
    /\ up' = FALSE
    /\ pc' = [t \in Times |-> "off"]
    /\ seen' = [t \in Times |-> Unseen]
    /\ nxt' = [t \in Times |-> Later]
    /\ hyd' = "off"
    /\ hydNext' = Later
    /\ admin' = [a \in Admins |-> Idle]
    /\ UNCHANGED <<clock, row, fire, stalls, runVars, histVars, edits>>

Start ==
    /\ ~up
    /\ up' = TRUE
    /\ hyd' = "read"
    /\ lost' = FALSE
    /\ UNCHANGED <<clock, row, fireVars, hydNext, admin, runVars, overlapped, boundVars>>

\* The queue takes a fire back from a worker that died, once.
Stall(t) ==
    /\ up
    /\ fire[t] = "active"
    /\ pc[t] = "off"
    /\ fire' = [fire EXCEPT ![t] = IF stalls[t] = 0 THEN "delayed" ELSE "done"]
    /\ stalls' = [stalls EXCEPT ![t] = @ + 1]
    /\ UNCHANGED <<clock, up, row, pc, seen, nxt, hyd, hydNext, admin, runVars, histVars,
                   boundVars>>

HydrateRead ==
    /\ up
    /\ hyd = "read"
    /\ IF Live /\ row.enabled
       THEN hydNext' = ComputeNextRun(row.cron, clock) /\ hyd' = "add"
       ELSE hydNext' = Later /\ hyd' = "off"
    /\ UNCHANGED <<clock, up, row, fireVars, admin, runVars, histVars, boundVars>>

HydrateAdd ==
    /\ up
    /\ hyd = "add"
    /\ AddFire(hydNext)
    /\ hyd' = "write"
    /\ UNCHANGED <<clock, up, row, stalls, pc, seen, nxt, hydNext, admin, runVars, histVars,
                   boundVars>>

\* The update of a row that is gone throws, which onModuleInit swallows.
HydrateWrite ==
    /\ up
    /\ hyd = "write"
    /\ row' = IF Live THEN [row EXCEPT !.next = hydNext] ELSE row
    /\ hyd' = "off"
    /\ hydNext' = Later
    /\ UNCHANGED <<clock, up, fireVars, admin, runVars, histVars, boundVars>>

-----------------------------------------------------------------------------
(* Requests                                                                *)

Request(a, r) == admin' = [admin EXCEPT ![a] = r]

\* The server listens only when onModuleInit has ended.
Edit(a) ==
    /\ up
    /\ hyd = "off"
    /\ admin[a] = Idle
    /\ edits < MaxEdits
    /\ edits' = edits + 1

\* createSchedule: the row is inserted, its first fire added next.
CreateSchedule(a, c, enabled) ==
    /\ Edit(a)
    /\ row.state = "absent"
    /\ row' = [state |-> "live", enabled |-> enabled, cron |-> c, type |-> "restart",
               next |-> ComputeNextRun(c, clock), skip |-> FALSE]
    /\ Request(a, IF enabled THEN [pc |-> "add", add |-> row'.next] ELSE Idle)
    /\ UNCHANGED <<clock, up, fireVars, hyd, hydNext, runVars, histVars, failures>>

\* updateSchedule reads the row; a new cron gets its next run at once.
UpdateRead(a, change) ==
    /\ Edit(a)
    /\ Live
    /\ Request(a, [pc |-> "write", change |-> change, old |-> row.next,
                   new |-> IF change \in Crons THEN ComputeNextRun(change, clock) ELSE row.next])
    /\ UNCHANGED <<clock, up, row, fireVars, hyd, hydNext, runVars, histVars, failures>>

Changed(r, change, new) ==
    IF change \in Crons THEN [r EXCEPT !.cron = change, !.next = new]
    ELSE IF change \in JobTypes THEN [r EXCEPT !.type = change]
    ELSE IF change = "enable" THEN [r EXCEPT !.enabled = TRUE]
    ELSE IF change = "disable" THEN [r EXCEPT !.enabled = FALSE]
    ELSE r

\* The update throws when the row is gone; it returns the row as it is now.
UpdateWrite(a) ==
    /\ up
    /\ admin[a].pc = "write"
    /\ IF Live
       THEN /\ row' = Changed(row, admin[a].change, admin[a].new)
            /\ Request(a, [pc |-> "remove", old |-> admin[a].old,
                           add |-> IF row'.enabled THEN row'.next ELSE 0])
       ELSE /\ Request(a, Idle)
            /\ UNCHANGED row
    /\ UNCHANGED <<clock, up, fireVars, hyd, hydNext, runVars, histVars, boundVars>>

\* The fire known when the row was read is removed, unless it is being processed.
UpdateRemove(a) ==
    /\ up
    /\ admin[a].pc = "remove"
    /\ fire' = [fire EXCEPT ![admin[a].old] = IF @ = "active" THEN @ ELSE "none"]
    /\ Request(a, IF admin[a].add = 0 THEN Idle ELSE [pc |-> "add", add |-> admin[a].add])
    /\ UNCHANGED <<clock, up, row, stalls, pc, seen, nxt, hyd, hydNext, runVars, histVars,
                   boundVars>>

\* createSchedule and updateSchedule end by adding the fire.
RequestAdds(a) ==
    /\ up
    /\ admin[a].pc = "add"
    /\ AddFire(admin[a].add)
    /\ Request(a, Idle)
    /\ lost' = (lost \/ fire[admin[a].add] = "done")
    /\ UNCHANGED <<clock, up, row, stalls, pc, seen, nxt, hyd, hydNext, runVars, overlapped,
                   boundVars>>

\* deleteSchedule removes the row only.
DeleteSchedule(a) ==
    /\ Edit(a)
    /\ Live
    /\ row' = [row EXCEPT !.state = "deleted"]
    /\ UNCHANGED <<clock, up, fireVars, hyd, hydNext, admin, runVars, histVars, failures>>

\* skipNextAutoRestart finds the schedule, and sets the flag in a second call.
SkipRead(a) ==
    /\ Edit(a)
    /\ Live
    /\ row.enabled /\ row.type = "restart" /\ row.next >= clock /\ ~row.skip
    /\ Request(a, [pc |-> "skip"])
    /\ UNCHANGED <<clock, up, row, fireVars, hyd, hydNext, runVars, histVars, failures>>

SkipWrite(a) ==
    /\ up
    /\ admin[a].pc = "skip"
    /\ IF Live
       THEN row' = [row EXCEPT !.skip = TRUE]
       ELSE UNCHANGED row
    /\ Request(a, Idle)
    /\ UNCHANGED <<clock, up, fireVars, hyd, hydNext, runVars, histVars, boundVars>>

-----------------------------------------------------------------------------

\* A queued run is executed and reported (the job pipeline, JobSystem).
RunSettles(y) ==
    /\ waiting[y] > 0
    /\ waiting' = [waiting EXCEPT ![y] = @ - 1]
    /\ UNCHANGED <<clock, up, row, fireVars, hyd, hydNext, admin, stuck, histVars, boundVars>>

Tick ==
    /\ clock < Horizon
    /\ clock' = clock + 1
    /\ UNCHANGED <<up, row, fireVars, hyd, hydNext, admin, runVars, histVars, boundVars>>

FireStep(t) ==
    \/ Begin(t) \/ ReadSchedule(t) \/ SkipRun(t) \/ CheckBusy(t) \/ SkipBusy(t)
    \/ CreateRun(t) \/ EnqueueRun(t) \/ NoteRun(t) \/ NoteFailure(t) \/ AddNext(t)
    \/ RowGone(t) \/ Stall(t)

AdminStep(a) == UpdateWrite(a) \/ UpdateRemove(a) \/ RequestAdds(a) \/ SkipWrite(a)

NewRequest(a) ==
    \/ \E c \in Crons, e \in BOOLEAN : CreateSchedule(a, c, e)
    \/ \E x \in Edits : UpdateRead(a, x)
    \/ DeleteSchedule(a)
    \/ SkipRead(a)

Next ==
    \/ \E t \in Times : FireStep(t) \/ CallFails(t)
    \/ \E a \in Admins : AdminStep(a) \/ NewRequest(a)
    \/ \E y \in JobTypes : RunSettles(y)
    \/ Crash \/ Start \/ HydrateRead \/ HydrateAdd \/ HydrateWrite \/ Tick

Spec == Init /\ [][Next]_vars

\* Time passes, the worker and the handlers of a living process go on, and the
\* service manager starts a dead one.  No request has to be made, no queued
\* run has to settle.
Fairness ==
    /\ WF_vars(Tick) /\ WF_vars(Start)
    /\ WF_vars(HydrateRead \/ HydrateAdd \/ HydrateWrite)
    /\ \A t \in Times : WF_vars(FireStep(t))
    /\ \A a \in Admins : WF_vars(AdminStep(a))

FairSpec == Spec /\ Fairness

-----------------------------------------------------------------------------
(* Properties                                                              *)

\* "Do not stack periodic work while the previous occurrence still waits or
\* runs": unless two fires of the schedule were processed at once, at most one
\* of its runs of a type is pending or running, whatever crashes in between.
NoStacking ==
    ~overlapped => \A y \in JobTypes : waiting[y] + stuck[y] <= 1

\* An enabled schedule goes on firing until the clock stops, through edits, deaths
\* of the process and calls that throw.  Two things end it until the next start, when
\* hydration heals it: a call of processScheduleFire that throws outside the try block
\* (the first read, the notes of a skipped run, the catch block itself), and an update
\* that adds a fire the worker has finished with meanwhile, which the queue ignores.
KeepsRunning ==
    Live /\ row.enabled ~> ~Live \/ ~row.enabled \/ lost \/ fire[Later] # "none"
-----------------------------------------------------------------------------
(* Proofs                                                                  *)

SchedulerTypeOK ==
    /\ waiting \in [JobTypes -> Int] /\ stuck \in [JobTypes -> Int]
    /\ overlapped \in BOOLEAN
    /\ "type" \in DOMAIN row /\ row.type \in JobTypes
    /\ pc \in [Times -> FirePc]
    /\ DOMAIN seen = Times /\ \A t \in Times : seen[t].type \in JobTypes

\* The one fire in progress finds nothing queued, and then has one run of its own.
OneFire ==
    ~overlapped =>
        /\ \A t, u \in Times : pc[t] # "off" /\ pc[u] # "off" => t = u
        /\ \A y \in JobTypes : waiting[y] >= 0 /\ stuck[y] >= 0 /\ waiting[y] + stuck[y] <= 1
        /\ \A t \in Times :
               /\ pc[t] = "create" => waiting[seen[t].type] + stuck[seen[t].type] = 0
               /\ pc[t] = "enqueue" => stuck[seen[t].type] = 1

StackInv == SchedulerTypeOK /\ OneFire

(* Steps of the clock, of the process, of hydration and of requests.        *)
LEMMA RowStep ==
    ASSUME StackInv,
           \/ Start \/ HydrateRead \/ HydrateAdd \/ HydrateWrite \/ Tick
           \/ \E a \in Admins : AdminStep(a) \/ NewRequest(a)
    PROVE  StackInv'
<1>0. SchedulerTypeOK /\ OneFire
  BY DEF StackInv
<1>1. UNCHANGED <<waiting, stuck, overlapped, pc, seen>>
  <2>1. CASE Start \/ HydrateRead \/ HydrateAdd \/ HydrateWrite \/ Tick
    BY <2>1 DEF Start, HydrateRead, HydrateAdd, HydrateWrite, Tick, fireVars, runVars, histVars
  <2>2. ASSUME NEW a \in Admins, AdminStep(a) PROVE UNCHANGED <<waiting, stuck, overlapped, pc, seen>>
    BY <2>2 DEF AdminStep, UpdateWrite, UpdateRemove, RequestAdds, SkipWrite, fireVars, runVars, histVars
  <2>3. ASSUME NEW a \in Admins, NewRequest(a) PROVE UNCHANGED <<waiting, stuck, overlapped, pc, seen>>
    BY <2>3 DEF NewRequest, CreateSchedule, UpdateRead, DeleteSchedule, SkipRead, fireVars, runVars, histVars
  <2>4. QED
    BY <2>1, <2>2, <2>3
<1>2. "type" \in DOMAIN row' /\ row'.type \in JobTypes
  <2>1. CASE Start \/ HydrateRead \/ HydrateAdd \/ HydrateWrite \/ Tick
    BY <1>0, <2>1 DEF Start, HydrateRead, HydrateAdd, HydrateWrite, Tick, SchedulerTypeOK
  <2>2. ASSUME NEW a \in Admins, AdminStep(a) PROVE "type" \in DOMAIN row' /\ row'.type \in JobTypes
    BY <1>0, <2>2 DEF AdminStep, UpdateWrite, UpdateRemove, RequestAdds, SkipWrite, Changed, SchedulerTypeOK
  <2>3. ASSUME NEW a \in Admins, NewRequest(a) PROVE "type" \in DOMAIN row' /\ row'.type \in JobTypes
    <3>1. ASSUME NEW c \in Crons, NEW e \in BOOLEAN, CreateSchedule(a, c, e)
          PROVE  "type" \in DOMAIN row' /\ row'.type \in JobTypes
      <4>1. row'.type = "restart" /\ "type" \in DOMAIN row'
        BY <3>1 DEF CreateSchedule
      <4>2. QED
        BY <4>1 DEF JobTypes
    <3>2. CASE DeleteSchedule(a) \/ SkipRead(a) \/ \E x \in Edits : UpdateRead(a, x)
      BY <1>0, <3>2 DEF UpdateRead, DeleteSchedule, SkipRead, SchedulerTypeOK
    <3>3. QED
      BY <2>3, <3>1, <3>2 DEF NewRequest
  <2>4. QED
    BY <2>1, <2>2, <2>3
<1>3. QED
  BY <1>0, <1>1, <1>2 DEF StackInv, SchedulerTypeOK, OneFire

(* Steps of one fire that neither look at the runs nor make one.            *)
LEMMA QuietFireStep ==
    ASSUME StackInv, NEW t \in Times,
           \/ Begin(t) \/ ReadSchedule(t) \/ SkipRun(t) \/ SkipBusy(t) \/ NoteRun(t)
           \/ NoteFailure(t) \/ AddNext(t) \/ RowGone(t) \/ CallFails(t) \/ Stall(t)
    PROVE  StackInv'
<1>0. SchedulerTypeOK /\ OneFire
  BY DEF StackInv
<1>1. CASE Begin(t)
  <2>1. /\ pc' = [pc EXCEPT ![t] = "read"] /\ overlapped' = (overlapped \/ \E u \in Times : pc[u] # "off")
        /\ UNCHANGED <<row, seen, waiting, stuck>>
    BY <1>1 DEF Begin, Goto, runVars
  <2>2. SchedulerTypeOK'
    BY <1>0, <2>1 DEF SchedulerTypeOK, FirePc
  <2>3. ~overlapped' => ~overlapped /\ \A u \in Times : pc[u] = "off"
    BY <1>0, <2>1 DEF SchedulerTypeOK
  <2>4. OneFire'
    BY <1>0, <2>1, <2>3 DEF OneFire, SchedulerTypeOK
  <2>5. QED
    BY <2>2, <2>4 DEF StackInv
<1>2. CASE Stall(t)
  BY <1>0, <1>2 DEF Stall, runVars, histVars, StackInv, SchedulerTypeOK, OneFire
<1>3. CASE ~Begin(t) /\ ~Stall(t)
  <2>1. /\ UNCHANGED <<waiting, stuck, overlapped>>
        /\ "type" \in DOMAIN row' /\ row'.type \in JobTypes
    BY <1>0, <1>3 DEF ReadSchedule, SkipRun, SkipBusy, NoteRun, NoteFailure, NoteNext, AddNext, RowGone,
                      CallFails, Throw, SchedulerTypeOK, runVars, histVars
  <2>2. PICK p \in FirePc \ {"create", "enqueue"} : pc' = [pc EXCEPT ![t] = p]
    BY <1>0, <1>3 DEF ReadSchedule, SkipRun, SkipBusy, NoteRun, NoteFailure, NoteNext, AddNext, RowGone,
                      CallFails, Throw, Ends, Goto, FirePc
  <2>3. pc[t] # "off"
    BY <1>0, <1>3, SchedulerAssumption DEF ReadSchedule, SkipRun, SkipBusy, NoteRun, NoteFailure, NoteNext, AddNext, RowGone,
                      CallFails, At
  <2>4. /\ DOMAIN seen' = Times /\ seen'[t].type \in JobTypes
        /\ \A u \in Times \ {t} : seen'[u] = seen[u]
    <3>1. Unseen.type \in JobTypes
      BY DEF Unseen, JobTypes
    <3>2. \/ UNCHANGED seen
          \/ seen' = [seen EXCEPT ![t] = Unseen]
          \/ seen' = [seen EXCEPT ![t] = [cron |-> row.cron, type |-> row.type]]
      BY <1>3 DEF ReadSchedule, SkipRun, SkipBusy, NoteRun, NoteFailure, NoteNext,
                  AddNext, RowGone, CallFails, Throw, Ends
    <3> HIDE DEF Unseen
    <3>3. QED
      BY <1>0, <3>1, <3>2 DEF SchedulerTypeOK
  <2>5. SchedulerTypeOK'
    BY <1>0, <2>1, <2>2, <2>4 DEF SchedulerTypeOK
  <2>6. OneFire'
    BY <1>0, <2>1, <2>2, <2>3, <2>4 DEF OneFire, SchedulerTypeOK
  <2>7. QED
    BY <2>5, <2>6 DEF StackInv
<1>4. QED
  BY <1>1, <1>2, <1>3

(* A fire looks for a run that waits, makes one and queues it.              *)
LEMMA RunStep ==
    ASSUME StackInv, NEW t \in Times, CheckBusy(t) \/ CreateRun(t) \/ EnqueueRun(t)
    PROVE  StackInv'
<1>0. SchedulerTypeOK /\ OneFire
  BY DEF StackInv
<1> DEFINE y == seen[t].type
<1>1. y \in JobTypes /\ waiting[y] \in Int /\ stuck[y] \in Int
  BY <1>0 DEF SchedulerTypeOK
<1>2. ~overlapped => \A u \in Times \ {t} : pc[t] # "off" => pc[u] = "off"
  BY <1>0 DEF OneFire
<1>3. CASE CheckBusy(t)
  <2>1. PICK p \in {"skipBusy", "create"} :
            /\ pc[t] = "busy" /\ pc' = [pc EXCEPT ![t] = p]
            /\ p = "create" => ~(waiting[y] + stuck[y] > 0)
            /\ UNCHANGED <<row, seen, waiting, stuck, overlapped>>
    BY <1>3 DEF CheckBusy, At, Goto, runVars, histVars
  <2>2. SchedulerTypeOK'
    BY <1>0, <2>1 DEF SchedulerTypeOK, FirePc
  <2>3. ~overlapped => (p = "create" => waiting[y] + stuck[y] = 0)
    BY <1>0, <1>1, <2>1 DEF OneFire
  <2>4. OneFire'
    BY <1>0, <1>2, <2>1, <2>3 DEF OneFire, SchedulerTypeOK
  <2>5. QED
    BY <2>2, <2>4 DEF StackInv
<1>4. CASE CreateRun(t)
  <2>1. /\ pc[t] = "create" /\ pc' = [pc EXCEPT ![t] = "enqueue"]
        /\ stuck' = [stuck EXCEPT ![y] = stuck[y] + 1]
        /\ UNCHANGED <<row, seen, waiting, overlapped>>
    BY <1>4 DEF CreateRun, At, Goto, histVars
  <2>2. SchedulerTypeOK'
    BY <1>0, <1>1, <2>1 DEF SchedulerTypeOK, FirePc
  <2>3. ~overlapped => waiting[y] = 0 /\ stuck[y] = 0
    BY <1>0, <1>1, <2>1 DEF OneFire
  <2>4. OneFire'
    BY <1>0, <1>1, <1>2, <2>1, <2>3 DEF OneFire, SchedulerTypeOK
  <2>5. QED
    BY <2>2, <2>4 DEF StackInv
<1>5. CASE EnqueueRun(t)
  <2>1. /\ pc[t] = "enqueue" /\ pc' = [pc EXCEPT ![t] = "write"]
        /\ stuck' = [stuck EXCEPT ![y] = stuck[y] - 1]
        /\ waiting' = [waiting EXCEPT ![y] = waiting[y] + 1]
        /\ UNCHANGED <<row, seen, overlapped>>
    BY <1>5 DEF EnqueueRun, At, Goto, histVars
  <2>2. SchedulerTypeOK'
    BY <1>0, <1>1, <2>1 DEF SchedulerTypeOK, FirePc
  <2>3. ~overlapped => stuck[y] = 1 /\ waiting[y] = 0
    BY <1>0, <1>1, <2>1 DEF OneFire
  <2>4. /\ waiting'[y] = waiting[y] + 1 /\ stuck'[y] = stuck[y] - 1 /\ pc'[t] = "write"
        /\ \A z \in JobTypes \ {y} : waiting'[z] = waiting[z] /\ stuck'[z] = stuck[z]
        /\ \A u \in Times \ {t} : pc'[u] = pc[u]
    BY <1>0, <1>1, <2>1 DEF SchedulerTypeOK
  <2>5. ~overlapped => \A u \in Times \ {t} : pc'[u] = "off"
    BY <1>2, <2>1, <2>4
  <2> HIDE DEF y
  <2>6. OneFire'
    BY <1>0, <1>1, <2>1, <2>3, <2>4, <2>5 DEF OneFire
  <2>7. QED
    BY <2>2, <2>6 DEF StackInv
<1>6. QED
  BY <1>3, <1>4, <1>5

(* A run settles, or the process dies.                                      *)
LEMMA SettleStep == ASSUME StackInv, Crash \/ \E y \in JobTypes : RunSettles(y) PROVE StackInv'
<1>0. SchedulerTypeOK /\ OneFire
  BY DEF StackInv
<1>1. CASE Crash
  <2>1. /\ pc' = [t \in Times |-> "off"] /\ seen' = [t \in Times |-> Unseen]
        /\ UNCHANGED <<row, waiting, stuck, overlapped>>
    BY <1>1 DEF Crash, runVars, histVars
  <2>2. Unseen.type \in JobTypes
    BY DEF Unseen, JobTypes
  <2> HIDE DEF Unseen
  <2>3. QED
    BY <1>0, <2>1, <2>2 DEF StackInv, SchedulerTypeOK, OneFire, FirePc
<1>2. ASSUME NEW y \in JobTypes, RunSettles(y) PROVE StackInv'
  <2>1. /\ waiting[y] > 0 /\ waiting' = [waiting EXCEPT ![y] = waiting[y] - 1]
        /\ UNCHANGED <<row, pc, seen, stuck, overlapped>>
    BY <1>2 DEF RunSettles, fireVars, histVars
  <2>2. SchedulerTypeOK'
    BY <1>0, <2>1 DEF SchedulerTypeOK
  <2>3. ~overlapped => waiting[y] = 1 /\ stuck[y] = 0
    <3>1. waiting[y] \in Int /\ stuck[y] \in Int
      BY <1>0 DEF SchedulerTypeOK
    <3>2. ~overlapped => waiting[y] >= 0 /\ stuck[y] >= 0 /\ waiting[y] + stuck[y] <= 1
      BY <1>0 DEF OneFire
    <3>3. QED
      BY <2>1, <3>1, <3>2
  <2>4. OneFire'
    BY <1>0, <2>1, <2>3 DEF OneFire, SchedulerTypeOK
  <2>5. QED
    BY <2>2, <2>4 DEF StackInv
<1>3. QED
  BY <1>1, <1>2

\* "Do not stack periodic work while the previous occurrence still waits or runs": for
\* every horizon, cron, edit request and place where a call throws or the process dies,
\* one fire at a time makes no second run of a type.
THEOREM RunsAreNotStacked == Spec => []NoStacking
<1>1. Init => StackInv
  <2> SUFFICES ASSUME Init PROVE StackInv
    OBVIOUS
  <2>1. Unseen.type \in JobTypes
    BY DEF Unseen, JobTypes
  <2>2. "type" \in DOMAIN row /\ row.type \in JobTypes
    BY <2>1 DEF Init
  <2> HIDE DEF Unseen
  <2>3. /\ waiting \in [JobTypes -> Int] /\ stuck \in [JobTypes -> Int]
        /\ \A y \in JobTypes : waiting[y] = 0 /\ stuck[y] = 0
    BY DEF Init
  <2>4. /\ pc \in [Times -> FirePc] /\ \A t \in Times : pc[t] = "off"
        /\ DOMAIN seen = Times /\ \A t \in Times : seen[t] = Unseen
    BY DEF Init, FirePc
  <2>5. SchedulerTypeOK
    BY <2>1, <2>2, <2>3, <2>4 DEF SchedulerTypeOK, Init
  <2>6. OneFire
    BY <2>3, <2>4 DEF OneFire
  <2>7. QED
    BY <2>5, <2>6 DEF StackInv
<1>2. StackInv /\ [Next]_vars => StackInv'
  <2> SUFFICES ASSUME StackInv, [Next]_vars PROVE StackInv'
    OBVIOUS
  <2>1. ASSUME NEW t \in Times, FireStep(t) \/ CallFails(t) PROVE StackInv'
    BY <2>1, QuietFireStep, RunStep DEF FireStep
  <2>2. CASE UNCHANGED vars
    BY <2>2 DEF vars, fireVars, runVars, histVars, StackInv, SchedulerTypeOK, OneFire
  <2>3. QED
    BY <2>1, <2>2, RowStep, SettleStep DEF Next
<1>3. StackInv => NoStacking
  BY DEF StackInv, SchedulerTypeOK, OneFire, NoStacking
<1>4. QED
  BY <1>1, <1>2, <1>3, PTL DEF Spec

=============================================================================
