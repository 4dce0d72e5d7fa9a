-------------------------- MODULE JobSystemProofs --------------------------
(***************************************************************************)
(* Proofs about the job pipeline, for any sets of runs, hosts, requests    *)
(* and cancels.  One lemma per part of the inductive invariant IInv says   *)
(* that a step preserves it, with one proof step per action that disturbs  *)
(* it; the theorems read the safety properties off IInv, and the last part *)
(* maps the pipeline to the abstract dispatcher.                           *)
(***************************************************************************)
EXTENDS JobSystem, TLAPS, FiniteSetTheorems

-----------------------------------------------------------------------------
(* The inductive invariant behind the safety properties of JobSystem.      *)
(*                                                                         *)
(* Places: a run is being added, in the queue, held by one loop, or begun, *)
(* and only one of these, and nowhere before its row exists.  Several poll *)
(* handlers may have listed and claimed it, but the claim of each takes it *)
(* out of the queue, and once it is held or begun no agent waits for an    *)
(* answer that has it.  This is why it is executed at most once.           *)
(* Reports: a result handler only exists for an execution that ended.      *)
(* Gate: the token is out exactly while a mutation goroutine lives, and    *)
(* the flag is up while it executes or reports.                            *)
(* BusyPolls: a loop that waits for a poll it sent with the flag down has  *)
(* no mutation executing, and a poll sent with the flag up gets no         *)
(* mutation; so a mutation that arrives finds the gate free or about to be.*)
(* Handed: a run that was marked running has left the queue for good.      *)
(* Tally: before the batch row exists no run of the batch does; from then  *)
(* on its counters add up.                                                 *)
(***************************************************************************)
PollShape ==
    \A p \in Polls :
        /\ pollRun[p] = NoRun <=> pollPc[p] \in {"idle", "wait", "empty"}
        /\ pollRun[p] # NoRun => HostOf[pollRun[p]] = PollHost[p]

HeldShape ==
    \A h \in Hosts :
        /\ held[h] # NoRun <=> loop[h] = "held"
        /\ held[h] # NoRun => HostOf[held[h]] = h

\* Where a run may be before it is begun.
Unheld(r) == (\A p \in Polls : pollRun[p] # r) /\ (\A h \in Hosts : held[h] # r)

OnePlace ==
    \A r \in Runs :
        /\ status[r] = "none" => r \notin adding \cup queue /\ Unheld(r) /\ began[r] = 0
        /\ r \in adding => r \notin queue /\ Unheld(r) /\ began[r] = 0
        /\ r \in queue =>
            /\ \A p \in Polls : pollRun[p] = r => pollPc[p] = "listed"
            /\ \A h \in Hosts : held[h] # r
            /\ began[r] = 0
        /\ \A h \in Hosts, p \in Polls : Listening(h, p) /\ pollRun[p] = r =>
            /\ \A g \in Hosts : held[g] # r
            /\ began[r] = 0
        /\ began[r] # 0 => \A h \in Hosts : held[h] # r
        /\ began[r] <= 1
        /\ began[r] = 0 <=> exec[r] = "no"

Places == PollShape /\ HeldShape /\ OnePlace

Reports ==
    \A r \in Runs :
        /\ rep[r] # "none" =>
            exec[r] \in {"reporting", "clearing", "done"} /\ outcome[r] # "none"
        /\ status[r] = "success" =>
            rep[r] \notin {"none", "sent", "checked"} /\ outcome[r] = "success"
        /\ rep[r] \in {"completed", "completed_with_failures"} => r \in BatchRuns

\* Mutations that execute or report, and those that still have the token.
Busy(r) == r \notin ReadOnly /\ exec[r] \in {"executing", "reporting"}
HasToken(r) == Busy(r) \/ exec[r] = "clearing"

Gate ==
    /\ \A r \in Runs : exec[r] = "clearing" => r \notin ReadOnly
    /\ \A r \in Runs : HasToken(r) => ~gate[HostOf[r]]
    /\ \A r, s \in Runs : HasToken(r) /\ HasToken(s) /\ HostOf[r] = HostOf[s] => r = s
    /\ \A r \in Runs : Busy(r) => busy[HostOf[r]]

BusyPolls ==
    /\ \A p \in Polls : pollBusy[p] /\ pollRun[p] # NoRun => pollRun[p] \in ReadOnly
    /\ \A h \in Hosts, p \in Polls : Listening(h, p) =>
        /\ PollHost[p] = h
        /\ pollPc[p] # "idle" /\ ~pollBusy[p] =>
            \A r \in Runs : HostOf[r] = h => ~Busy(r)
    /\ \A h \in Hosts : held[h] # NoRun /\ held[h] \notin ReadOnly =>
        \A r \in Runs : HostOf[r] = h => ~Busy(r)

Handed ==
    \A r \in Runs : status[r] \in {"running", "success", "failed"} =>
        r \notin adding \cup queue

NoBatchYet ==
    /\ \A k \in Counters : counts[k] = 0
    /\ todo = {}
    /\ \A r \in BatchRuns : status[r] = "none"
    /\ \A c \in Cancels : cancelPc[c] = "idle"

Tally == (bstatus = "none" => NoBatchYet) /\ CountsAddUp

IInv == TypeOK /\ Places /\ Reports /\ Gate /\ BusyPolls /\ Handed /\ Tally

-----------------------------------------------------------------------------
(* Every step keeps every variable in its type. *)
LEMMA TypeStep == IInv /\ [Next]_vars => TypeOK'
<1> SUFFICES ASSUME IInv, [Next]_vars PROVE TypeOK'
  OBVIOUS
<1> USE JobAssumption, LoopAssumption, BoundsAssumption
<1> USE DEF IInv, TypeOK, RunsTypeOK, LoopTypeOK, BatchTypeOK, runVars,
     loopVars, batchVars, boundVars, JobRunStatus, PollPc, RepPc, LoopPc,
     ExecPc, BatchStatus, Counters
<1>1. ASSUME NEW r \in Runs, Create(r) PROVE TypeOK'
  BY <1>1 DEF Create, CreateRow
<1>2. ASSUME NEW r \in Runs, CreateInBatch(r) PROVE TypeOK'
  BY <1>2 DEF CreateInBatch, CreateRow, CreateBatchJob
<1>3. ASSUME NEW r \in Runs, Enqueue(r) PROVE TypeOK'
  BY <1>3 DEF Enqueue, AddJob
<1>4. ASSUME NEW r \in Runs, EnqueueFails(r) PROVE TypeOK'
  BY <1>4 DEF EnqueueFails, AddJobFails, CreateBatchFails
<1>5. ASSUME NEW r \in Runs, NEW o \in {"success", "failed"}, Finish(r, o) PROVE TypeOK'
  BY <1>5 DEF Finish, ExecuteReturns, ResultArrives
<1>6. ASSUME NEW r \in Runs, Release(r) PROVE TypeOK'
  <2>1. CASE ReleaseRead(r)
    BY <1>6, <2>1 DEF Release, ReleaseRead
  <2>2. CASE ReleaseFlag(r)
    BY <1>6, <2>2 DEF Release, ReleaseFlag
  <2>3. CASE ReleaseToken(r)
    BY <1>6, <2>3 DEF Release, ReleaseToken
  <2>4. QED
    BY <1>6, <2>1, <2>2, <2>3 DEF Release
<1>7. ASSUME NEW r \in Runs, Check(r) PROVE TypeOK'
  BY <1>7 DEF Check, CheckResult
<1>8. ASSUME NEW r \in Runs, Write(r) PROVE TypeOK'
  BY <1>8 DEF Write, WriteResult
<1>9. ASSUME NEW r \in Runs, CountCompleted(r) PROVE TypeOK'
  <2>1. rep' \in [Runs -> RepPc]
    BY <1>9 DEF CountCompleted, ResultCounted, AfterCompleted
  <2>2. counts' \in [Counters -> Int]
    BY <1>9 DEF CountCompleted, RecordJobRunCompleted
  <2>3. UNCHANGED <<status, fresh, queue, adding, pollPc, pollBusy, pollRun>>
    BY <1>9 DEF CountCompleted, ResultCounted
  <2>4. UNCHANGED <<bstatus, todo, cancelPc, cancelTodo, cancelCur, cancelled>>
    BY <1>9 DEF CountCompleted, RecordJobRunCompleted
  <2>5. QED
    BY <1>9, <2>1, <2>2, <2>3, <2>4 DEF CountCompleted
<1>10. ASSUME NEW r \in Runs, EffectFails(r) PROVE TypeOK'
  BY <1>10 DEF EffectFails, ResultEffectFails
<1>11. ASSUME NEW r \in Runs, CompleteBatch(r) PROVE TypeOK'
  BY <1>11 DEF CompleteBatch, ResultHandlerEnds, WriteBatchStatus
<1>12. ASSUME NEW r \in Runs, Progress(r) PROVE TypeOK'
  BY <1>12 DEF Progress, ReportJobProgress
<1>13. ASSUME NEW r \in Runs, Age(r) PROVE TypeOK'
  BY <1>13 DEF Age, HeartbeatAges
<1>14. ASSUME NEW r \in Runs, FailStale(r) PROVE TypeOK'
  BY <1>14 DEF FailStale, FailStaleRun
<1>15. ASSUME NEW p \in Polls, NEW r \in Runs, List(p, r) PROVE TypeOK'
  BY <1>15 DEF List, GetJobs
<1>37. ASSUME NEW p \in Polls, Claim(p) PROVE TypeOK'
  BY <1>37 DEF Claim, RemoveJob
<1>16. ASSUME NEW p \in Polls, ReadClaimed(p) PROVE TypeOK'
  BY <1>16 DEF ReadClaimed, ReadRunToStart
<1>17. ASSUME NEW p \in Polls, Mark(p) PROVE TypeOK'
  BY <1>17 DEF Mark, MarkJobRunStarted
<1>18. ASSUME NEW p \in Polls, CountStarted(p) PROVE TypeOK'
  BY <1>18 DEF CountStarted, StartCounted, RecordJobRunStarted
<1>19. ASSUME NEW p \in Polls, Respond(p) PROVE TypeOK'
  <2>1. RunsTypeOK' /\ UNCHANGED <<batchVars, boundVars>>
    BY <1>19 DEF Respond, PollReturns
  <2>2. LoopTypeOK'
    <3>1. PollHost[p] \in Hosts /\ pollRun[p] \in Runs \cup {NoRun}
      OBVIOUS
    <3>2. CASE AgentReceives(PollHost[p], pollRun[p])
      BY <3>1, <3>2 DEF AgentReceives
    <3>3. CASE UNCHANGED loopVars
      BY <3>3
    <3>4. QED
      BY <1>19, <3>2, <3>3 DEF Respond
  <2>3. QED
    BY <2>1, <2>2
<1>20. ASSUME NEW p \in Polls, RespondEmpty(p) PROVE TypeOK'
  BY <1>20 DEF RespondEmpty, PollEmpty, Claimable, Listening, AgentPollEnds
<1>21. ASSUME NEW h \in Hosts, NEW p \in Polls, Poll(h, p) PROVE TypeOK'
  BY <1>21 DEF Poll, AgentPolls, PollStart
<1>22. ASSUME NEW h \in Hosts, PollFails(h) PROVE TypeOK'
  BY <1>22 DEF PollFails, AgentPollEnds
<1>23. ASSUME NEW h \in Hosts, Start(h) PROVE TypeOK'
  BY <1>23 DEF Start, AgentStart
<1>24. ASSUME NEW h \in Hosts, Begin(h) PROVE TypeOK'
  <2>1. held[h] \in Runs
    BY <1>24 DEF Begin, StartJob, IInv, Places, HeldShape
  <2>2. exec' \in [Runs -> ExecPc] /\ began' \in [Runs -> Nat]
    BY <1>24, <2>1 DEF Begin, StartJob, IInv
  <2>3. busy' \in [Hosts -> BOOLEAN] /\ gate' \in [Hosts -> BOOLEAN]
    BY <1>24, ZenonT(40) DEF Begin, StartJob, IInv
  <2>4. loop' \in [Hosts -> LoopPc] /\ held' \in [Hosts -> Runs \cup {NoRun}]
    BY <1>24 DEF Begin, StartJob, IInv
  <2>5. QED
    BY <1>24, <2>2, <2>3, <2>4 DEF Begin, StartJob, IInv
<1>25. ASSUME NEW h \in Hosts, Crash(h) PROVE TypeOK'
  BY <1>25 DEF Crash, AgentDies
<1>26. ASSUME NEW c \in Cancels, Cancel(c) PROVE TypeOK'
  BY <1>26 DEF Cancel, CancelReads
<1>27. ASSUME NEW c \in Cancels, CancelDequeue(c) PROVE TypeOK'
  BY <1>27 DEF CancelDequeue, CancelRemoves
<1>28. ASSUME NEW c \in Cancels, CancelDone(c) PROVE TypeOK'
  BY <1>28 DEF CancelDone, CancelFinishes
<1>29. ASSUME NEW c \in Cancels, NEW r \in Runs, CancelRun(c, r) PROVE TypeOK'
  BY <1>29 DEF CancelRun, CancelOverwrites
<1>30. ASSUME NEW p \in Polls, ScanEnds(p) PROVE TypeOK'
  BY <1>30 DEF ScanEnds, LastScan
<1>31. ASSUME NEW p \in Polls, RespondError(p) PROVE TypeOK'
  BY <1>31, SMTT(30) DEF RespondError, PollThrows, Listening, AgentPollEnds
<1>32. ASSUME CreateInBatchFails PROVE TypeOK'
  BY <1>32 DEF CreateInBatchFails, CreateBatchFails
<1>33. ASSUME StartBatch PROVE TypeOK'
  <2>1. Cardinality(BatchRuns) \in Nat
    BY FS_CardinalityType
  <2>2. QED
    BY <1>33, <2>1 DEF StartBatch, CreateBatch
<1>34. ASSUME Restart PROVE TypeOK'
  BY <1>34 DEF Restart, RunsRestart, BatchRestart
<1>35. CASE UNCHANGED vars
  BY <1>35 DEF vars
<1> HIDE DEF IInv, TypeOK, RunsTypeOK, LoopTypeOK, BatchTypeOK, runVars,
     loopVars, batchVars, boundVars, JobRunStatus, PollPc, RepPc, LoopPc,
     ExecPc, BatchStatus, Counters
<1>36. QED
  BY <1>1, <1>2, <1>3, <1>4, <1>5, <1>6, <1>7, <1>8, <1>9, <1>10, <1>11,
     <1>12, <1>13, <1>14, <1>15, <1>16, <1>17, <1>18, <1>19, <1>20, <1>21,
     <1>22, <1>23, <1>24, <1>25, <1>26, <1>27, <1>28, <1>29, <1>33, <1>34,
     <1>35,
     <1>30, <1>31, <1>32, <1>37
  DEF Next, RunStep, PollStep, HostStep, CancelStep

-----------------------------------------------------------------------------
(* What the steps of one actor leave alone.                                *)

(* A step about a run touches neither the poll handlers nor the polling    *)
(* goroutines.                                                             *)
LEMMA RunFrame ==
    ASSUME NEW r \in Runs, RunStep(r)
    PROVE  UNCHANGED <<pollPc, pollBusy, pollRun, loop, loopPoll, held>>
BY DEF RunStep, Create, CreateInBatch, Enqueue, EnqueueFails, Finish, Release, Check,
       Write, CountCompleted, EffectFails, CompleteBatch, Progress, Age, FailStale,
       CreateRow, AddJob, AddJobFails, ExecuteReturns, ResultArrives, ReleaseRead,
       ReleaseFlag, ReleaseToken, CheckResult, WriteResult, ResultCounted,
       ResultEffectFails, ResultHandlerEnds, ReportJobProgress, HeartbeatAges,
       FailStaleRun, runVars, loopVars

(* A step of a poll handler touches no execution and no result handler.    *)
LEMMA PollFrame ==
    ASSUME NEW p \in Polls, PollStep(p)
    PROVE  UNCHANGED <<adding, rep, busy, gate, exec, outcome, began>>
BY DEF PollStep, List, GetJobs, Claim, ReadClaimed, Mark, CountStarted, Respond, ScanEnds,
       RespondEmpty, RespondError, RemoveJob, ReadRunToStart, MarkJobRunStarted,
       StartCounted, PollReturns, LastScan, PollEmpty, PollThrows, AgentReceives, AgentPollEnds, runVars, loopVars

(* A step of an agent process touches no row and no queue entry.           *)
LEMMA HostFrame ==
    ASSUME NEW h \in Hosts, HostStep(h)
    PROVE  UNCHANGED <<status, fresh, queue, adding, pollRun, rep>>
BY DEF HostStep, Poll, PollFails, Start, Begin, Crash, PollStart, AgentPolls, runVars

(* A step of cancelBatch touches rows and the queue and nothing else of    *)
(* the pipeline.                                                           *)
LEMMA CancelFrame ==
    ASSUME NEW c \in Cancels, CancelStep(c)
    PROVE  UNCHANGED <<adding, pollPc, pollBusy, pollRun, rep, loopVars>>
BY DEF CancelStep, Cancel, CancelDequeue, CancelDone, CancelRun, runVars

(* The creation of the batch row, and the end of the createBatch loop,     *)
(* touch nothing of the pipeline.                                          *)
LEMMA BatchFrame ==
    ASSUME StartBatch \/ CreateInBatchFails PROVE UNCHANGED <<runVars, loopVars>>
BY DEF StartBatch, CreateInBatchFails

-----------------------------------------------------------------------------
(* A run is in one place at a time.                                        *)

(* A poll handler has a run exactly from its claim to its answer, and it   *)
(* is a run of the host it serves.                                         *)
LEMMA PollShapeStep == IInv /\ [Next]_vars => PollShape'
<1> SUFFICES ASSUME IInv, [Next]_vars PROVE PollShape'
  OBVIOUS
<1> USE JobAssumption
<1> PollShape /\ RunsTypeOK
  BY DEF IInv, Places, TypeOK
<1>1. ASSUME NEW p \in Polls, NEW r \in Runs, List(p, r) PROVE PollShape'
  BY <1>1 DEF List, GetJobs, Claimable, PollShape, RunsTypeOK
<1>2. ASSUME NEW p \in Polls, Claim(p) \/ ReadClaimed(p) \/ Mark(p) \/ CountStarted(p)
      PROVE  PollShape'
  BY <1>2 DEF Claim, RemoveJob, ReadClaimed, ReadRunToStart, Mark, MarkJobRunStarted, CountStarted,
              StartCounted, PollShape, RunsTypeOK
<1>3. ASSUME NEW p \in Polls,
             Respond(p) \/ ScanEnds(p) \/ RespondEmpty(p) \/ RespondError(p)
      PROVE  PollShape'
  BY <1>3 DEF Respond, PollReturns, ScanEnds, LastScan, RespondEmpty, PollEmpty,
              RespondError, PollThrows, PollShape, RunsTypeOK
<1>4. ASSUME NEW h \in Hosts, NEW p \in Polls, Poll(h, p) PROVE PollShape'
  BY <1>4 DEF Poll, PollStart, PollShape, RunsTypeOK
<1>5. ASSUME NEW h \in Hosts, PollFails(h) \/ Start(h) \/ Begin(h) \/ Crash(h)
      PROVE  PollShape'
  BY <1>5 DEF PollFails, Start, Begin, Crash, runVars, PollShape
<1>6. ASSUME Restart PROVE PollShape'
  BY <1>6 DEF Restart, RunsRestart, PollShape
<1>7. CASE UNCHANGED <<pollPc, pollRun>>
  BY <1>7 DEF PollShape
<1>8. QED
  <2>1. ASSUME NEW r \in Runs, RunStep(r) PROVE PollShape'
    BY <2>1, <1>7, RunFrame
  <2>2. ASSUME NEW p \in Polls, PollStep(p) PROVE PollShape'
    BY <2>2, <1>1, <1>2, <1>3 DEF PollStep
  <2>3. ASSUME NEW h \in Hosts, HostStep(h) PROVE PollShape'
    BY <2>3, <1>4, <1>5 DEF HostStep
  <2>4. ASSUME NEW c \in Cancels, CancelStep(c) PROVE PollShape'
    BY <2>4, <1>7, CancelFrame
  <2>5. CASE StartBatch \/ CreateInBatchFails \/ UNCHANGED vars
    BY <2>5, <1>7, BatchFrame DEF vars, runVars
  <2>6. QED
    BY <1>6, <2>1, <2>2, <2>3, <2>4, <2>5 DEF Next

(* A loop holds a run, one of its own host, exactly while it waits for the *)
(* limiter.                                                                *)
LEMMA HeldShapeStep == IInv /\ [Next]_vars => HeldShape'
<1> SUFFICES ASSUME IInv, [Next]_vars PROVE HeldShape'
  OBVIOUS
<1> USE JobAssumption
<1> HeldShape /\ PollShape /\ LoopTypeOK /\ RunsTypeOK
  BY DEF IInv, Places, TypeOK
<1>1. ASSUME NEW p \in Polls, Respond(p) PROVE HeldShape'
  <2>1. pollRun[p] \in Runs /\ HostOf[pollRun[p]] = PollHost[p] /\ PollHost[p] \in Hosts
    BY <1>1 DEF Respond, PollReturns, PollShape, RunsTypeOK
  <2>2. CASE Listening(PollHost[p], p)
    BY <1>1, <2>1, <2>2 DEF Respond, AgentReceives, HeldShape, LoopTypeOK
  <2>3. CASE ~Listening(PollHost[p], p)
    BY <1>1, <2>3 DEF Respond, loopVars, HeldShape
  <2>4. QED
    BY <2>2, <2>3
<1>2. ASSUME NEW p \in Polls, RespondEmpty(p) \/ RespondError(p) PROVE HeldShape'
  BY <1>2 DEF RespondEmpty, RespondError, Listening, AgentPollEnds, loopVars, HeldShape, LoopTypeOK
<1>3. ASSUME NEW h \in Hosts, NEW p \in Polls, Poll(h, p) PROVE HeldShape'
  BY <1>3 DEF Poll, AgentPolls, HeldShape, LoopTypeOK
<1>4. ASSUME NEW h \in Hosts, PollFails(h) \/ Start(h) PROVE HeldShape'
  BY <1>4 DEF PollFails, AgentPollEnds, Start, AgentStart, HeldShape, LoopTypeOK
<1>5. ASSUME NEW h \in Hosts, Begin(h) PROVE HeldShape'
  BY <1>5 DEF Begin, StartJob, HeldShape, LoopTypeOK
<1>6. ASSUME NEW h \in Hosts, Crash(h) PROVE HeldShape'
  BY <1>6 DEF Crash, AgentDies, HeldShape, LoopTypeOK
<1>7. CASE UNCHANGED <<loop, held>>
  BY <1>7 DEF HeldShape
<1>8. QED
  <2>1. ASSUME NEW r \in Runs, RunStep(r) PROVE HeldShape'
    BY <2>1, <1>7, RunFrame
  <2>2. ASSUME NEW p \in Polls, PollStep(p) PROVE HeldShape'
    <3>1. CASE (\E r \in Runs : List(p, r)) \/ Claim(p) \/ ReadClaimed(p) \/ Mark(p)
               \/ CountStarted(p) \/ ScanEnds(p)
      BY <3>1, <1>7 DEF List, Claim, ReadClaimed, Mark, CountStarted, ScanEnds, loopVars
    <3>2. QED
      BY <2>2, <3>1, <1>1, <1>2 DEF PollStep
  <2>3. ASSUME NEW h \in Hosts, HostStep(h) PROVE HeldShape'
    BY <2>3, <1>3, <1>4, <1>5, <1>6 DEF HostStep
  <2>4. ASSUME NEW c \in Cancels, CancelStep(c) PROVE HeldShape'
    BY <2>4, <1>7, CancelFrame DEF loopVars
  <2>5. CASE StartBatch \/ CreateInBatchFails \/ Restart \/ UNCHANGED vars
    BY <2>5, <1>7, BatchFrame DEF Restart, vars, loopVars
  <2>6. QED
    BY <2>1, <2>2, <2>3, <2>4, <2>5 DEF Next

(* A run is being added, queued, held by one loop, or begun, and only one  *)
(* of these; handlers that are not listened to may have it besides.        *)
LEMMA OnePlaceStep == IInv /\ [Next]_vars => OnePlace'
<1> SUFFICES ASSUME IInv, [Next]_vars PROVE OnePlace'
  OBVIOUS
<1> USE JobAssumption DEF OnePlace, Unheld, Listening
<1>a. OnePlace /\ PollShape /\ HeldShape /\ RunsTypeOK /\ LoopTypeOK
  BY DEF IInv, Places, TypeOK
<1>1. ASSUME NEW r \in Runs, Create(r) \/ CreateInBatch(r) PROVE OnePlace'
  <2>1. CreateRow(r) /\ UNCHANGED loopVars
    BY <1>1 DEF Create, CreateInBatch
  <2>2. QED
    BY <1>a, <2>1 DEF CreateRow, loopVars, RunsTypeOK
<1>2. ASSUME NEW r \in Runs, Enqueue(r) \/ EnqueueFails(r) PROVE OnePlace'
  <2>1. (AddJob(r) \/ AddJobFails(r)) /\ UNCHANGED loopVars
    BY <1>2 DEF Enqueue, EnqueueFails
  <2>2. QED
    BY <1>a, <2>1 DEF AddJob, AddJobFails, loopVars, RunsTypeOK
<1>3. ASSUME NEW r \in Runs, NEW o \in {"success", "failed"}, Finish(r, o) PROVE OnePlace'
  <2>1. UNCHANGED <<status, adding, queue, pollPc, pollRun>>
    BY <1>3 DEF Finish, ResultArrives, runVars
  <2>2. QED
    BY <1>a, <1>3, <2>1 DEF Finish, ExecuteReturns, LoopTypeOK
<1>4. ASSUME NEW r \in Runs, Release(r) PROVE OnePlace'
  <2>1. UNCHANGED <<status, adding, queue, pollPc, pollRun, loop, loopPoll, held, began>>
    BY <1>4 DEF Release, ReleaseRead, ReleaseFlag, ReleaseToken, runVars
  <2>2. exec[r] # "no" /\ \E x \in {"clearing", "done"} : exec' = [exec EXCEPT ![r] = x]
    BY <1>4 DEF Release, ReleaseRead, ReleaseFlag, ReleaseToken
  <2>3. QED
    BY <1>a, <2>1, <2>2 DEF LoopTypeOK
<1>5. ASSUME NEW r \in Runs, Write(r) \/ FailStale(r) PROVE OnePlace'
  <2>1. UNCHANGED <<adding, queue, pollPc, pollRun, loop, loopPoll, held, began, exec>>
    BY <1>5 DEF Write, WriteResult, FailStale, FailStaleRun, loopVars
  <2>2. Write(r) => outcome[r] \in {"success", "failed"}
    BY <1>a DEF Write, WriteResult, IInv, Reports, LoopTypeOK
  <2>3. \E x \in {"success", "failed"} : status' = [status EXCEPT ![r] = x]
    BY <1>5, <2>2 DEF Write, WriteResult, FailStale, FailStaleRun
  <2>4. QED
    BY <1>a, <2>1, <2>3 DEF RunsTypeOK
<1>6. ASSUME NEW p \in Polls, NEW r \in Runs, List(p, r) PROVE OnePlace'
  <2>1. /\ pollPc' = [pollPc EXCEPT ![p] = "listed"]
        /\ pollRun' = [pollRun EXCEPT ![p] = r]
        /\ r \in queue /\ pollRun[p] = NoRun
        /\ UNCHANGED <<status, adding, queue, loopVars>>
    BY <1>a, <1>6 DEF List, GetJobs, Claimable, PollShape
  <2>2. QED
    BY <1>a, <2>1 DEF loopVars, RunsTypeOK
<1>7. ASSUME NEW p \in Polls, Claim(p) PROVE OnePlace'
  <2>1. /\ pollPc' = [pollPc EXCEPT ![p] = "claimed"]
        /\ queue' = queue \ {pollRun[p]}
        /\ UNCHANGED <<status, adding, pollRun, loopVars>>
    BY <1>7 DEF Claim, RemoveJob
  <2>2. QED
    BY <1>a, <2>1 DEF loopVars, RunsTypeOK
<1>8. ASSUME NEW p \in Polls, Mark(p) PROVE OnePlace'
  <2>1. /\ pollPc' = [pollPc EXCEPT ![p] = "count"]
        /\ pollPc[p] = "mark"
        /\ status' = [status EXCEPT ![pollRun[p]] = "running"]
        /\ UNCHANGED <<queue, adding, pollRun, loopVars>>
    BY <1>8 DEF Mark, MarkJobRunStarted
  <2>2. QED
    BY <1>a, <2>1 DEF loopVars, RunsTypeOK
<1>9. ASSUME NEW p \in Polls, Respond(p) PROVE OnePlace'
  <2>1. pollRun[p] \in Runs /\ PollHost[p] \in Hosts /\ HostOf[pollRun[p]] = PollHost[p]
    BY <1>a, <1>9 DEF Respond, PollReturns, PollShape, RunsTypeOK
  <2>2. UNCHANGED <<status, adding, queue, began, exec>>
    BY <1>9 DEF Respond, PollReturns, AgentReceives, loopVars
  <2>3. /\ pollRun' = [pollRun EXCEPT ![p] = NoRun]
        /\ pollPc' = [pollPc EXCEPT ![p] = "idle"]
        /\ pollPc[p] = "respond"
    BY <1>9 DEF Respond, PollReturns
  <2>4. CASE ~Listening(PollHost[p], p)
    <3>1. UNCHANGED <<loop, loopPoll, held>>
      BY <1>9, <2>4 DEF Respond, loopVars
    <3>2. QED
      BY <1>a, <2>1, <2>2, <2>3, <3>1 DEF RunsTypeOK
  <2>5. CASE Listening(PollHost[p], p)
    <3>1. /\ loop' = [loop EXCEPT ![PollHost[p]] = "held"]
          /\ loopPoll' = [loopPoll EXCEPT ![PollHost[p]] = NoPoll]
          /\ held' = [held EXCEPT ![PollHost[p]] = pollRun[p]]
      BY <1>9, <2>5 DEF Respond, AgentReceives
    <3>2. /\ pollRun[p] \notin queue \cup adding
          /\ status[pollRun[p]] # "none"
          /\ began[pollRun[p]] = 0
      BY <1>a, <2>1, <2>3, <2>5
    <3>3. \A h \in Hosts, q \in Polls :
              Listening(h, q)' => h # PollHost[p] /\ Listening(h, q)
      BY <1>a, <2>1, <3>1 DEF LoopTypeOK
    <3>4. \A h \in Hosts, q \in Polls :
              Listening(h, q)' /\ pollRun'[q] # NoRun =>
                  HostOf[pollRun'[q]] = h /\ pollRun'[q] = pollRun[q]
      <4>1. \A h \in Hosts, q \in Polls : Listening(h, q) => PollHost[q] = h
        BY DEF IInv, BusyPolls
      <4>2. QED
        BY <1>a, <2>3, <3>3, <4>1 DEF PollShape, RunsTypeOK
    <3>5. QED
      BY <1>a, <2>1, <2>2, <2>3, <3>1, <3>2, <3>3, <3>4 DEF RunsTypeOK, LoopTypeOK
  <2>6. QED
    BY <2>4, <2>5
<1>10. ASSUME NEW p \in Polls, RespondEmpty(p) \/ RespondError(p) PROVE OnePlace'
  <2>1. UNCHANGED <<status, adding, queue, held, began, exec>>
    BY <1>10 DEF RespondEmpty, PollEmpty, RespondError, PollThrows, AgentPollEnds, loopVars
  <2>2. /\ pollRun' \in {pollRun, [pollRun EXCEPT ![p] = NoRun]}
        /\ pollPc' = [pollPc EXCEPT ![p] = "idle"]
        /\ pollPc[p] # "listed"
    BY <1>10 DEF RespondEmpty, PollEmpty, RespondError, PollThrows
  <2>3. \A h \in Hosts, q \in Polls : Listening(h, q)' => Listening(h, q)
    BY <1>a, <1>10 DEF RespondEmpty, RespondError, AgentPollEnds, loopVars, LoopTypeOK
  <2>4. RespondEmpty(p) => pollRun[p] = NoRun
    BY <1>a DEF RespondEmpty, PollEmpty, PollShape
  <2>5. pollRun' = [pollRun EXCEPT ![p] = NoRun]
    BY <1>a, <1>10, <2>2, <2>4 DEF RespondError, PollThrows, RunsTypeOK
  <2>6. QED
    BY <1>a, <2>1, <2>2, <2>3, <2>5 DEF RunsTypeOK
<1>11. ASSUME NEW h \in Hosts, NEW p \in Polls, Poll(h, p) PROVE OnePlace'
  <2>1. /\ pollPc[p] = "idle"
        /\ pollPc' = [pollPc EXCEPT ![p] = "wait"]
        /\ loop' = [loop EXCEPT ![h] = "polling"]
        /\ loopPoll' = [loopPoll EXCEPT ![h] = p]
        /\ UNCHANGED <<status, adding, queue, pollRun, held, began, exec>>
    BY <1>11 DEF Poll, AgentPolls, PollStart
  <2>2. pollRun[p] = NoRun
    BY <1>a, <2>1 DEF PollShape
  <2>3. QED
    BY <1>a, <2>1, <2>2 DEF RunsTypeOK, LoopTypeOK
<1>12. ASSUME NEW h \in Hosts, PollFails(h) \/ Start(h) PROVE OnePlace'
  <2>1. UNCHANGED <<status, adding, queue, pollPc, pollRun, held, began, exec>>
    BY <1>12 DEF PollFails, AgentPollEnds, Start, AgentStart, runVars
  <2>2. \A g \in Hosts, q \in Polls : Listening(g, q)' => Listening(g, q)
    BY <1>a, <1>12 DEF PollFails, AgentPollEnds, Start, AgentStart, LoopTypeOK
  <2>3. QED
    BY <1>a, <2>1, <2>2
<1>13. ASSUME NEW h \in Hosts, Begin(h) PROVE OnePlace'
  <2>1. held[h] \in Runs /\ UNCHANGED <<status, adding, queue, pollPc, pollRun>>
    BY <1>a, <1>13 DEF Begin, StartJob, HeldShape, LoopTypeOK, runVars
  <2>2. /\ loop' = [loop EXCEPT ![h] = "idle"]
        /\ held' = [held EXCEPT ![h] = NoRun]
        /\ exec' = [exec EXCEPT ![held[h]] = "executing"]
        /\ began' = [began EXCEPT ![held[h]] = @ + 1]
        /\ UNCHANGED loopPoll
    BY <1>13 DEF Begin, StartJob
  <2>3. \A g \in Hosts : held[g] = held[h] => g = h
    BY <1>a, <2>1 DEF HeldShape
  <2>4. began[held[h]] = 0 /\ held[h] \notin queue \cup adding /\ status[held[h]] # "none"
    BY <1>a, <2>1 DEF LoopTypeOK
  <2>5. \A g \in Hosts, q \in Polls :
            Listening(g, q)' => Listening(g, q) /\ pollRun[q] # held[h]
    BY <1>a, <2>1, <2>2 DEF LoopTypeOK
  <2>6. QED
    BY <1>a, <2>1, <2>2, <2>3, <2>4, <2>5 DEF LoopTypeOK
<1>14. ASSUME NEW h \in Hosts, Crash(h) PROVE OnePlace'
  <2>1. UNCHANGED <<status, adding, queue, pollPc, pollRun, began>>
    BY <1>14 DEF Crash, AgentDies, runVars
  <2>2. held' = [held EXCEPT ![h] = NoRun]
    BY <1>14 DEF Crash, AgentDies
  <2>3. \A r \in Runs : exec'[r] = "no" <=> exec[r] = "no"
    BY <1>14 DEF Crash, AgentDies
  <2>4. \A g \in Hosts, q \in Polls : Listening(g, q)' => Listening(g, q)
    BY <1>a, <1>14 DEF Crash, AgentDies, LoopTypeOK
  <2>5. QED
    BY <1>a, <2>1, <2>2, <2>3, <2>4 DEF LoopTypeOK
<1>15. ASSUME NEW c \in Cancels, CancelStep(c) PROVE OnePlace'
  <2>1. UNCHANGED <<adding, pollPc, pollRun, loop, loopPoll, held, began, exec>>
    BY <1>15, CancelFrame DEF loopVars
  <2>2. queue' \subseteq queue /\ \A r \in Runs : status'[r] = "none" => status[r] = "none"
    BY <1>a, <1>15 DEF CancelStep, Cancel, CancelDequeue, CancelDone, CancelRun, runVars,
                       RunsTypeOK
  <2>3. QED
    BY <1>a, <2>1, <2>2
<1>16. ASSUME Restart PROVE OnePlace'
  BY <1>a, <1>16 DEF Restart, RunsRestart, loopVars
<1>17. CASE UNCHANGED <<status, adding, queue, pollPc, pollRun, loop, loopPoll, held, began,
                        exec>>
  BY <1>a, <1>17
<1>18. ASSUME NEW p \in Polls, ReadClaimed(p) \/ CountStarted(p) \/ ScanEnds(p)
       PROVE  OnePlace'
  <2>1. /\ UNCHANGED <<status, adding, queue, pollRun, loopVars>>
        /\ pollPc[p] # "listed"
        /\ \E x \in PollPc : pollPc' = [pollPc EXCEPT ![p] = x]
    BY <1>18 DEF ReadClaimed, ReadRunToStart, CountStarted, StartCounted, ScanEnds, LastScan,
                 PollPc
  <2>2. QED
    BY <1>a, <2>1 DEF loopVars, RunsTypeOK
<1> HIDE DEF OnePlace, Unheld, Listening
<1>19. QED
  <2>1. ASSUME NEW r \in Runs, RunStep(r) PROVE OnePlace'
    <3>1. CASE Check(r) \/ CountCompleted(r) \/ EffectFails(r) \/ CompleteBatch(r)
               \/ Progress(r) \/ Age(r)
      BY <3>1, <1>17 DEF Check, CheckResult, CountCompleted, ResultCounted, EffectFails,
         ResultEffectFails, CompleteBatch, ResultHandlerEnds, Progress, ReportJobProgress,
         Age, HeartbeatAges, loopVars
    <3>2. QED
      BY <2>1, <3>1, <1>1, <1>2, <1>3, <1>4, <1>5 DEF RunStep
  <2>2. ASSUME NEW p \in Polls, PollStep(p) PROVE OnePlace'
    BY <2>2, <1>6, <1>7, <1>8, <1>9, <1>10, <1>18 DEF PollStep
  <2>3. ASSUME NEW h \in Hosts, HostStep(h) PROVE OnePlace'
    BY <2>3, <1>11, <1>12, <1>13, <1>14 DEF HostStep
  <2>4. CASE StartBatch \/ CreateInBatchFails \/ UNCHANGED vars
    BY <2>4, <1>17, BatchFrame DEF vars, runVars, loopVars
  <2>5. QED
    BY <1>15, <1>16, <2>1, <2>2, <2>3, <2>4 DEF Next

-----------------------------------------------------------------------------
(* Reports, the gate and the polls.                                        *)

(* A result handler exists only for an execution that has ended, and only  *)
(* the handler of a success writes success.                                *)
LEMMA ReportsStep == IInv /\ [Next]_vars => Reports'
<1> SUFFICES ASSUME IInv, [Next]_vars PROVE Reports'
  OBVIOUS
<1> USE JobAssumption DEF Reports
<1>a. Reports /\ OnePlace /\ PollShape /\ HeldShape /\ RunsTypeOK /\ LoopTypeOK
  BY DEF IInv, Places, TypeOK
<1>1. ASSUME NEW r \in Runs, Create(r) \/ CreateInBatch(r) \/ FailStale(r) PROVE Reports'
  <2>1. \E x \in {"pending", "failed"} : status' = [status EXCEPT ![r] = x]
    BY <1>1 DEF Create, CreateInBatch, CreateRow, FailStale, FailStaleRun
  <2>2. UNCHANGED <<rep, exec, outcome>>
    BY <1>1 DEF Create, CreateInBatch, CreateRow, FailStale, FailStaleRun, loopVars
  <2>3. QED
    BY <1>a, <2>1, <2>2 DEF RunsTypeOK
<1>2. ASSUME NEW r \in Runs, NEW o \in {"success", "failed"}, Finish(r, o) PROVE Reports'
  <2>1. rep[r] = "none" /\ status[r] # "success"
    BY <1>a, <1>2 DEF Finish, ExecuteReturns
  <2>2. /\ exec' = [exec EXCEPT ![r] = "reporting"]
        /\ outcome' = [outcome EXCEPT ![r] = o]
        /\ status' = status
        /\ rep' \in {rep, [rep EXCEPT ![r] = "sent"]}
    BY <1>2 DEF Finish, ExecuteReturns, ResultArrives, runVars
  <2>3. QED
    BY <1>a, <2>1, <2>2 DEF LoopTypeOK, RunsTypeOK
<1>3. ASSUME NEW r \in Runs, Release(r) PROVE Reports'
  <2>1. UNCHANGED <<status, rep, outcome>>
    BY <1>3 DEF Release, ReleaseRead, ReleaseFlag, ReleaseToken, runVars
  <2>2. \E x \in {"clearing", "done"} : exec' = [exec EXCEPT ![r] = x]
    BY <1>3 DEF Release, ReleaseRead, ReleaseFlag, ReleaseToken
  <2>3. QED
    BY <1>a, <2>1, <2>2 DEF LoopTypeOK
<1>4. ASSUME NEW r \in Runs, Check(r) PROVE Reports'
  <2>1. rep[r] = "sent" /\ UNCHANGED <<status, exec, outcome>>
    BY <1>4 DEF Check, CheckResult, loopVars
  <2>2. \E x \in {"checked", "done"} : rep' = [rep EXCEPT ![r] = x]
    BY <1>4 DEF Check, CheckResult
  <2>3. QED
    BY <1>a, <2>1, <2>2 DEF RunsTypeOK
<1>5. ASSUME NEW r \in Runs, Write(r) PROVE Reports'
  BY <1>a, <1>5 DEF Write, WriteResult, loopVars, RunsTypeOK
<1>6. ASSUME NEW r \in Runs, CountCompleted(r) \/ EffectFails(r) \/ CompleteBatch(r)
      PROVE  Reports'
  <2>1. rep[r] \notin {"none", "sent", "checked"} /\ UNCHANGED <<status, exec, outcome>>
    BY <1>6 DEF CountCompleted, ResultCounted, EffectFails, ResultEffectFails, CompleteBatch,
                ResultHandlerEnds, loopVars
  <2>2. \E x \in {"completed", "completed_with_failures", "done"} :
            rep' = [rep EXCEPT ![r] = x] /\ (x # "done" => r \in BatchRuns)
    BY <1>6 DEF CountCompleted, ResultCounted, AfterCompleted, EffectFails,
                ResultEffectFails, CompleteBatch, ResultHandlerEnds
  <2>3. QED
    BY <1>a, <2>1, <2>2 DEF RunsTypeOK
<1>7. ASSUME NEW p \in Polls, Mark(p) PROVE Reports'
  BY <1>a, <1>7, PollFrame DEF Mark, MarkJobRunStarted, PollStep, RunsTypeOK
<1>8. ASSUME NEW h \in Hosts, Begin(h) PROVE Reports'
  <2>1. held[h] \in Runs /\ rep[held[h]] = "none"
    <3>1. held[h] \in Runs
      BY <1>a, <1>8 DEF Begin, StartJob, HeldShape, LoopTypeOK
    <3>2. exec[held[h]] = "no"
      BY <1>a, <3>1 DEF OnePlace
    <3>3. QED
      BY <1>a, <3>1, <3>2
  <2>2. exec' = [exec EXCEPT ![held[h]] = "executing"] /\ UNCHANGED <<status, rep, outcome>>
    BY <1>8 DEF Begin, StartJob, runVars
  <2>3. QED
    BY <1>a, <2>1, <2>2 DEF LoopTypeOK
<1>9. ASSUME NEW h \in Hosts, Crash(h) PROVE Reports'
  BY <1>a, <1>9 DEF Crash, AgentDies, runVars
<1>10. ASSUME NEW c \in Cancels, CancelStep(c) PROVE Reports'
  <2>1. UNCHANGED <<rep, exec, outcome>>
    BY <1>10, CancelFrame DEF loopVars
  <2>2. \A r \in Runs : status'[r] = "success" => status[r] = "success"
    BY <1>a, <1>10 DEF CancelStep, Cancel, CancelDequeue, CancelDone, CancelRun, runVars,
                       RunsTypeOK
  <2>3. QED
    BY <1>a, <2>1, <2>2
<1>11. ASSUME Restart PROVE Reports'
  BY <1>a, <1>11 DEF Restart, RunsRestart, loopVars
<1>12. CASE UNCHANGED <<status, rep, exec, outcome>>
  BY <1>a, <1>12
<1> HIDE DEF Reports
<1>13. QED
  <2>1. ASSUME NEW r \in Runs, RunStep(r) PROVE Reports'
    <3>1. CASE Enqueue(r) \/ EnqueueFails(r) \/ Progress(r) \/ Age(r)
      BY <3>1, <1>12 DEF Enqueue, AddJob, EnqueueFails, AddJobFails, Progress,
         ReportJobProgress, Age, HeartbeatAges, loopVars
    <3>2. QED
      BY <2>1, <3>1, <1>1, <1>2, <1>3, <1>4, <1>5, <1>6 DEF RunStep
  <2>2. ASSUME NEW p \in Polls, PollStep(p) PROVE Reports'
    <3>1. CASE ~Mark(p)
      <4>1. UNCHANGED status
        BY <2>2, <3>1 DEF PollStep, List, GetJobs, Claim, RemoveJob, ReadClaimed, ReadRunToStart,
           CountStarted, StartCounted, Respond, PollReturns, ScanEnds, LastScan,
           RespondEmpty, PollEmpty, RespondError, PollThrows
      <4>2. QED
        BY <2>2, <4>1, <1>12, PollFrame
    <3>2. QED
      BY <3>1, <1>7
  <2>3. ASSUME NEW h \in Hosts, HostStep(h) PROVE Reports'
    <3>1. CASE (\E p \in Polls : Poll(h, p)) \/ PollFails(h) \/ Start(h)
      BY <3>1, <1>12 DEF Poll, AgentPolls, PollStart, PollFails, AgentPollEnds, Start,
         AgentStart, runVars
    <3>2. QED
      BY <2>3, <3>1, <1>8, <1>9 DEF HostStep
  <2>4. CASE StartBatch \/ CreateInBatchFails \/ UNCHANGED vars
    BY <2>4, <1>12, BatchFrame DEF vars, runVars, loopVars
  <2>5. QED
    BY <1>10, <1>11, <2>1, <2>2, <2>3, <2>4 DEF Next

(* The mutation token is out while a mutation goroutine lives, one         *)
(* goroutine has it, and the flag is up while it executes or reports.      *)
LEMMA GateStep == IInv /\ [Next]_vars => Gate'
<1> SUFFICES ASSUME IInv, [Next]_vars PROVE Gate'
  OBVIOUS
<1> USE JobAssumption DEF Gate, HasToken, Busy
<1>a. Gate /\ OnePlace /\ HeldShape /\ LoopTypeOK
  BY DEF IInv, Places, TypeOK
<1>1. ASSUME NEW r \in Runs, NEW o \in {"success", "failed"}, Finish(r, o) PROVE Gate'
  BY <1>a, <1>1 DEF Finish, ExecuteReturns, LoopTypeOK
<1>2. ASSUME NEW r \in Runs, Release(r) PROVE Gate'
  <2>1. CASE ReleaseRead(r)
    BY <1>a, <2>1 DEF ReleaseRead, LoopTypeOK
  <2>2. CASE ReleaseFlag(r)
    <3>1. \A s \in Runs \ {r} : Busy(s) => HostOf[s] # HostOf[r]
      BY <1>a, <2>2 DEF ReleaseFlag
    <3>2. QED
      BY <1>a, <2>2, <3>1 DEF ReleaseFlag, LoopTypeOK
  <2>3. CASE ReleaseToken(r)
    <3>1. \A s \in Runs \ {r} : HasToken(s) => HostOf[s] # HostOf[r]
      BY <1>a, <2>3 DEF ReleaseToken
    <3>2. QED
      BY <1>a, <2>3, <3>1 DEF ReleaseToken, LoopTypeOK
  <2>4. QED
    BY <1>2, <2>1, <2>2, <2>3 DEF Release
<1>3. ASSUME NEW h \in Hosts, Begin(h) PROVE Gate'
  <2>1. held[h] \in Runs /\ HostOf[held[h]] = h
    BY <1>a, <1>3 DEF Begin, StartJob, HeldShape, LoopTypeOK
  <2>2. exec' = [exec EXCEPT ![held[h]] = "executing"]
    BY <1>3 DEF Begin, StartJob
  <2>3. CASE held[h] \in ReadOnly
    <3>1. UNCHANGED <<busy, gate>>
      BY <1>3, <2>3 DEF Begin, StartJob
    <3>2. QED
      BY <1>a, <2>1, <2>2, <2>3, <3>1 DEF LoopTypeOK
  <2>4. CASE held[h] \notin ReadOnly
    <3>1. /\ gate[h]
          /\ gate' = [gate EXCEPT ![h] = FALSE]
          /\ busy' = [busy EXCEPT ![h] = TRUE]
      BY <1>3, <2>4 DEF Begin, StartJob
    <3>2. \A s \in Runs : HasToken(s) => HostOf[s] # h
      BY <1>a, <3>1
    <3>3. QED
      BY <1>a, <2>1, <2>2, <2>4, <3>1, <3>2 DEF LoopTypeOK
  <2>5. QED
    BY <2>3, <2>4
<1>4. ASSUME NEW h \in Hosts, Crash(h) PROVE Gate'
  BY <1>a, <1>4 DEF Crash, AgentDies, LoopTypeOK
<1>5. CASE UNCHANGED <<exec, gate, busy>>
  BY <1>a, <1>5
<1> HIDE DEF Gate, HasToken, Busy
<1>6. QED
  <2>1. ASSUME NEW r \in Runs, RunStep(r) PROVE Gate'
    <3>1. CASE UNCHANGED loopVars
      BY <3>1, <1>5 DEF loopVars
    <3>2. QED
      BY <2>1, <3>1, <1>1, <1>2 DEF RunStep, Create, CreateInBatch, Enqueue, EnqueueFails,
         Check, Write, CountCompleted, EffectFails, CompleteBatch, Progress, Age, FailStale
  <2>2. ASSUME NEW p \in Polls, PollStep(p) PROVE Gate'
    BY <2>2, <1>5, PollFrame
  <2>3. ASSUME NEW h \in Hosts, HostStep(h) PROVE Gate'
    <3>1. CASE (\E p \in Polls : Poll(h, p)) \/ PollFails(h) \/ Start(h)
      BY <3>1, <1>5 DEF Poll, AgentPolls, PollFails, AgentPollEnds, Start, AgentStart
    <3>2. QED
      BY <2>3, <3>1, <1>3, <1>4 DEF HostStep
  <2>4. ASSUME NEW c \in Cancels, CancelStep(c) PROVE Gate'
    BY <2>4, <1>5, CancelFrame DEF loopVars
  <2>5. CASE StartBatch \/ CreateInBatchFails \/ Restart \/ UNCHANGED vars
    BY <2>5, <1>5, BatchFrame DEF Restart, vars, loopVars
  <2>6. QED
    BY <2>1, <2>2, <2>3, <2>4, <2>5 DEF Next

(* A mutation goroutine never appears between the moment the loop reads    *)
(* the flag as down and the moment it holds the mutation it asked for.     *)
LEMMA BusyPollsStep == IInv /\ [Next]_vars => BusyPolls'
<1> SUFFICES ASSUME IInv, [Next]_vars PROVE BusyPolls'
  OBVIOUS
<1> USE JobAssumption DEF BusyPolls, Listening
<1>a. BusyPolls /\ PollShape /\ HeldShape /\ RunsTypeOK /\ LoopTypeOK
  BY DEF IInv, Places, TypeOK
<1>1. ASSUME NEW r \in Runs, RunStep(r) PROVE BusyPolls'
  <2>1. \A s \in Runs : Busy(s)' => Busy(s)
    BY <1>a, <1>1 DEF RunStep, Create, CreateInBatch, Enqueue, EnqueueFails, Finish, Release,
       Check, Write, CountCompleted, EffectFails, CompleteBatch, Progress, Age, FailStale,
       ExecuteReturns, ReleaseRead, ReleaseFlag, ReleaseToken, Busy, loopVars, LoopTypeOK
  <2>2. QED
    BY <1>a, <1>1, <2>1, RunFrame
<1>2. ASSUME NEW p \in Polls, NEW r \in Runs, List(p, r) PROVE BusyPolls'
  BY <1>a, <1>2 DEF List, GetJobs, Claimable, loopVars, Busy, RunsTypeOK
<1>3. ASSUME NEW p \in Polls, Claim(p) \/ ReadClaimed(p) \/ Mark(p) \/ CountStarted(p)
                              \/ ScanEnds(p)
      PROVE  BusyPolls'
  <2>1. pollPc[p] # "idle" /\ UNCHANGED <<pollBusy, pollRun, loop, loopPoll, held, exec>>
    BY <1>3 DEF Claim, RemoveJob, ReadClaimed, ReadRunToStart, Mark, MarkJobRunStarted, CountStarted,
                StartCounted, ScanEnds, LastScan, loopVars
  <2>2. \E x \in {"claimed", "mark", "count", "respond", "empty"} : pollPc' = [pollPc EXCEPT ![p] = x]
    BY <1>3 DEF Claim, RemoveJob, ReadClaimed, ReadRunToStart, Mark, MarkJobRunStarted, CountStarted,
                StartCounted, ScanEnds, LastScan
  <2>3. QED
    BY <1>a, <2>1, <2>2 DEF Busy, RunsTypeOK
<1>4. ASSUME NEW p \in Polls, Respond(p) PROVE BusyPolls'
  <2>1. /\ pollPc' = [pollPc EXCEPT ![p] = "idle"]
        /\ pollBusy' = [pollBusy EXCEPT ![p] = FALSE]
        /\ pollRun' = [pollRun EXCEPT ![p] = NoRun]
        /\ UNCHANGED exec
        /\ PollHost[p] \in Hosts
    BY <1>4 DEF Respond, PollReturns, AgentReceives, loopVars
  <2>2. pollPc[p] # "idle" /\ (pollRun[p] \notin ReadOnly => ~pollBusy[p])
    BY <1>a, <1>4 DEF Respond, PollReturns, PollShape
  <2>3. CASE Listening(PollHost[p], p)
    <3>1. /\ loop' = [loop EXCEPT ![PollHost[p]] = "held"]
          /\ loopPoll' = [loopPoll EXCEPT ![PollHost[p]] = NoPoll]
          /\ held' = [held EXCEPT ![PollHost[p]] = pollRun[p]]
      BY <1>4, <2>3 DEF Respond, AgentReceives
    <3>2. pollRun[p] \notin ReadOnly =>
              \A r \in Runs : HostOf[r] = PollHost[p] => ~Busy(r)
      BY <1>a, <2>1, <2>2, <2>3
    <3>3. QED
      BY <1>a, <2>1, <3>1, <3>2 DEF Busy, RunsTypeOK, LoopTypeOK
  <2>4. CASE ~Listening(PollHost[p], p)
    <3>1. UNCHANGED <<loop, loopPoll, held>>
      BY <1>4, <2>4 DEF Respond, loopVars
    <3>2. QED
      BY <1>a, <2>1, <3>1 DEF Busy, RunsTypeOK
  <2>5. QED
    BY <2>3, <2>4
<1>5. ASSUME NEW p \in Polls, RespondEmpty(p) \/ RespondError(p) PROVE BusyPolls'
  <2>1. /\ pollPc' = [pollPc EXCEPT ![p] = "idle"]
        /\ pollBusy' = [pollBusy EXCEPT ![p] = FALSE]
        /\ UNCHANGED pollRun \/ pollRun' = [pollRun EXCEPT ![p] = NoRun]
        /\ UNCHANGED <<held, exec>>
    BY <1>5 DEF RespondEmpty, PollEmpty, RespondError, PollThrows, AgentPollEnds, loopVars
  <2>2. \A h \in Hosts, q \in Polls : Listening(h, q)' => Listening(h, q)
    BY <1>a, <1>5 DEF RespondEmpty, RespondError, AgentPollEnds, loopVars, LoopTypeOK
  <2>3. QED
    BY <1>a, <2>1, <2>2 DEF Busy, RunsTypeOK
<1>6. ASSUME NEW h \in Hosts, NEW p \in Polls, Poll(h, p) PROVE BusyPolls'
  <2>1. ~busy[h] => \A r \in Runs : HostOf[r] = h => ~Busy(r)
    BY DEF IInv, Gate
  <2>2. /\ PollHost[p] = h /\ pollPc[p] = "idle" /\ loop[h] = "idle"
        /\ pollPc' = [pollPc EXCEPT ![p] = "wait"]
        /\ pollBusy' = [pollBusy EXCEPT ![p] = busy[h]]
        /\ loop' = [loop EXCEPT ![h] = "polling"]
        /\ loopPoll' = [loopPoll EXCEPT ![h] = p]
        /\ UNCHANGED <<pollRun, held, exec>>
    BY <1>6 DEF Poll, AgentPolls, PollStart
  <2>3. pollRun[p] = NoRun
    BY <1>a, <2>2 DEF PollShape
  <2>4. QED
    BY <1>a, <2>1, <2>2, <2>3 DEF Busy, RunsTypeOK, LoopTypeOK
<1>7. ASSUME NEW h \in Hosts, PollFails(h) \/ Start(h) PROVE BusyPolls'
  <2>1. UNCHANGED <<pollPc, pollBusy, pollRun, held, exec>>
    BY <1>7 DEF PollFails, AgentPollEnds, Start, AgentStart, runVars
  <2>2. \A g \in Hosts, q \in Polls : Listening(g, q)' => Listening(g, q)
    BY <1>a, <1>7 DEF PollFails, AgentPollEnds, Start, AgentStart, LoopTypeOK
  <2>3. QED
    BY <1>a, <2>1, <2>2 DEF Busy
<1>8. ASSUME NEW h \in Hosts, Begin(h) PROVE BusyPolls'
  <2>1. held[h] \in Runs /\ HostOf[held[h]] = h
    BY <1>a, <1>8 DEF Begin, StartJob, HeldShape, LoopTypeOK
  <2>2. /\ loop' = [loop EXCEPT ![h] = "idle"]
        /\ held' = [held EXCEPT ![h] = NoRun]
        /\ exec' = [exec EXCEPT ![held[h]] = "executing"]
        /\ UNCHANGED <<loopPoll, pollPc, pollBusy, pollRun>>
    BY <1>8 DEF Begin, StartJob, runVars
  <2>3. \A r \in Runs : HostOf[r] # h => (Busy(r)' <=> Busy(r))
    BY <1>a, <2>1, <2>2 DEF Busy, LoopTypeOK
  <2>4. \A g \in Hosts, q \in Polls : Listening(g, q)' => g # h /\ Listening(g, q)
    BY <1>a, <2>2 DEF LoopTypeOK
  <2>5. QED
    BY <1>a, <2>2, <2>3, <2>4 DEF LoopTypeOK
<1>9. ASSUME NEW h \in Hosts, Crash(h) PROVE BusyPolls'
  <2>1. /\ loop' = [loop EXCEPT ![h] = "down"]
        /\ held' = [held EXCEPT ![h] = NoRun]
        /\ loopPoll' = [loopPoll EXCEPT ![h] = NoPoll]
        /\ UNCHANGED <<pollPc, pollBusy, pollRun>>
    BY <1>9 DEF Crash, AgentDies, runVars
  <2>2. \A r \in Runs : Busy(r)' => Busy(r)
    BY <1>a, <1>9 DEF Crash, AgentDies, Busy
  <2>3. QED
    BY <1>a, <2>1, <2>2 DEF LoopTypeOK
<1>10. ASSUME Restart PROVE BusyPolls'
  BY <1>a, <1>10 DEF Restart, RunsRestart, loopVars, Busy
<1>11. CASE UNCHANGED <<pollPc, pollBusy, pollRun, loopVars>>
  BY <1>a, <1>11 DEF loopVars, Busy
<1> HIDE DEF BusyPolls, Listening
<1>12. QED
  <2>1. ASSUME NEW p \in Polls, PollStep(p) PROVE BusyPolls'
    BY <2>1, <1>2, <1>3, <1>4, <1>5 DEF PollStep
  <2>2. ASSUME NEW h \in Hosts, HostStep(h) PROVE BusyPolls'
    BY <2>2, <1>6, <1>7, <1>8, <1>9 DEF HostStep
  <2>3. ASSUME NEW c \in Cancels, CancelStep(c) PROVE BusyPolls'
    BY <2>3, <1>11, CancelFrame
  <2>4. CASE StartBatch \/ CreateInBatchFails \/ UNCHANGED vars
    BY <2>4, <1>11, BatchFrame DEF vars, runVars
  <2>5. QED
    BY <1>1, <1>10, <2>1, <2>2, <2>3, <2>4 DEF Next

-----------------------------------------------------------------------------
(* What is handed out has left the queue; the batch counters add up.       *)

(* A run that was marked running is never queued again.                    *)
LEMMA HandedStep == IInv /\ [Next]_vars => Handed'
<1> SUFFICES ASSUME IInv, [Next]_vars PROVE Handed'
  OBVIOUS
<1> USE JobAssumption DEF Handed
<1>a. Handed /\ OnePlace /\ PollShape /\ Reports /\ RunsTypeOK
  BY DEF IInv, Places, TypeOK
<1>1. ASSUME NEW r \in Runs, Create(r) \/ CreateInBatch(r) PROVE Handed'
  <2>1. CreateRow(r)
    BY <1>1 DEF Create, CreateInBatch
  <2>2. QED
    BY <1>a, <2>1 DEF CreateRow, RunsTypeOK
<1>2. ASSUME NEW r \in Runs, Enqueue(r) \/ EnqueueFails(r) PROVE Handed'
  BY <1>a, <1>2 DEF Enqueue, AddJob, EnqueueFails, AddJobFails, RunsTypeOK
<1>3. ASSUME NEW r \in Runs, Write(r) PROVE Handed'
  <2>1. r \notin adding \cup queue
    BY <1>a, <1>3 DEF Write, WriteResult, Reports, OnePlace
  <2>2. QED
    BY <1>a, <1>3, <2>1 DEF Write, WriteResult, RunsTypeOK
<1>4. ASSUME NEW r \in Runs, FailStale(r) PROVE Handed'
  BY <1>a, <1>4 DEF FailStale, FailStaleRun, RunsTypeOK
<1>5. ASSUME NEW p \in Polls, Mark(p) PROVE Handed'
  <2>1. pollRun[p] \in Runs
    BY <1>a, <1>5 DEF Mark, MarkJobRunStarted, PollShape, RunsTypeOK
  <2>2. pollRun[p] \notin adding \cup queue
    BY <1>a, <1>5, <2>1 DEF OnePlace, Unheld, Mark, MarkJobRunStarted
  <2>3. QED
    BY <1>a, <1>5, <2>1, <2>2 DEF Mark, MarkJobRunStarted, RunsTypeOK
<1>6. ASSUME NEW p \in Polls, PollStep(p), ~Mark(p) PROVE Handed'
  <2>1. status' = status /\ adding' = adding /\ queue' \subseteq queue
    BY <1>6 DEF PollStep, List, GetJobs, Claim, RemoveJob, ReadClaimed, ReadRunToStart,
       CountStarted, StartCounted, Respond, PollReturns, ScanEnds, LastScan, RespondEmpty,
       PollEmpty, RespondError, PollThrows
  <2>2. QED
    BY <1>a, <2>1
<1>7. ASSUME NEW c \in Cancels, CancelStep(c) PROVE Handed'
  <2>1. queue' \subseteq queue /\ UNCHANGED adding
    BY <1>7, CancelFrame DEF CancelStep, Cancel, CancelDequeue, CancelDone, CancelRun, runVars
  <2>2. \A r \in Runs : status'[r] \in {status[r], "cancelled"}
    BY <1>a, <1>7 DEF CancelStep, Cancel, CancelDequeue, CancelDone, CancelRun, runVars,
                       RunsTypeOK
  <2>3. QED
    BY <1>a, <2>1, <2>2
<1>8. ASSUME Restart PROVE Handed'
  BY <1>a, <1>8 DEF Restart, RunsRestart
<1>9. CASE UNCHANGED <<status, adding, queue>>
  BY <1>a, <1>9
<1> HIDE DEF Handed
<1>10. QED
  <2>1. ASSUME NEW r \in Runs, RunStep(r) PROVE Handed'
    <3>1. CASE (\E o \in {"success", "failed"} : Finish(r, o)) \/ Release(r) \/ Check(r)
               \/ CountCompleted(r) \/ EffectFails(r) \/ CompleteBatch(r) \/ Progress(r)
               \/ Age(r)
      BY <3>1, <1>9 DEF Finish, ResultArrives, Release, Check, CheckResult, CountCompleted,
         ResultCounted, EffectFails, ResultEffectFails, CompleteBatch, ResultHandlerEnds,
         Progress, ReportJobProgress, Age, HeartbeatAges, runVars
    <3>2. QED
      BY <2>1, <3>1, <1>1, <1>2, <1>3, <1>4 DEF RunStep
  <2>2. ASSUME NEW p \in Polls, PollStep(p) PROVE Handed'
    BY <2>2, <1>5, <1>6
  <2>3. ASSUME NEW h \in Hosts, HostStep(h) PROVE Handed'
    BY <2>3, <1>9, HostFrame
  <2>4. CASE StartBatch \/ CreateInBatchFails \/ UNCHANGED vars
    BY <2>4, <1>9, BatchFrame DEF vars, runVars
  <2>5. QED
    BY <1>7, <1>8, <2>1, <2>2, <2>3, <2>4 DEF Next

(* A counter is only ever moved, never dropped or invented, and no handler *)
(* counts before the batch row exists.                                     *)
LEMMA TallyStep == IInv /\ [Next]_vars => Tally'
<1> SUFFICES ASSUME IInv, [Next]_vars PROVE Tally'
  OBVIOUS
<1> USE JobAssumption DEF Tally, CountsAddUp, NoBatchYet, Counters
<1>a. Tally /\ OnePlace /\ PollShape /\ Reports /\ RunsTypeOK /\ LoopTypeOK /\ BatchTypeOK
  BY DEF IInv, Places, TypeOK
<1>n. /\ Cardinality(BatchRuns) \in Nat
      /\ counts \in [Counters -> Int]
      /\ \A k \in Counters : counts[k] \in Int
  BY <1>a, FS_CardinalityType DEF BatchTypeOK
<1>b. CASE bstatus # "none" /\ UNCHANGED <<bstatus, counts>>
  BY <1>b, <1>a
<1>c. CASE /\ UNCHANGED batchVars
           /\ bstatus = "none" => \A r \in BatchRuns : status'[r] = status[r]
  BY <1>c, <1>a DEF batchVars
<1>1. ASSUME NEW r \in Runs, Create(r) PROVE Tally'
  BY <1>a, <1>c, <1>1 DEF Create, CreateRow, RunsTypeOK
<1>2. ASSUME NEW r \in Runs, CreateInBatch(r) PROVE Tally'
  BY <1>a, <1>b, <1>2 DEF CreateInBatch, CreateBatchJob
<1>3. ASSUME NEW r \in Runs, EnqueueFails(r) PROVE Tally'
  <2>1. CASE UNCHANGED batchVars
    BY <2>1, <1>c, <1>3 DEF EnqueueFails, AddJobFails
  <2>2. CASE CreateBatchFails
    BY <2>2, <1>a, <1>b DEF CreateBatchFails
  <2>3. QED
    BY <1>3, <2>1, <2>2 DEF EnqueueFails
<1>4. ASSUME NEW r \in Runs, Write(r) \/ FailStale(r) PROVE Tally'
  <2>1. status[r] # "none"
    BY <1>a, <1>4 DEF Write, WriteResult, FailStale, FailStaleRun, Reports, OnePlace
  <2>2. \A s \in Runs : s # r => status'[s] = status[s]
    BY <1>a, <1>4 DEF Write, WriteResult, FailStale, FailStaleRun, RunsTypeOK
  <2>3. QED
    BY <1>a, <1>c, <1>4, <2>1, <2>2 DEF Write, FailStale
<1>5. ASSUME NEW r \in Runs, CountCompleted(r) PROVE Tally'
  <2>1. CASE r \in BatchRuns
    <3>1. status[r] # "none" /\ outcome[r] \in {"success", "failed"}
      BY <1>a, <1>5 DEF CountCompleted, Reports, OnePlace, LoopTypeOK
    <3>2. /\ bstatus # "none" /\ bstatus' = bstatus
          /\ counts' = [counts EXCEPT !["running"] = @ - 1, ![outcome[r]] = @ + 1]
      BY <1>a, <1>5, <2>1, <3>1 DEF CountCompleted, RecordJobRunCompleted
    <3>3. CASE outcome[r] = "success"
      <4>1. /\ counts'["running"] = counts["running"] - 1
            /\ counts'["success"] = counts["success"] + 1
            /\ \A k \in {"pending", "failed", "cancelled"} : counts'[k] = counts[k]
        BY <1>n, <3>2, <3>3
      <4>2. QED
        BY <1>a, <1>n, <3>2, <4>1
    <3>4. CASE outcome[r] = "failed"
      <4>1. /\ counts'["running"] = counts["running"] - 1
            /\ counts'["failed"] = counts["failed"] + 1
            /\ \A k \in {"pending", "success", "cancelled"} : counts'[k] = counts[k]
        BY <1>n, <3>2, <3>4
      <4>2. QED
        BY <1>a, <1>n, <3>2, <4>1
    <3>5. QED
      BY <3>1, <3>3, <3>4
  <2>2. CASE r \notin BatchRuns
    BY <2>2, <1>c, <1>5 DEF CountCompleted, ResultCounted
  <2>3. QED
    BY <2>1, <2>2
<1>6. ASSUME NEW r \in Runs, CompleteBatch(r) PROVE Tally'
  <2>1. status[r] # "none" /\ r \in BatchRuns
    BY <1>a, <1>6 DEF CompleteBatch, ResultHandlerEnds, Reports, OnePlace
  <2>2. QED
    BY <1>a, <1>6, <2>1 DEF CompleteBatch, ResultHandlerEnds, WriteBatchStatus
<1>7. ASSUME NEW p \in Polls, Mark(p) PROVE Tally'
  <2>1. pollRun[p] \in Runs
    BY <1>a, <1>7 DEF Mark, MarkJobRunStarted, PollShape, RunsTypeOK
  <2>2. status[pollRun[p]] # "none"
    BY <1>a, <2>1 DEF OnePlace, Unheld
  <2>3. QED
    BY <1>a, <1>c, <1>7, <2>1, <2>2 DEF Mark, MarkJobRunStarted, RunsTypeOK
<1>8. ASSUME NEW p \in Polls, CountStarted(p) PROVE Tally'
  <2>1. CASE pollRun[p] \in BatchRuns
    <3>1. status[pollRun[p]] # "none"
      BY <1>a, <2>1 DEF OnePlace, Unheld
    <3>2. /\ bstatus # "none" /\ bstatus' = bstatus
          /\ counts' = [counts EXCEPT !["pending"] = @ - 1, !["running"] = @ + 1]
      BY <1>a, <1>8, <2>1, <3>1 DEF CountStarted, RecordJobRunStarted
    <3>3. /\ counts'["pending"] = counts["pending"] - 1
          /\ counts'["running"] = counts["running"] + 1
          /\ \A k \in {"success", "failed", "cancelled"} : counts'[k] = counts[k]
      BY <1>n, <3>2
    <3>4. QED
      BY <1>a, <1>n, <3>2, <3>3
  <2>2. CASE pollRun[p] \notin BatchRuns
    BY <2>2, <1>c, <1>8 DEF CountStarted, StartCounted
  <2>3. QED
    BY <2>1, <2>2
<1>9. ASSUME NEW c \in Cancels, Cancel(c) PROVE Tally'
  BY <1>a, <1>b, <1>9 DEF Cancel, CancelReads
<1>10. ASSUME NEW c \in Cancels, CancelDequeue(c) \/ \E r \in Runs : CancelRun(c, r)
       PROVE  Tally'
  BY <1>a, <1>b, <1>10 DEF CancelDequeue, CancelRemoves, CancelRun, CancelOverwrites
<1>11. ASSUME NEW c \in Cancels, CancelDone(c) PROVE Tally'
  <2>1. bstatus # "none" /\ cancelled[c] \in Nat
    BY <1>a, <1>11 DEF CancelDone, CancelFinishes, BatchTypeOK
  <2>2. /\ bstatus' = "cancelled"
        /\ counts' = [counts EXCEPT !["pending"] = @ - cancelled[c],
                                    !["cancelled"] = @ + cancelled[c]]
    BY <1>11 DEF CancelDone, CancelFinishes
  <2>3. /\ counts'["pending"] = counts["pending"] - cancelled[c]
        /\ counts'["cancelled"] = counts["cancelled"] + cancelled[c]
        /\ \A k \in {"running", "success", "failed"} : counts'[k] = counts[k]
    BY <1>n, <2>2
  <2>4. QED
    BY <1>a, <1>n, <2>1, <2>2, <2>3
<1>12. ASSUME StartBatch PROVE Tally'
  BY <1>a, <1>12, FS_CardinalityType DEF StartBatch, CreateBatch, BatchTypeOK
<1>13. ASSUME CreateInBatchFails PROVE Tally'
  BY <1>a, <1>b, <1>13 DEF CreateInBatchFails, CreateBatchFails
<1>14. ASSUME Restart PROVE Tally'
  BY <1>a, <1>14 DEF Restart, RunsRestart, BatchRestart
<1> HIDE DEF Tally, CountsAddUp, NoBatchYet, Counters
<1>15. QED
  <2>1. ASSUME NEW r \in Runs, RunStep(r) PROVE Tally'
    <3>1. CASE Enqueue(r) \/ (\E o \in {"success", "failed"} : Finish(r, o)) \/ Release(r)
               \/ Check(r) \/ EffectFails(r) \/ Progress(r) \/ Age(r)
      BY <3>1, <1>c DEF Enqueue, AddJob, Finish, ResultArrives, Release, Check, CheckResult,
         EffectFails, ResultEffectFails, Progress, ReportJobProgress, Age, HeartbeatAges,
         runVars
    <3>2. QED
      BY <2>1, <3>1, <1>1, <1>2, <1>3, <1>4, <1>5, <1>6 DEF RunStep
  <2>2. ASSUME NEW p \in Polls, PollStep(p) PROVE Tally'
    <3>1. CASE (\E r \in Runs : List(p, r)) \/ Claim(p) \/ ReadClaimed(p) \/ Respond(p)
               \/ ScanEnds(p) \/ RespondEmpty(p) \/ RespondError(p)
      BY <3>1, <1>c DEF List, GetJobs, Claim, RemoveJob, ReadClaimed, ReadRunToStart, Respond,
         PollReturns, ScanEnds, LastScan, RespondEmpty, PollEmpty, RespondError, PollThrows
    <3>2. QED
      BY <2>2, <3>1, <1>7, <1>8 DEF PollStep
  <2>3. ASSUME NEW h \in Hosts, HostStep(h) PROVE Tally'
    <3>1. UNCHANGED batchVars
      BY <2>3 DEF HostStep, Poll, PollFails, Start, Begin, Crash
    <3>2. QED
      BY <2>3, <3>1, <1>c, HostFrame
  <2>4. ASSUME NEW c \in Cancels, CancelStep(c) PROVE Tally'
    BY <2>4, <1>9, <1>10, <1>11 DEF CancelStep
  <2>5. CASE UNCHANGED vars
    BY <2>5, <1>c DEF vars, runVars
  <2>6. QED
    BY <1>12, <1>14, <1>13, <2>1, <2>2, <2>3, <2>4, <2>5 DEF Next

-----------------------------------------------------------------------------
(* The invariant and what follows from it.                                 *)

(* The inductive invariant holds when nothing has been created and every   *)
(* agent is down.                                                          *)
LEMMA InitInv == Init => IInv
<1> SUFFICES ASSUME Init PROVE IInv
  OBVIOUS
<1> USE JobAssumption, BoundsAssumption DEF Init, RunsInit, LoopInit, BatchInit
<1>1. TypeOK
  BY DEF TypeOK, RunsTypeOK, LoopTypeOK, BatchTypeOK, JobRunStatus, PollPc, RepPc, LoopPc,
         ExecPc, BatchStatus, Counters
<1>2. Places
  BY DEF Places, PollShape, HeldShape, OnePlace, Unheld
<1>3. Reports /\ Gate
  BY DEF Reports, Gate, Busy, HasToken
<1>4. BusyPolls /\ Handed
  BY DEF BusyPolls, Listening, Handed
<1>5. Tally
  BY DEF Tally, CountsAddUp, NoBatchYet
<1>6. QED
  BY <1>1, <1>2, <1>3, <1>4, <1>5 DEF IInv

(* The inductive invariant holds in every reachable state of the pipeline. *)
THEOREM Invariance == Spec => []IInv
<1>1. IInv /\ [Next]_vars => IInv'
  BY TypeStep, PollShapeStep, HeldShapeStep, OnePlaceStep, ReportsStep, GateStep,
     BusyPollsStep, HandedStep, TallyStep DEF IInv, Places
<1>2. QED
  BY <1>1, InitInv, PTL DEF Spec

(* Type correctness of rows, queue, handlers, agents and batch.            *)
THEOREM TypeCorrect == Spec => []TypeOK
<1>1. IInv => TypeOK
  BY DEF IInv
<1>2. QED
  BY <1>1, Invariance, PTL

(* No job goroutine is ever started twice for a run: the claim in          *)
(* getNextJobForHost, the hand-over of the poll response and the loop of   *)
(* the agent between them execute a run at most once.                      *)
THEOREM AtMostOnce == Spec => []ExecutedAtMostOnce
<1>1. IInv => ExecutedAtMostOnce
  BY DEF IInv, Places, OnePlace, ExecutedAtMostOnce
<1>2. QED
  BY <1>1, Invariance, PTL

(* executionLimiter: one host never executes two mutations at a time.      *)
THEOREM MutationExclusion == Spec => []MutationsExclusive
<1>1. IInv => MutationsExclusive
  BY DEF IInv, Gate, MutationsExclusive, MutationsOn, HasToken, Busy
<1>2. QED
  BY <1>1, Invariance, PTL

(* The mutationBusy flag sent with a poll is enough: a mutation the loop   *)
(* received finds no other one executing or reporting.                     *)
THEOREM HeldMutationFree == Spec => []HeldMutationNeverWaits
<1>1. IInv => HeldMutationNeverWaits
  <2> SUFFICES ASSUME IInv, NEW h \in Hosts, held[h] \in MutationsOn(h),
                      NEW s \in MutationsOn(h)
               PROVE  exec[s] \notin {"executing", "reporting"}
    BY DEF HeldMutationNeverWaits
  <2>1. held[h] # NoRun /\ held[h] \notin ReadOnly /\ s \in Runs \ ReadOnly /\ HostOf[s] = h
    BY JobAssumption DEF MutationsOn
  <2>2. QED
    BY <2>1 DEF IInv, BusyPolls, Busy
<1>2. QED
  BY <1>1, Invariance, PTL

(* A run recorded as success was executed, once, and reported success.     *)
THEOREM SuccessExecuted == Spec => []SuccessWasExecuted
<1>1. IInv => SuccessWasExecuted
  <2> SUFFICES ASSUME IInv, NEW r \in Runs, status[r] = "success"
               PROVE  began[r] = 1 /\ outcome[r] = "success"
    BY DEF SuccessWasExecuted
  <2>1. outcome[r] = "success" /\ exec[r] # "no"
    BY DEF IInv, Reports
  <2>2. began[r] # 0 /\ began[r] <= 1 /\ began[r] \in Nat
    BY <2>1 DEF IInv, Places, OnePlace, TypeOK, LoopTypeOK
  <2>3. QED
    BY <2>1, <2>2
<1>2. QED
  BY <1>1, Invariance, PTL

(* The denormalised counters of the batch row always add up to its jobs.   *)
THEOREM CountersAddUp == Spec => []CountsAddUp
<1>1. IInv => CountsAddUp
  BY DEF IInv, Tally
<1>2. QED
  BY <1>1, Invariance, PTL

(* A run that was reported or swept never re-enters the queue and is not   *)
(* taken up again.  It stays settled but for the write of a handler that   *)
(* had listed it before it was claimed and read it while it was pending;   *)
(* and when its result was sent, no agent waits for that handler, so that  *)
(* the run is not executed again.                                          *)
THEOREM SettledStays == Spec => NeverRevived
<1>1. ASSUME IInv, IInv', [Next]_vars, NEW r \in Runs, status[r] \in {"success", "failed"}
      PROVE  /\ r \notin queue'
             /\ \A p \in Polls : pollRun'[p] = r => pollRun[p] = r
             /\ status'[r] \in Terminal \/ (status'[r] = "running" /\ LateMark(r))
  <2> USE JobAssumption DEF Terminal
  <2>a. Handed /\ OnePlace /\ Reports /\ PollShape /\ RunsTypeOK /\ LoopTypeOK
    BY <1>1 DEF IInv, Places, TypeOK
  <2>b. r \notin queue /\ r \notin adding
    BY <1>1, <2>a DEF Handed
  <2>1. status'[r] \in Terminal \/ (status'[r] = "running" /\ LateMark(r))
    <3>1. ASSUME NEW s \in Runs, RunStep(s) PROVE status'[r] \in Terminal
      <4>1. Write(s) => outcome[s] \in {"success", "failed"}
        BY <2>a DEF Write, WriteResult, Reports, LoopTypeOK
      <4>2. QED
        BY <1>1, <2>a, <3>1, <4>1 DEF RunStep, Create, CreateInBatch, CreateRow, Enqueue,
           AddJob, EnqueueFails, AddJobFails, Finish, ResultArrives, Release, Check,
           CheckResult, Write, WriteResult, CountCompleted, ResultCounted, EffectFails,
           ResultEffectFails, CompleteBatch, ResultHandlerEnds, Progress, ReportJobProgress,
           Age, HeartbeatAges, FailStale, FailStaleRun, runVars, RunsTypeOK
    <3>2. ASSUME NEW p \in Polls, PollStep(p), status'[r] \notin Terminal
          PROVE  status'[r] = "running" /\ LateMark(r)
      <4>1. Mark(p) /\ pollRun[p] = r
        BY <1>1, <2>a, <3>2 DEF PollStep, List, GetJobs, Claim, RemoveJob, ReadClaimed,
           ReadRunToStart, Mark, MarkJobRunStarted, CountStarted, StartCounted, Respond,
           PollReturns, ScanEnds, LastScan, RespondEmpty, PollEmpty, RespondError,
           PollThrows, RunsTypeOK
      <4>2. status'[r] = "running" /\ pollPc[p] = "mark"
        BY <2>a, <4>1 DEF Mark, MarkJobRunStarted, RunsTypeOK
      <4>3. ASSUME rep[r] # "none" PROVE ~Listening(PollHost[p], p)
        <5>1. began[r] # 0
          BY <2>a, <4>3 DEF Reports, OnePlace
        <5>2. QED
          BY <2>a, <4>1, <5>1 DEF OnePlace
      <4>4. QED
        BY <4>1, <4>2, <4>3 DEF LateMark
    <3>3. ASSUME NEW h \in Hosts, HostStep(h) PROVE status'[r] \in Terminal
      BY <1>1, <3>3, HostFrame
    <3>4. ASSUME NEW c \in Cancels, CancelStep(c) PROVE status'[r] \in Terminal
      BY <1>1, <2>a, <3>4 DEF CancelStep, Cancel, CancelDequeue, CancelDone, CancelRun,
         runVars, RunsTypeOK
    <3>5. CASE StartBatch \/ CreateInBatchFails \/ Restart \/ UNCHANGED vars
      BY <1>1, <3>5, BatchFrame DEF Restart, RunsRestart, vars, runVars
    <3>6. QED
      BY <1>1, <3>1, <3>2, <3>3, <3>4, <3>5 DEF Next
  <2>2. r \notin queue'
    <3>1. ASSUME NEW s \in Runs, RunStep(s) PROVE queue' \subseteq queue \cup adding
      BY <3>1 DEF RunStep, Create, CreateInBatch, CreateRow, Enqueue,
         AddJob, EnqueueFails, AddJobFails, Finish, ResultArrives, Release, Check,
         CheckResult, Write, WriteResult, CountCompleted, ResultCounted, EffectFails,
         ResultEffectFails, CompleteBatch, ResultHandlerEnds, Progress, ReportJobProgress,
         Age, HeartbeatAges, FailStale, FailStaleRun, runVars
    <3>2. ASSUME NEW p \in Polls, PollStep(p) PROVE queue' \subseteq queue
      BY <3>2 DEF PollStep, List, GetJobs, Claim, RemoveJob, ReadClaimed, ReadRunToStart,
         Mark, MarkJobRunStarted, CountStarted, StartCounted, Respond, PollReturns,
         ScanEnds, LastScan, RespondEmpty, PollEmpty, RespondError, PollThrows
    <3>3. ASSUME NEW c \in Cancels, CancelStep(c) PROVE queue' \subseteq queue
      BY <3>3 DEF CancelStep, Cancel, CancelDequeue, CancelDone, CancelRun, runVars
    <3>4. CASE StartBatch \/ CreateInBatchFails \/ Restart \/ UNCHANGED vars
      BY <2>b, <3>4, BatchFrame DEF Restart, RunsRestart, vars, runVars
    <3>5. QED
      BY <1>1, <2>b, <3>1, <3>2, <3>3, <3>4, HostFrame DEF Next
  <2>3. \A p \in Polls : pollRun'[p] = r => pollRun[p] = r
    <3>1. ASSUME NEW q \in Polls, PollStep(q), NEW p \in Polls, pollRun'[p] = r
          PROVE  pollRun[p] = r
      <4>1. CASE \E s \in Runs : List(q, s)
        BY <2>a, <2>b, <3>1, <4>1 DEF List, GetJobs, Claimable, RunsTypeOK
      <4>2. CASE pollRun' \in {pollRun, [pollRun EXCEPT ![q] = NoRun]}
        BY <2>a, <3>1, <4>2 DEF RunsTypeOK
      <4>3. QED
        BY <3>1, <4>1, <4>2 DEF PollStep, Claim, RemoveJob, ReadClaimed, ReadRunToStart,
           Mark, MarkJobRunStarted, CountStarted, StartCounted, Respond, PollReturns,
           ScanEnds, LastScan, RespondEmpty, PollEmpty, RespondError, PollThrows
    <3>2. CASE UNCHANGED pollRun
      BY <3>2
    <3>3. CASE Restart
      BY <3>3 DEF Restart, RunsRestart
    <3>4. QED
      BY <1>1, <3>1, <3>2, <3>3, RunFrame, HostFrame, CancelFrame, BatchFrame
      DEF Next, vars, runVars
  <2>4. QED
    BY <2>1, <2>2, <2>3
<1>2. IInv /\ IInv' /\ [Next]_vars =>
        [\A r \in Runs : status[r] \in {"success", "failed"} =>
            /\ r \notin queue'
            /\ \A p \in Polls : pollRun'[p] = r => pollRun[p] = r
            /\ status'[r] \in Terminal \/ (status'[r] = "running" /\ LateMark(r))]_vars
  BY <1>1
<1>3. QED
  BY <1>2, Invariance, PTL DEF Spec, NeverRevived

-----------------------------------------------------------------------------
(* The pipeline implements the dispatcher of JobDispatch.  A step of the     *)
(* pipeline moves at most one run forward, or loses what a handler or a      *)
(* process had in its hands, or is a stutter; which of these it is follows   *)
(* from the inductive invariant, because a run is in one place.              *)


(* A step that changes nothing a stage depends on is a stutter.            *)
LEMMA StageStutter ==
    ASSUME UNCHANGED <<status, queue, adding, pollRun, held, began>>
    PROVE  \A r \in Runs : StageOf(r)' = StageOf(r)
BY DEF StageOf, InFlight

(* A step that loses runs, and changes no other stage, is Lose.            *)
LEMMA LoseStep ==
    ASSUME \A r \in Runs :
               StageOf(r)' = StageOf(r)
               \/ (StageOf(r) \in {"absent", "queued", "taken"} /\ StageOf(r)' = "gone")
    PROVE  Dispatch!Next
<1> DEFINE S == {r \in Runs : StageOf(r)' # StageOf(r)}
<1>1. Dispatch!Lose(S)
  BY DEF Dispatch!Lose
<1>2. QED
  BY <1>1 DEF Dispatch!Next

(* A step that changes the stage of one run moves it.                      *)
LEMMA MoveStep ==
    ASSUME NEW r \in Runs, NEW from, NEW to, StageOf(r) = from, StageOf(r)' = to,
           \A s \in Runs \ {r} : StageOf(s)' = StageOf(s)
    PROVE  Dispatch!Move(r, from, to)
BY DEF Dispatch!Move

(* A step of a run is Submit, Lose or a stutter.                           *)
LEMMA RunStepRefines ==
    ASSUME IInv, NEW r \in Runs, RunStep(r) PROVE Dispatch!Next
<1> USE JobAssumption
<1>a. OnePlace /\ Reports /\ RunsTypeOK /\ LoopTypeOK
  BY DEF IInv, Places, TypeOK
<1>b. UNCHANGED <<pollRun, held>> /\ UNCHANGED began
  <2>1. UNCHANGED began
    BY DEF RunStep, Create, CreateInBatch, Enqueue, EnqueueFails, Finish, Release, Check,
       Write, CountCompleted, EffectFails, CompleteBatch, Progress, Age, FailStale,
       ExecuteReturns, ReleaseRead, ReleaseFlag, ReleaseToken, loopVars
  <2>2. QED
    BY <2>1, RunFrame
<1>1. CASE Create(r) \/ CreateInBatch(r)
  <2>1. CreateRow(r)
    BY <1>1 DEF Create, CreateInBatch
  <2>2. \A s \in Runs : StageOf(s)' = StageOf(s)
    BY <1>a, <1>b, <2>1 DEF CreateRow, StageOf, InFlight, OnePlace, Unheld, RunsTypeOK, LoopTypeOK
  <2>3. QED
    BY <2>2, LoseStep
<1>2. CASE Enqueue(r)
  <2>1. StageOf(r) = "absent" /\ StageOf(r)' = "queued"
    BY <1>a, <1>b, <1>2 DEF Enqueue, AddJob, StageOf, InFlight, OnePlace, Unheld, LoopTypeOK
  <2>2. \A s \in Runs \ {r} : StageOf(s)' = StageOf(s)
    BY <1>b, <1>2 DEF Enqueue, AddJob, StageOf, InFlight
  <2>3. Dispatch!Submit(r)
    BY <2>1, <2>2, MoveStep DEF Dispatch!Submit
  <2>4. QED
    BY <2>3 DEF Dispatch!Next
<1>3. CASE EnqueueFails(r)
  <2>1. StageOf(r) = "absent" /\ StageOf(r)' = "gone"
    BY <1>a, <1>b, <1>3 DEF EnqueueFails, AddJobFails, StageOf, InFlight, OnePlace, Unheld,
                            LoopTypeOK
  <2>2. \A s \in Runs \ {r} : StageOf(s)' = StageOf(s)
    BY <1>b, <1>3 DEF EnqueueFails, AddJobFails, StageOf, InFlight
  <2>3. QED
    BY <2>1, <2>2, LoseStep
<1>4. CASE Write(r) \/ FailStale(r)
  <2>1. status[r] # "none" /\ status'[r] # "none"
    BY <1>a, <1>4, SMTT(30) DEF Write, WriteResult, FailStale, FailStaleRun, Reports, OnePlace, RunsTypeOK
  <2>2. UNCHANGED <<adding, queue>> /\ \A s \in Runs \ {r} : status'[s] = status[s]
    BY <1>a, <1>4 DEF Write, WriteResult, FailStale, FailStaleRun, RunsTypeOK
  <2>3. \A s \in Runs : StageOf(s)' = StageOf(s)
    BY <1>b, <2>1, <2>2 DEF StageOf, InFlight
  <2>4. QED
    BY <2>3, LoseStep
<1>5. CASE UNCHANGED <<status, queue, adding>>
  BY <1>5, <1>b, StageStutter, LoseStep
<1>6. QED
  BY <1>1, <1>2, <1>3, <1>4, <1>5 DEF RunStep, Finish, ResultArrives, Release, Check,
     CheckResult, CountCompleted, ResultCounted, EffectFails, ResultEffectFails,
     CompleteBatch, ResultHandlerEnds, Progress, ReportJobProgress, Age, HeartbeatAges,
     runVars

(* A step of a poll handler is Take, Lose or a stutter.                    *)
LEMMA PollStepRefines ==
    ASSUME IInv, NEW p \in Polls, PollStep(p) PROVE Dispatch!Next
<1> USE JobAssumption
<1>a. OnePlace /\ PollShape /\ HeldShape /\ RunsTypeOK /\ LoopTypeOK
  BY DEF IInv, Places, TypeOK
<1>b. UNCHANGED <<adding, began>>
  BY PollFrame
<1>1. CASE Claim(p)
  <2>1. PICK r \in Runs : pollRun[p] = r
    BY <1>a, <1>1 DEF Claim, RemoveJob, PollShape, RunsTypeOK
  <2>2. queue' = queue \ {r} /\ UNCHANGED <<status, pollRun, held>>
    BY <1>1, <2>1 DEF Claim, RemoveJob, loopVars
  <2>3. \A s \in Runs \ {r} : StageOf(s)' = StageOf(s)
    BY <1>b, <2>2 DEF StageOf, InFlight
  <2>4. CASE r \in queue
    <3>1. StageOf(r) = "queued" /\ StageOf(r)' = "taken"
      BY <1>a, <1>b, <2>1, <2>2, <2>4 DEF StageOf, InFlight, OnePlace
    <3>2. Dispatch!Take(r)
      BY <2>3, <3>1, MoveStep DEF Dispatch!Take
    <3>3. QED
      BY <3>2 DEF Dispatch!Next
  <2>5. CASE r \notin queue
    <3>1. queue' = queue
      BY <2>2, <2>5
    <3>2. QED
      BY <1>b, <2>2, <3>1, StageStutter, LoseStep
  <2>6. QED
    BY <2>4, <2>5
<1>0. ASSUME NEW r \in Runs, List(p, r) PROVE Dispatch!Next
  <2>1. /\ pollRun[p] = NoRun /\ r \in queue
        /\ pollRun' = [pollRun EXCEPT ![p] = r]
        /\ UNCHANGED <<status, queue, held>>
    BY <1>a, <1>0 DEF List, GetJobs, Claimable, PollShape, loopVars
  <2>2. \A s \in Runs \ {r} : StageOf(s)' = StageOf(s)
    BY <1>a, <1>b, <2>1 DEF StageOf, InFlight, RunsTypeOK
  <2>3. StageOf(r)' = StageOf(r)
    BY <1>a, <1>b, <2>1 DEF StageOf, OnePlace
  <2>4. QED
    BY <2>2, <2>3, LoseStep
<1>2. CASE Mark(p)
  <2>1. pollRun[p] \in Runs
    BY <1>a, <1>2 DEF Mark, MarkJobRunStarted, PollShape, RunsTypeOK
  <2>2. /\ status' = [status EXCEPT ![pollRun[p]] = "running"]
        /\ UNCHANGED <<queue, pollRun, held>>
    BY <1>2 DEF Mark, MarkJobRunStarted, loopVars
  <2>3. \A s \in Runs : StageOf(s)' = StageOf(s)
    BY <1>a, <1>b, <2>1, <2>2 DEF StageOf, InFlight, RunsTypeOK
  <2>4. QED
    BY <2>3, LoseStep
<1>3. CASE Respond(p)
  <2>1. PICK r \in Runs : pollRun[p] = r
    BY <1>a, <1>3 DEF Respond, PollReturns, PollShape, RunsTypeOK
  <2>2. pollRun' = [pollRun EXCEPT ![p] = NoRun] /\ UNCHANGED <<status, queue>>
    BY <1>3 DEF Respond, PollReturns
  <2>3. \/ UNCHANGED held
        \/ /\ held[PollHost[p]] = NoRun
           /\ held' = [held EXCEPT ![PollHost[p]] = r]
    BY <1>a, <1>3, <2>1 DEF Respond, AgentReceives, Listening, loopVars, HeldShape
  <2>4. r \notin queue \cup adding /\ status[r] # "none"
    BY <1>a, <1>3, <2>1 DEF OnePlace, Unheld, Respond, PollReturns
  <2>5. \/ StageOf(r) = "executed" /\ StageOf(r)' = "executed"
        \/ StageOf(r) = "taken" /\ StageOf(r)' \in {"taken", "gone"}
    BY <1>b, <2>1, <2>2, <2>4 DEF StageOf, InFlight
  <2>6. \A s \in Runs \ {r} : StageOf(s)' = StageOf(s)
    <3>1. \A s \in Runs \ {r} : InFlight(s)' <=> InFlight(s)
      BY <1>a, <2>1, <2>2, <2>3 DEF InFlight, RunsTypeOK, LoopTypeOK
    <3>2. QED
      BY <1>b, <2>2, <3>1 DEF StageOf
  <2>7. QED
    BY <2>5, <2>6, LoseStep
<1>4. CASE RespondError(p)
  <2>1. PICK r \in Runs : pollRun[p] = r
    BY <1>a, <1>4 DEF RespondError, PollThrows, PollShape, RunsTypeOK
  <2>2. pollRun' = [pollRun EXCEPT ![p] = NoRun] /\ UNCHANGED <<status, queue, held>>
    BY <1>4 DEF RespondError, PollThrows, AgentPollEnds, loopVars
  <2>3. r \notin queue \cup adding /\ status[r] # "none"
    BY <1>a, <1>4, <2>1 DEF OnePlace, Unheld, RespondError, PollThrows
  <2>4. \/ StageOf(r) = "executed" /\ StageOf(r)' = "executed"
        \/ StageOf(r) = "taken" /\ StageOf(r)' \in {"taken", "gone"}
    BY <1>b, <2>1, <2>2, <2>3 DEF StageOf, InFlight
  <2>5. \A s \in Runs \ {r} : StageOf(s)' = StageOf(s)
    <3>1. \A s \in Runs \ {r} : InFlight(s)' <=> InFlight(s)
      BY <1>a, <2>1, <2>2 DEF InFlight, RunsTypeOK
    <3>2. QED
      BY <1>b, <2>2, <3>1 DEF StageOf
  <2>6. QED
    BY <2>4, <2>5, LoseStep
<1>5. CASE ReadClaimed(p) \/ CountStarted(p) \/ ScanEnds(p) \/ RespondEmpty(p)
  <2>1. UNCHANGED <<status, queue, adding, pollRun, held, began>>
    BY <1>5, <1>b DEF ReadClaimed, ReadRunToStart, CountStarted, StartCounted, ScanEnds,
       LastScan, RespondEmpty, PollEmpty, AgentPollEnds, loopVars
  <2>2. QED
    BY <2>1, StageStutter, LoseStep
<1>6. QED
  BY <1>0, <1>1, <1>2, <1>3, <1>4, <1>5 DEF PollStep

(* A step of an agent is Execute, Lose or a stutter.                       *)
LEMMA HostStepRefines ==
    ASSUME IInv, NEW h \in Hosts, HostStep(h) PROVE Dispatch!Next
<1> USE JobAssumption
<1>a. OnePlace /\ PollShape /\ HeldShape /\ RunsTypeOK /\ LoopTypeOK
  BY DEF IInv, Places, TypeOK
<1>b. UNCHANGED <<status, queue, adding, pollRun>>
  BY HostFrame
<1>1. CASE Begin(h)
  <2>1. PICK r \in Runs : held[h] = r
    BY <1>a, <1>1 DEF Begin, StartJob, HeldShape, LoopTypeOK
  <2>2. held' = [held EXCEPT ![h] = NoRun] /\ began' = [began EXCEPT ![r] = @ + 1]
    BY <1>1, <2>1 DEF Begin, StartJob
  <2>3. began[r] = 0 /\ r \notin queue
    BY <1>a, <2>1 DEF OnePlace, LoopTypeOK
  <2>4. StageOf(r) = "taken" /\ StageOf(r)' = "executed"
    BY <1>a, <2>1, <2>2, <2>3 DEF StageOf, InFlight, LoopTypeOK
  <2>5. \A s \in Runs \ {r} : StageOf(s)' = StageOf(s)
    <3>1. \A s \in Runs \ {r} : InFlight(s)' <=> InFlight(s)
      BY <1>a, <1>b, <2>1, <2>2 DEF InFlight, LoopTypeOK
    <3>2. QED
      BY <1>a, <1>b, <2>2, <3>1 DEF StageOf, LoopTypeOK
  <2>6. Dispatch!Execute(r)
    BY <2>4, <2>5, MoveStep DEF Dispatch!Execute
  <2>7. QED
    BY <2>6 DEF Dispatch!Next
<1>2. CASE Crash(h)
  <2>1. held' = [held EXCEPT ![h] = NoRun] /\ UNCHANGED began
    BY <1>2 DEF Crash, AgentDies
  <2>2. \A s \in Runs : held[h] # s => StageOf(s)' = StageOf(s)
    <3>1. \A s \in Runs : held[h] # s => (InFlight(s)' <=> InFlight(s))
      BY <1>a, <1>b, <2>1 DEF InFlight, LoopTypeOK
    <3>2. QED
      BY <1>b, <2>1, <3>1 DEF StageOf
  <2>3. ASSUME NEW s \in Runs, held[h] = s
        PROVE  StageOf(s) = "taken" /\ StageOf(s)' \in {"taken", "gone"}
    <3>1. began[s] = 0 /\ s \notin queue \cup adding /\ status[s] # "none"
      BY <1>a, <2>3 DEF OnePlace, Unheld
    <3>2. QED
      BY <1>b, <2>1, <2>3, <3>1 DEF StageOf, InFlight
  <2>4. QED
    BY <2>2, <2>3, LoseStep
<1>3. CASE (\E p \in Polls : Poll(h, p)) \/ PollFails(h) \/ Start(h)
  <2>1. UNCHANGED <<held, began>>
    BY <1>3 DEF Poll, AgentPolls, PollFails, AgentPollEnds, Start, AgentStart
  <2>2. QED
    BY <1>b, <2>1, StageStutter, LoseStep
<1>4. QED
  BY <1>1, <1>2, <1>3 DEF HostStep

(* A step of cancelBatch loses the run it takes off the queue, unless a    *)
(* handler had listed it already.                                          *)
LEMMA CancelStepRefines ==
    ASSUME IInv, NEW c \in Cancels, CancelStep(c) PROVE Dispatch!Next
<1> USE JobAssumption
<1>a. OnePlace /\ RunsTypeOK
  BY DEF IInv, Places, TypeOK
<1>b. UNCHANGED <<adding, pollRun, held, began>>
  BY CancelFrame DEF loopVars
<1>1. ASSUME NEW r \in Runs, CancelRun(c, r) PROVE Dispatch!Next
  <2>1. UNCHANGED queue /\ status' = [status EXCEPT ![r] = "cancelled"]
    BY <1>1 DEF CancelRun
  <2>2. \A s \in Runs \ {r} : StageOf(s)' = StageOf(s)
    BY <1>a, <1>b, <2>1 DEF StageOf, InFlight, RunsTypeOK
  <2>3. StageOf(r)' = StageOf(r) \/ (StageOf(r) = "absent" /\ StageOf(r)' = "gone")
    BY <1>a, <1>b, <2>1 DEF StageOf, InFlight, RunsTypeOK
  <2>4. QED
    BY <2>2, <2>3, LoseStep
<1>2. CASE CancelDequeue(c)
  <2>1. queue' \in {queue, queue \ {cancelCur[c]}} /\ UNCHANGED status
    BY <1>2 DEF CancelDequeue
  <2>2. CASE queue' = queue
    BY <1>b, <2>1, <2>2, StageStutter, LoseStep
  <2>3. CASE queue' # queue
    <3>1. PICK s \in queue : queue' = queue \ {s}
      BY <2>1, <2>3
    <3>2. s \in Runs
      BY <1>a, <3>1 DEF RunsTypeOK
    <3>3. StageOf(s) = "queued" /\ StageOf(s)' \in {"taken", "gone"}
      BY <1>a, <1>b, <2>1, <3>1, <3>2 DEF StageOf, InFlight, OnePlace
    <3>4. \A t \in Runs \ {s} : StageOf(t)' = StageOf(t)
      BY <1>b, <2>1, <3>1 DEF StageOf, InFlight
    <3>5. StageOf(s)' = "taken" => Dispatch!Take(s)
      BY <3>2, <3>3, <3>4, MoveStep DEF Dispatch!Take
    <3>6. StageOf(s)' = "gone" => Dispatch!Next
      BY <3>2, <3>3, <3>4, LoseStep
    <3>7. QED
      BY <3>2, <3>3, <3>5, <3>6 DEF Dispatch!Next
  <2>4. QED
    BY <2>2, <2>3
<1>3. CASE Cancel(c) \/ CancelDone(c)
  BY <1>3, <1>b, StageStutter, LoseStep DEF Cancel, CancelDone, runVars
<1>4. QED
  BY <1>1, <1>2, <1>3 DEF CancelStep

(* The restart of the control plane loses what its handlers had claimed    *)
(* and the rows it had not yet queued.                                     *)
LEMMA RestartRefines ==
    ASSUME IInv, Restart PROVE Dispatch!Next
<1>a. OnePlace
  BY DEF IInv, Places
<1>1. /\ adding' = {} /\ pollRun' = [p \in Polls |-> NoRun]
      /\ UNCHANGED <<status, queue, held, began>>
  BY DEF Restart, RunsRestart, loopVars
<1>2. \A r \in Runs : InFlight(r)' => InFlight(r)
  BY <1>1, JobAssumption DEF InFlight
<1>3. \A r \in Runs : r \in adding => ~InFlight(r)
  BY <1>a DEF OnePlace, Unheld, InFlight
<1>4. \A r \in Runs : InFlight(r) => status[r] # "none"
  BY <1>a DEF OnePlace, Unheld, InFlight
<1>5. QED
  BY <1>1, <1>2, <1>3, <1>4, LoseStep DEF StageOf

(* The queue, the poll handlers, cancelBatch and the agents, with the      *)
(* deaths of their processes, implement the dispatcher that takes a run    *)
(* once, executes it at most once and never brings a lost one back.        *)
THEOREM Refinement == Spec => ImplementsDispatch
<1>1. Init => Dispatch!Init
  BY JobAssumption DEF Init, RunsInit, LoopInit, Dispatch!Init, StageOf, InFlight
<1>2. IInv /\ [Next]_vars => [Dispatch!Next]_[r \in Runs |-> StageOf(r)]
  <2>1. ASSUME UNCHANGED vars PROVE UNCHANGED [r \in Runs |-> StageOf(r)]
    BY <2>1, StageStutter DEF vars, runVars, loopVars
  <2>2. ASSUME StartBatch \/ CreateInBatchFails PROVE UNCHANGED [r \in Runs |-> StageOf(r)]
    BY <2>2, StageStutter, BatchFrame DEF runVars, loopVars
  <2>3. QED
    BY <2>1, <2>2, RunStepRefines, PollStepRefines, HostStepRefines, CancelStepRefines,
       RestartRefines DEF Next
<1>3. QED
  BY <1>1, <1>2, Invariance, PTL DEF Spec, ImplementsDispatch, Dispatch!Spec
=============================================================================
