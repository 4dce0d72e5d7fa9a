----------------------------- MODULE JobSystem -----------------------------
(***************************************************************************)
(* The job pipeline: control plane, agents and one batch.  An action here  *)
(* is one step of one process: a call a request handler awaits, a step of  *)
(* an agent goroutine, the death of a process.  A step that two processes  *)
(* share (a request being sent, a response being received) conjoins their  *)
(* actions.  The network may lose any request or response.                 *)
(***************************************************************************)
EXTENDS JobRuns, AgentLoop, Batches

CONSTANTS
    MaxRestarts, \* bound on the deaths of the control-plane process
    MaxCrashes   \* bound on the deaths of agent processes

ASSUME BoundsAssumption == MaxRestarts \in Nat /\ MaxCrashes \in Nat

VARIABLES restarts, crashes

boundVars == <<restarts, crashes>>
vars == <<runVars, loopVars, batchVars, boundVars>>

Init ==
    /\ RunsInit
    /\ LoopInit
    /\ BatchInit
    /\ restarts = 0
    /\ crashes = 0

-----------------------------------------------------------------------------
(* Creation                                                                *)

Create(r) ==
    /\ r \notin BatchRuns
    /\ CreateRow(r)
    /\ UNCHANGED <<loopVars, batchVars, boundVars>>

StartBatch ==
    /\ CreateBatch
    /\ UNCHANGED <<runVars, loopVars, boundVars>>

\* createBatch awaits queue.add before it goes on to the next instance.
CreateInBatch(r) ==
    /\ adding \cap BatchRuns = {}
    /\ CreateBatchJob(r)
    /\ CreateRow(r)
    /\ UNCHANGED <<loopVars, boundVars>>

\* A call of the createBatch loop throws before the run has its row.
CreateInBatchFails ==
    /\ adding \cap BatchRuns = {}
    /\ CreateBatchFails
    /\ UNCHANGED <<runVars, loopVars, boundVars>>

Enqueue(r) ==
    /\ AddJob(r)
    /\ UNCHANGED <<loopVars, batchVars, boundVars>>

\* In createBatch the exception also ends the loop.
EnqueueFails(r) ==
    /\ AddJobFails(r)
    /\ IF r \in BatchRuns /\ todo # {} THEN CreateBatchFails ELSE UNCHANGED batchVars
    /\ UNCHANGED <<loopVars, boundVars>>

-----------------------------------------------------------------------------
(* Polling                                                                 *)

Poll(h, p) ==
    /\ PollHost[p] = h
    /\ AgentPolls(h, p)
    /\ PollStart(p, busy[h])
    /\ UNCHANGED <<batchVars, boundVars>>

List(p, r) ==
    /\ GetJobs(p, r)
    /\ UNCHANGED <<loopVars, batchVars, boundVars>>

Claim(p) ==
    /\ RemoveJob(p)
    /\ UNCHANGED <<loopVars, batchVars, boundVars>>

ReadClaimed(p) ==
    /\ ReadRunToStart(p)
    /\ UNCHANGED <<loopVars, batchVars, boundVars>>

Mark(p) ==
    /\ MarkJobRunStarted(p)
    /\ UNCHANGED <<loopVars, batchVars, boundVars>>

CountStarted(p) ==
    /\ StartCounted(p)
    /\ IF pollRun[p] \in BatchRuns THEN RecordJobRunStarted ELSE UNCHANGED batchVars
    /\ UNCHANGED <<loopVars, boundVars>>

Respond(p) ==
    /\ PollReturns(p)
    /\ IF Listening(PollHost[p], p)
       THEN AgentReceives(PollHost[p], pollRun[p])
       ELSE UNCHANGED loopVars
    /\ UNCHANGED <<batchVars, boundVars>>

ScanEnds(p) ==
    /\ LastScan(p)
    /\ UNCHANGED <<loopVars, batchVars, boundVars>>

RespondError(p) ==
    /\ PollThrows(p)
    /\ IF Listening(PollHost[p], p) THEN AgentPollEnds(PollHost[p]) ELSE UNCHANGED loopVars
    /\ UNCHANGED <<batchVars, boundVars>>

RespondEmpty(p) ==
    /\ PollEmpty(p)
    /\ IF Listening(PollHost[p], p) THEN AgentPollEnds(PollHost[p]) ELSE UNCHANGED loopVars
    /\ UNCHANGED <<batchVars, boundVars>>

\* Timeout, broken connection or lost response: the handler, if there is
\* one, carries on for nobody.
PollFails(h) ==
    /\ AgentPollEnds(h)
    /\ UNCHANGED <<runVars, batchVars, boundVars>>

-----------------------------------------------------------------------------
(* Execution and reporting                                                 *)

Start(h) ==
    /\ AgentStart(h)
    /\ UNCHANGED <<runVars, batchVars, boundVars>>

Begin(h) ==
    /\ StartJob(h)
    /\ UNCHANGED <<runVars, batchVars, boundVars>>

\* The result is submitted once; the request may be lost.
Finish(r, o) ==
    /\ ExecuteReturns(r, o)
    /\ ResultArrives(r) \/ UNCHANGED runVars
    /\ UNCHANGED <<batchVars, boundVars>>

Release(r) ==
    /\ ReleaseRead(r) \/ ReleaseFlag(r) \/ ReleaseToken(r)
    /\ UNCHANGED <<runVars, batchVars, boundVars>>

Check(r) ==
    /\ CheckResult(r)
    /\ UNCHANGED <<loopVars, batchVars, boundVars>>

Write(r) ==
    /\ WriteResult(r, outcome[r])
    /\ UNCHANGED <<loopVars, batchVars, boundVars>>

\* The result's side effects are done; a batch job is counted.
CountCompleted(r) ==
    /\ rep[r] = "written"
    /\ IF r \in BatchRuns
       THEN /\ RecordJobRunCompleted(outcome[r])
            /\ ResultCounted(r, AfterCompleted(counts'))
       ELSE /\ ResultCounted(r, "done")
            /\ UNCHANGED batchVars
    /\ UNCHANGED <<loopVars, boundVars>>

EffectFails(r) ==
    /\ ResultEffectFails(r)
    /\ UNCHANGED <<loopVars, batchVars, boundVars>>

CompleteBatch(r) ==
    /\ ResultHandlerEnds(r)
    /\ WriteBatchStatus(rep[r])
    /\ UNCHANGED <<loopVars, boundVars>>

\* A progress request may still be under way when the result is submitted.
Progress(r) ==
    /\ exec[r] \in {"executing", "reporting"}
    /\ ReportJobProgress(r)
    /\ UNCHANGED <<loopVars, batchVars, boundVars>>

-----------------------------------------------------------------------------
(* The sweeper, cancelBatch and failures                                   *)

Age(r) ==
    /\ HeartbeatAges(r)
    /\ UNCHANGED <<loopVars, batchVars, boundVars>>

FailStale(r) ==
    /\ FailStaleRun(r)
    /\ UNCHANGED <<loopVars, batchVars, boundVars>>

Cancel(c) ==
    /\ CancelReads(c, {r \in BatchRuns : status[r] = "pending"})
    /\ UNCHANGED <<runVars, loopVars, boundVars>>

CancelRun(c, r) ==
    /\ CancelOverwrites(c, r)
    /\ status' = [status EXCEPT ![r] = "cancelled"]
    /\ fresh' = [fresh EXCEPT ![r] = FALSE]
    /\ UNCHANGED <<queue, adding, pollPc, pollBusy, pollRun, rep>>
    /\ UNCHANGED <<loopVars, boundVars>>

CancelDequeue(c) ==
    /\ CancelRemoves(c)
    /\ queue' \in {queue, queue \ {cancelCur[c]}}
    /\ UNCHANGED <<status, fresh, adding, pollPc, pollBusy, pollRun, rep>>
    /\ UNCHANGED <<loopVars, boundVars>>

CancelDone(c) ==
    /\ CancelFinishes(c)
    /\ UNCHANGED <<runVars, loopVars, boundVars>>

Restart ==
    /\ restarts < MaxRestarts
    /\ restarts' = restarts + 1
    /\ RunsRestart
    /\ BatchRestart
    /\ UNCHANGED <<loopVars, crashes>>

Crash(h) ==
    /\ crashes < MaxCrashes
    /\ crashes' = crashes + 1
    /\ AgentDies(h)
    /\ UNCHANGED <<runVars, batchVars, restarts>>

-----------------------------------------------------------------------------

RunStep(r) ==
    \/ Create(r) \/ CreateInBatch(r) \/ Enqueue(r) \/ EnqueueFails(r)
    \/ \E o \in {"success", "failed"} : Finish(r, o)
    \/ Release(r) \/ Check(r) \/ Write(r) \/ CountCompleted(r) \/ EffectFails(r)
    \/ CompleteBatch(r) \/ Progress(r) \/ Age(r) \/ FailStale(r)

PollStep(p) ==
    \/ \E r \in Runs : List(p, r)
    \/ Claim(p) \/ ReadClaimed(p) \/ Mark(p) \/ CountStarted(p) \/ Respond(p)
    \/ ScanEnds(p) \/ RespondEmpty(p) \/ RespondError(p)

HostStep(h) ==
    \/ \E p \in Polls : Poll(h, p)
    \/ PollFails(h) \/ Start(h) \/ Begin(h) \/ Crash(h)

CancelStep(c) ==
    \/ Cancel(c) \/ CancelDequeue(c) \/ CancelDone(c)
    \/ \E r \in Runs : CancelRun(c, r)

Next ==
    \/ \E r \in Runs : RunStep(r)
    \/ \E p \in Polls : PollStep(p)
    \/ \E h \in Hosts : HostStep(h)
    \/ \E c \in Cancels : CancelStep(c)
    \/ StartBatch \/ CreateInBatchFails \/ Restart

Spec == Init /\ [][Next]_vars

\* Handlers of a living control plane run to their end, an execution ends at
\* its deadline at the latest, time passes, the sweeper runs every minute, the
\* service manager restarts the agent and its loop goes on.  Nobody has to
\* create a job or cancel a batch, and requests may be lost for ever.
Fairness ==
    /\ \A r \in Runs :
        /\ WF_vars(Finish(r, "failed") \/ Finish(r, "success"))
        /\ WF_vars(Release(r))
        /\ WF_vars(Age(r))
        /\ WF_vars(FailStale(r))
    /\ \A p \in Polls :
        /\ WF_vars(\E r \in Runs : List(p, r))
        /\ WF_vars(Claim(p) \/ ReadClaimed(p) \/ Mark(p) \/ CountStarted(p) \/ Respond(p))
        /\ WF_vars(ScanEnds(p) \/ RespondEmpty(p))
    /\ \A h \in Hosts :
        /\ WF_vars(Start(h))
        /\ WF_vars(\E p \in Polls : Poll(h, p))
        /\ WF_vars(PollFails(h))
        /\ WF_vars(Begin(h))

FairSpec == Spec /\ Fairness

-----------------------------------------------------------------------------
(* Properties                                                              *)

\* The types of the rows, handlers, agents and counters of the pipeline.
TypeOK ==
    /\ RunsTypeOK
    /\ LoopTypeOK
    /\ BatchTypeOK
    /\ restarts \in 0..MaxRestarts
    /\ crashes \in 0..MaxCrashes

\* No run is ever executed twice, although handlers outlive the agents they
\* serve, rows are rewritten by several handlers and processes restart.
ExecutedAtMostOnce == \A r \in Runs : began[r] <= 1

MutationsOn(h) == {r \in Runs \ ReadOnly : HostOf[r] = h}

\* The mutation gate of loop.go: one host never executes two mutations at a
\* time, and a read never holds the gate.
MutationsExclusive ==
    \A h \in Hosts : \A r, s \in MutationsOn(h) :
        exec[r] = "executing" /\ exec[s] = "executing" => r = s

\* A mutation the loop has claimed from the queue never waits behind another
\* one that is still executing or reporting: the queue is the sole backlog.
HeldMutationNeverWaits ==
    \A h \in Hosts : held[h] \in MutationsOn(h) =>
        \A s \in MutationsOn(h) : exec[s] \notin {"executing", "reporting"}

\* A run that is success was executed to the end with that outcome.
SuccessWasExecuted ==
    \A r \in Runs : status[r] = "success" => began[r] = 1 /\ outcome[r] = "success"

\* The write of a handler that read the row while it was pending.  Once a
\* result was sent, no agent waits for the answer of such a handler: it is one
\* of several that claimed the run, and another one's answer was executed.
LateMark(r) ==
    \E p \in Polls :
        /\ pollRun[p] = r
        /\ pollPc[p] = "mark"
        /\ rep[r] # "none" => ~Listening(PollHost[p], p)

\* A settled run is never handed out again: it is not in the queue, no handler
\* takes it up that did not have it, and it stays settled, but for the write
\* of a late handler that got it from the list before it was claimed.
NeverRevived ==
    [][\A r \in Runs : status[r] \in {"success", "failed"} =>
            /\ r \notin queue'
            /\ \A p \in Polls : pollRun'[p] = r => pollRun[p] = r
            /\ status'[r] \in Terminal \/ (status'[r] = "running" /\ LateMark(r))]_vars

\* The batch counters always add up to the number of jobs of the batch.
CountsAddUp ==
    bstatus # "none" =>
        counts["pending"] + counts["running"] + counts["success"]
            + counts["failed"] + counts["cancelled"] = Cardinality(BatchRuns)

\* The batch has every job it was created for, all of them are settled and no
\* handler of theirs is in progress.
BatchSettled ==
    /\ bstatus # "none"
    /\ todo = {}
    /\ adding \cap BatchRuns = {}
    /\ \A r \in BatchRuns : status[r] \in Terminal /\ rep[r] \in {"none", "done"}
    /\ \A r \in BatchRuns : exec[r] \in {"no", "done"}
    /\ \A p \in Polls : pollRun[p] \notin BatchRuns
    /\ \A h \in Hosts : held[h] \notin BatchRuns
    /\ \A c \in Cancels : cancelPc[c] = "idle"

\* docs/design-bulk-server-operations.md, 1.2: "If no run left pending or
\* running -> set batch status = completed".
SettledBatchCompletes == BatchSettled => bstatus # "running"

\* Whatever becomes of its agent, its result or the handlers that serve it, a
\* run that was marked running reaches a terminal status.
RunningSettles == \A r \in Runs : status[r] = "running" ~> status[r] \in Terminal

\* What is in the queue is handed out in the end.
QueueDrains == \A r \in Runs : r \in queue ~> r \notin queue

-----------------------------------------------------------------------------
(* The abstract dispatcher                                                 *)

\* A poll handler or an agent loop has the run in its hands.
InFlight(r) ==
    \/ \E p \in Polls : pollRun[p] = r
    \/ \E h \in Hosts : held[h] = r

StageOf(r) ==
    IF began[r] > 0 THEN "executed"
    ELSE IF r \in queue THEN "queued"
    ELSE IF InFlight(r) THEN "taken"
    ELSE IF status[r] = "none" \/ r \in adding THEN "absent"
    ELSE "gone"

Dispatch == INSTANCE JobDispatch WITH stage <- [r \in Runs |-> StageOf(r)]

\* The job pipeline implements the dispatcher that executes at most once.
ImplementsDispatch == Dispatch!Spec
=============================================================================
