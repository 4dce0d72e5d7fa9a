------------------------------ MODULE JobRuns ------------------------------
(***************************************************************************)
(* Control-plane side of a job run: the rows of job_runs, the org queue,   *)
(* and the request handlers that read a row, await, and write it back.     *)
(* Every await in the source is a point where another handler may run, so  *)
(* each handler is one action per database or queue call, and what it has  *)
(* read is kept in the handler's own state.  The actions of this module    *)
(* change only this module's variables; JobSystem composes them with the   *)
(* agent and with the batch bookkeeping.                                   *)
(***************************************************************************)
EXTENDS JobConstants

VARIABLES
    status,      \* job_runs.status, "none" before the row exists
    fresh,       \* the run is running and its last heartbeat (result.updatedAt
                 \* or startedAt) is less than 3 minutes old
    queue,       \* runs waiting in the BullMQ queue of the org
    adding,      \* rows written whose queue.add has not happened yet
    pollPc,      \* where each poll handler is
    pollBusy,    \* its mutationBusy query parameter
    pollRun,     \* the run it has picked from the list, and then claimed
    rep          \* where the result handler of each run is

runVars == <<status, fresh, queue, adding, pollPc, pollBusy, pollRun, rep>>

JobRunStatus == {"none", "pending", "running", "success", "failed", "cancelled"}
Terminal == {"success", "failed", "cancelled"}
PollPc == {"idle", "wait", "empty", "listed", "claimed", "mark", "count", "respond"}
RepPc == {"none", "sent", "checked", "written", "completed", "completed_with_failures", "done"}

RunsInit ==
    /\ status = [r \in Runs |-> "none"]
    /\ fresh = [r \in Runs |-> FALSE]
    /\ queue = {}
    /\ adding = {}
    /\ pollPc = [p \in Polls |-> "idle"]
    /\ pollBusy = [p \in Polls |-> FALSE]
    /\ pollRun = [p \in Polls |-> NoRun]
    /\ rep = [r \in Runs |-> "none"]

RunsTypeOK ==
    /\ status \in [Runs -> JobRunStatus]
    /\ fresh \in [Runs -> BOOLEAN]
    /\ queue \in SUBSET Runs
    /\ adding \in SUBSET Runs
    /\ pollPc \in [Polls -> PollPc]
    /\ pollBusy \in [Polls -> BOOLEAN]
    /\ pollRun \in [Polls -> Runs \cup {NoRun}]
    /\ rep \in [Runs -> RepPc]

-----------------------------------------------------------------------------
(* createJob, enqueueInternalJob, createPlayerModRequest                   *)

\* The row is inserted as pending; the queue does not know of it yet.
CreateRow(r) ==
    /\ status[r] = "none"
    /\ status' = [status EXCEPT ![r] = "pending"]
    /\ adding' = adding \cup {r}
    /\ UNCHANGED <<fresh, queue, pollPc, pollBusy, pollRun, rep>>

\* queue.add with jobId = jobRunId: the queue is a set of run ids.
AddJob(r) ==
    /\ r \in adding
    /\ adding' = adding \ {r}
    /\ queue' = queue \cup {r}
    /\ UNCHANGED <<status, fresh, pollPc, pollBusy, pollRun, rep>>

\* queue.add throws: the request fails and the pending row stays behind.
AddJobFails(r) ==
    /\ r \in adding
    /\ adding' = adding \ {r}
    /\ UNCHANGED <<status, fresh, queue, pollPc, pollBusy, pollRun, rep>>

-----------------------------------------------------------------------------
(* GET poll                                                                *)

PollStart(p, busy) ==
    /\ pollPc[p] = "idle"
    /\ pollPc' = [pollPc EXCEPT ![p] = "wait"]
    /\ pollBusy' = [pollBusy EXCEPT ![p] = busy]
    /\ UNCHANGED <<status, fresh, queue, adding, pollRun, rep>>

\* Mutant: mutationBusy is not looked at.
Claimable_IgnoresBusy(p) == {r \in queue : HostOf[r] = PollHost[p]}

\* The runs getNextJobForHost may claim.  The order in which the library
\* lists waiting jobs is left open.
Claimable(p) ==
    {r \in queue : HostOf[r] = PollHost[p] /\ (pollBusy[p] => r \in ReadOnly)}

\* queue.getJobs() lists the waiting jobs, and the handler picks the first one
\* that suits the host.  Another handler may list the same job.
GetJobs(p, r) ==
    /\ pollPc[p] = "wait"
    /\ r \in Claimable(p)
    /\ pollPc' = [pollPc EXCEPT ![p] = "listed"]
    /\ pollRun' = [pollRun EXCEPT ![p] = r]
    /\ UNCHANGED <<status, fresh, queue, adding, pollBusy, rep>>

\* Mutant: the claimed job stays in the queue.
RemoveJob_Kept(p) ==
    /\ pollPc[p] = "listed"
    /\ pollPc' = [pollPc EXCEPT ![p] = "claimed"]
    /\ UNCHANGED <<status, fresh, queue, adding, pollBusy, pollRun, rep>>

\* job.remove() claims it.  The library refuses only a locked job, and nothing
\* locks these: removing a job that another handler, or cancelBatch, removed
\* meanwhile succeeds, so that two handlers may claim one run.  (A call that
\* throws changes nothing and the scan goes on: as if another job were listed.)
RemoveJob(p) ==
    /\ pollPc[p] = "listed"
    /\ queue' = queue \ {pollRun[p]}
    /\ pollPc' = [pollPc EXCEPT ![p] = "claimed"]
    /\ UNCHANGED <<status, fresh, adding, pollBusy, pollRun, rep>>

\* markJobRunStarted reads the row; a run that is not pending is not marked,
\* but the handler returns it to the agent all the same.
ReadRunToStart(p) ==
    /\ pollPc[p] = "claimed"
    /\ pollPc' = [pollPc EXCEPT ![p] =
                    IF status[pollRun[p]] = "pending" THEN "mark" ELSE "respond"]
    /\ UNCHANGED <<status, fresh, queue, adding, pollBusy, pollRun, rep>>

\* markJobRunStarted writes by id, whatever the status is by now.
MarkJobRunStarted(p) ==
    /\ pollPc[p] = "mark"
    /\ status' = [status EXCEPT ![pollRun[p]] = "running"]
    /\ fresh' = [fresh EXCEPT ![pollRun[p]] = TRUE]
    /\ pollPc' = [pollPc EXCEPT ![p] = "count"]
    /\ UNCHANGED <<queue, adding, pollBusy, pollRun, rep>>

\* recordJobRunStarted has been awaited (the counters are in Batches).
StartCounted(p) ==
    /\ pollPc[p] = "count"
    /\ pollPc' = [pollPc EXCEPT ![p] = "respond"]
    /\ UNCHANGED <<status, fresh, queue, adding, pollBusy, pollRun, rep>>

\* Mutant: the job is put back for a retry as it is handed out.
PollReturns_Requeues(p) ==
    /\ pollPc[p] = "respond"
    /\ pollPc' = [pollPc EXCEPT ![p] = "idle"]
    /\ pollBusy' = [pollBusy EXCEPT ![p] = FALSE]
    /\ pollRun' = [pollRun EXCEPT ![p] = NoRun]
    /\ queue' = queue \cup {pollRun[p]}
    /\ UNCHANGED <<status, fresh, adding, rep>>

\* The handler returns; whether an agent is still listening is not its concern.
PollReturns(p) ==
    /\ pollPc[p] = "respond"
    /\ pollPc' = [pollPc EXCEPT ![p] = "idle"]
    /\ pollBusy' = [pollBusy EXCEPT ![p] = FALSE]
    /\ pollRun' = [pollRun EXCEPT ![p] = NoRun]
    /\ UNCHANGED <<status, fresh, queue, adding, rep>>

\* A database call of markJobRunStarted throws: the request fails, and the
\* run it had claimed is in nobody's hands.
PollThrows(p) ==
    /\ pollPc[p] \in {"claimed", "mark", "count"}
    /\ pollPc' = [pollPc EXCEPT ![p] = "idle"]
    /\ pollBusy' = [pollBusy EXCEPT ![p] = FALSE]
    /\ pollRun' = [pollRun EXCEPT ![p] = NoRun]
    /\ UNCHANGED <<status, fresh, queue, adding, rep>>

\* The last scan before the deadline finds nothing to claim ...
LastScan(p) ==
    /\ pollPc[p] = "wait"
    /\ Claimable(p) = {}
    /\ pollPc' = [pollPc EXCEPT ![p] = "empty"]
    /\ UNCHANGED <<status, fresh, queue, adding, pollBusy, pollRun, rep>>

\* ... and the handler returns without a job, whatever was added meanwhile.
PollEmpty(p) ==
    /\ pollPc[p] = "empty"
    /\ pollPc' = [pollPc EXCEPT ![p] = "idle"]
    /\ pollBusy' = [pollBusy EXCEPT ![p] = FALSE]
    /\ UNCHANGED <<status, fresh, queue, adding, pollRun, rep>>

-----------------------------------------------------------------------------
(* POST :jobRunId/result and POST :jobRunId/progress                       *)

ResultArrives(r) ==
    /\ rep[r] = "none"
    /\ rep' = [rep EXCEPT ![r] = "sent"]
    /\ UNCHANGED <<status, fresh, queue, adding, pollPc, pollBusy, pollRun>>

\* reportJobResult refuses a run that is not running.
CheckResult(r) ==
    /\ rep[r] = "sent"
    /\ rep' = [rep EXCEPT ![r] = IF status[r] = "running" THEN "checked" ELSE "done"]
    /\ UNCHANGED <<status, fresh, queue, adding, pollPc, pollBusy, pollRun>>

\* Mutant: the reported status is ignored.
WriteResult_AlwaysSuccess(r, outcome) ==
    /\ rep[r] = "checked"
    /\ status' = [status EXCEPT ![r] = "success"]
    /\ fresh' = [fresh EXCEPT ![r] = FALSE]
    /\ rep' = [rep EXCEPT ![r] = "written"]
    /\ UNCHANGED <<queue, adding, pollPc, pollBusy, pollRun>>

\* The write is by id: it does not repeat the status check.
WriteResult(r, outcome) ==
    /\ rep[r] = "checked"
    /\ status' = [status EXCEPT ![r] = outcome]
    /\ fresh' = [fresh EXCEPT ![r] = FALSE]
    /\ rep' = [rep EXCEPT ![r] = "written"]
    /\ UNCHANGED <<queue, adding, pollPc, pollBusy, pollRun>>

\* A side effect of the result (roster, grants, maintenance flag) throws: the
\* handler ends before it reaches recordJobRunCompleted.
ResultEffectFails(r) ==
    /\ rep[r] = "written"
    /\ rep' = [rep EXCEPT ![r] = "done"]
    /\ UNCHANGED <<status, fresh, queue, adding, pollPc, pollBusy, pollRun>>

\* recordJobRunCompleted has updated the counters and goes on to write the
\* batch status next, or ends.
ResultCounted(r, next) ==
    /\ rep[r] = "written"
    /\ rep' = [rep EXCEPT ![r] = next]
    /\ UNCHANGED <<status, fresh, queue, adding, pollPc, pollBusy, pollRun>>

ResultHandlerEnds(r) ==
    /\ rep[r] \in {"completed", "completed_with_failures"}
    /\ rep' = [rep EXCEPT ![r] = "done"]
    /\ UNCHANGED <<status, fresh, queue, adding, pollPc, pollBusy, pollRun>>

\* reportJobProgress refuses a run that is not running; the heartbeat it
\* writes after the check matters only as long as the run stays running.
ReportJobProgress(r) ==
    /\ status[r] = "running"
    /\ fresh' = [fresh EXCEPT ![r] = TRUE]
    /\ UNCHANGED <<status, queue, adding, pollPc, pollBusy, pollRun, rep>>

-----------------------------------------------------------------------------
(* failStaleRunningJobs and the passing of time                            *)

\* Three minutes go by without a heartbeat being written.
HeartbeatAges(r) ==
    /\ fresh[r]
    /\ fresh' = [fresh EXCEPT ![r] = FALSE]
    /\ UNCHANGED <<status, queue, adding, pollPc, pollBusy, pollRun, rep>>

\* Mutant: a status the rest of the program does not know.
FailStaleRun_UnknownStatus(r) ==
    /\ status[r] = "running"
    /\ ~fresh[r]
    /\ status' = [status EXCEPT ![r] = "stale"]
    /\ UNCHANGED <<fresh, queue, adding, pollPc, pollBusy, pollRun, rep>>

\* Mutant: the stale run is released to pending, but not to the queue.
FailStaleRun_ToPending(r) ==
    /\ status[r] = "running"
    /\ ~fresh[r]
    /\ status' = [status EXCEPT ![r] = "pending"]
    /\ UNCHANGED <<fresh, queue, adding, pollPc, pollBusy, pollRun, rep>>

\* updateMany where status = running repeats the check of the query before
\* it, so the two are one step; a heartbeat written in between goes unnoticed,
\* like one that was lost.
FailStaleRun(r) ==
    /\ status[r] = "running"
    /\ ~fresh[r]
    /\ status' = [status EXCEPT ![r] = "failed"]
    /\ UNCHANGED <<fresh, queue, adding, pollPc, pollBusy, pollRun, rep>>

-----------------------------------------------------------------------------

\* Mutant: on start every run without a success is put back into the queue.
RunsRestart_Requeues ==
    /\ adding' = {}
    /\ queue' = queue \cup {r \in Runs : status[r] \in {"pending", "running", "failed"}}
    /\ pollPc' = [p \in Polls |-> "idle"]
    /\ pollBusy' = [p \in Polls |-> FALSE]
    /\ pollRun' = [p \in Polls |-> NoRun]
    /\ rep' = [r \in Runs |-> IF rep[r] = "none" THEN "none" ELSE "done"]
    /\ UNCHANGED <<status, fresh>>

\* The control-plane process dies and comes back: rows and queue survive, the
\* handlers in progress do not.
RunsRestart ==
    /\ adding' = {}
    /\ pollPc' = [p \in Polls |-> "idle"]
    /\ pollBusy' = [p \in Polls |-> FALSE]
    /\ pollRun' = [p \in Polls |-> NoRun]
    /\ rep' = [r \in Runs |-> IF rep[r] = "none" THEN "none" ELSE "done"]
    /\ UNCHANGED <<status, fresh, queue>>
=============================================================================
