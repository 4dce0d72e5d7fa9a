------------------------------ MODULE Batches ------------------------------
(***************************************************************************)
(* One job batch (control-plane/src/batches/batches.service.ts): the       *)
(* denormalised counters of its JobBatch row, the createBatch loop, and    *)
(* cancelBatch requests.  Counter updates are atomic increments in the     *)
(* database; everything around them is read first and used later.          *)
(***************************************************************************)
EXTENDS JobConstants

CONSTANT Cancels      \* cancelBatch requests that may be in progress at once

VARIABLES
    bstatus,     \* JobBatch.status, "none" before the row exists
    counts,      \* pendingCount, runningCount, successCount, failedCount, cancelledCount
    todo,        \* instances createBatch has still to create a job for
    cancelPc,    \* where each cancelBatch request is
    cancelTodo,  \* runs that were pending when it read the batch
    cancelCur,   \* the run it has just overwritten
    cancelled    \* its local counter

batchVars == <<bstatus, counts, todo, cancelPc, cancelTodo, cancelCur, cancelled>>

BatchStatus == {"none", "running", "completed", "completed_with_failures", "cancelled"}
Counters == {"pending", "running", "success", "failed", "cancelled"}

BatchInit ==
    /\ bstatus = "none"
    /\ counts = [k \in Counters |-> 0]
    /\ todo = {}
    /\ cancelPc = [c \in Cancels |-> "idle"]
    /\ cancelTodo = [c \in Cancels |-> {}]
    /\ cancelCur = [c \in Cancels |-> NoRun]
    /\ cancelled = [c \in Cancels |-> 0]

BatchTypeOK ==
    /\ bstatus \in BatchStatus
    /\ counts \in [Counters -> Int]
    /\ todo \in SUBSET BatchRuns
    /\ cancelPc \in [Cancels -> {"idle", "loop", "remove"}]
    /\ cancelTodo \in [Cancels -> SUBSET BatchRuns]
    /\ cancelCur \in [Cancels -> BatchRuns \cup {NoRun}]
    /\ cancelled \in [Cancels -> Nat]

-----------------------------------------------------------------------------

\* createBatch inserts the batch row with every instance counted as pending.
CreateBatch ==
    /\ BatchRuns # {}
    /\ bstatus = "none"
    /\ bstatus' = "running"
    /\ counts' = [counts EXCEPT !["pending"] = Cardinality(BatchRuns)]
    /\ todo' = BatchRuns
    /\ UNCHANGED <<cancelPc, cancelTodo, cancelCur, cancelled>>

\* The loop creates the next job and run.
CreateBatchJob(r) ==
    /\ r \in todo
    /\ todo' = todo \ {r}
    /\ UNCHANGED <<bstatus, counts, cancelPc, cancelTodo, cancelCur, cancelled>>

\* A call of the loop throws: the remaining instances never get a job.
CreateBatchFails ==
    /\ todo # {}
    /\ todo' = {}
    /\ UNCHANGED <<bstatus, counts, cancelPc, cancelTodo, cancelCur, cancelled>>

RecordJobRunStarted ==
    /\ counts' = [counts EXCEPT !["pending"] = @ - 1, !["running"] = @ + 1]
    /\ UNCHANGED <<bstatus, todo, cancelPc, cancelTodo, cancelCur, cancelled>>

\* Mutant: runningCount is not decremented.
RecordJobRunCompleted_NoDecrement(runStatus) ==
    /\ counts' = [counts EXCEPT ![runStatus] = @ + 1]
    /\ UNCHANGED <<bstatus, todo, cancelPc, cancelTodo, cancelCur, cancelled>>

\* recordJobRunCompleted, first update: priorRunStatus is always 'running'.
RecordJobRunCompleted(runStatus) ==
    /\ counts' = [counts EXCEPT !["running"] = @ - 1, ![runStatus] = @ + 1]
    /\ UNCHANGED <<bstatus, todo, cancelPc, cancelTodo, cancelCur, cancelled>>

\* What the handler does with the row the first update returned: the batch
\* status it will write, or nothing.
AfterCompleted(row) ==
    IF row["pending"] <= 0 /\ row["running"] <= 0
    THEN IF row["failed"] > 0 THEN "completed_with_failures" ELSE "completed"
    ELSE "done"

\* recordJobRunCompleted, second update.
WriteBatchStatus(s) ==
    /\ bstatus' = s
    /\ UNCHANGED <<counts, todo, cancelPc, cancelTodo, cancelCur, cancelled>>

-----------------------------------------------------------------------------

\* cancelBatch reads the batch with its runs; pending is what it saw pending.
CancelReads(c, pending) ==
    /\ cancelPc[c] = "idle"
    /\ bstatus = "running"
    /\ cancelPc' = [cancelPc EXCEPT ![c] = "loop"]
    /\ cancelTodo' = [cancelTodo EXCEPT ![c] = pending]
    /\ cancelled' = [cancelled EXCEPT ![c] = 0]
    /\ UNCHANGED <<bstatus, counts, todo, cancelCur>>

\* jobRun.update by id (the row itself is in JobRuns).
CancelOverwrites(c, r) ==
    /\ cancelPc[c] = "loop"
    /\ r \in cancelTodo[c]
    /\ cancelPc' = [cancelPc EXCEPT ![c] = "remove"]
    /\ cancelTodo' = [cancelTodo EXCEPT ![c] = @ \ {r}]
    /\ cancelCur' = [cancelCur EXCEPT ![c] = r]
    /\ UNCHANGED <<bstatus, counts, todo, cancelled>>

\* queue.getJob and remove, whose failure is swallowed, then cancelled++.
CancelRemoves(c) ==
    /\ cancelPc[c] = "remove"
    /\ cancelPc' = [cancelPc EXCEPT ![c] = "loop"]
    /\ cancelCur' = [cancelCur EXCEPT ![c] = NoRun]
    /\ cancelled' = [cancelled EXCEPT ![c] = @ + 1]
    /\ UNCHANGED <<bstatus, counts, todo, cancelTodo>>

CancelFinishes(c) ==
    /\ cancelPc[c] = "loop"
    /\ cancelTodo[c] = {}
    /\ cancelPc' = [cancelPc EXCEPT ![c] = "idle"]
    /\ bstatus' = "cancelled"
    /\ counts' = [counts EXCEPT !["pending"] = @ - cancelled[c],
                                !["cancelled"] = @ + cancelled[c]]
    /\ UNCHANGED <<todo, cancelTodo, cancelCur, cancelled>>

BatchRestart ==
    /\ todo' = {}
    /\ cancelPc' = [c \in Cancels |-> "idle"]
    /\ cancelTodo' = [c \in Cancels |-> {}]
    /\ cancelCur' = [c \in Cancels |-> NoRun]
    /\ cancelled' = [c \in Cancels |-> 0]
    /\ UNCHANGED <<bstatus, counts>>
=============================================================================
