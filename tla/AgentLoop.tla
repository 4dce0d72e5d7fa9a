----------------------------- MODULE AgentLoop -----------------------------
(***************************************************************************)
(* The host agent's job loop (agent/internal/jobs/loop.go): one goroutine  *)
(* polls and waits for the limiter, one goroutine per job executes it and  *)
(* submits its result.  Reads share ReadLimit slots; mutations share one   *)
(* token, and mutationBusy is the flag the loop sends with each poll.      *)
(***************************************************************************)
EXTENDS JobConstants

CONSTANT ReadLimit    \* max concurrent reads of one agent

ASSUME LoopAssumption == ReadLimit \in Nat \ {0}

VARIABLES
    loop,        \* where the polling goroutine of each agent is
    loopPoll,    \* the poll request it is waiting for
    held,        \* the job it has received and not yet started
    busy,        \* executionLimiter.mutationBusy
    gate,        \* whether the token is in executionLimiter.mutation
    exec,        \* where the job goroutine of each run is
    outcome,     \* the status the job goroutine submits
    began        \* how often a job goroutine was started for the run

loopVars == <<loop, loopPoll, held, busy, gate, exec, outcome, began>>

LoopPc == {"down", "idle", "polling", "held"}
ExecPc == {"no", "executing", "reporting", "clearing", "done"}

LoopInit ==
    /\ loop = [h \in Hosts |-> "down"]
    /\ loopPoll = [h \in Hosts |-> NoPoll]
    /\ held = [h \in Hosts |-> NoRun]
    /\ busy = [h \in Hosts |-> FALSE]
    /\ gate = [h \in Hosts |-> TRUE]
    /\ exec = [r \in Runs |-> "no"]
    /\ outcome = [r \in Runs |-> "none"]
    /\ began = [r \in Runs |-> 0]

LoopTypeOK ==
    /\ loop \in [Hosts -> LoopPc]
    /\ loopPoll \in [Hosts -> Polls \cup {NoPoll}]
    /\ held \in [Hosts -> Runs \cup {NoRun}]
    /\ busy \in [Hosts -> BOOLEAN]
    /\ gate \in [Hosts -> BOOLEAN]
    /\ exec \in [Runs -> ExecPc]
    /\ outcome \in [Runs -> {"none", "success", "failed"}]
    /\ began \in [Runs -> Nat]

-----------------------------------------------------------------------------

\* The agent process starts with a fresh executionLimiter.
AgentStart(h) ==
    /\ loop[h] = "down"
    /\ loop' = [loop EXCEPT ![h] = "idle"]
    /\ UNCHANGED <<loopPoll, held, busy, gate, exec, outcome, began>>

\* PollJobs(..., limiter.mutationIsBusy()): the flag is read before the request.
AgentPolls(h, p) ==
    /\ loop[h] = "idle"
    /\ loop' = [loop EXCEPT ![h] = "polling"]
    /\ loopPoll' = [loopPoll EXCEPT ![h] = p]
    /\ UNCHANGED <<held, busy, gate, exec, outcome, began>>

Listening(h, p) == loop[h] = "polling" /\ loopPoll[h] = p

\* The poll returns a job, and the loop goes on to acquire the limiter.
AgentReceives(h, r) ==
    /\ loop' = [loop EXCEPT ![h] = "held"]
    /\ loopPoll' = [loopPoll EXCEPT ![h] = NoPoll]
    /\ held' = [held EXCEPT ![h] = r]
    /\ UNCHANGED <<busy, gate, exec, outcome, began>>

\* The poll fails, times out, or returns no job: the loop polls again.
AgentPollEnds(h) ==
    /\ loop[h] = "polling"
    /\ loop' = [loop EXCEPT ![h] = "idle"]
    /\ loopPoll' = [loopPoll EXCEPT ![h] = NoPoll]
    /\ UNCHANGED <<held, busy, gate, exec, outcome, began>>

ReadsActive(h) ==
    {r \in ReadOnly : HostOf[r] = h /\ exec[r] \in {"executing", "reporting"}}

\* Mutant: every job type passes for read-only.
StartJob_AllReads(h) ==
    LET r == held[h] IN
    /\ loop[h] = "held"
    /\ loop' = [loop EXCEPT ![h] = "idle"]
    /\ held' = [held EXCEPT ![h] = NoRun]
    /\ exec' = [exec EXCEPT ![r] = "executing"]
    /\ began' = [began EXCEPT ![r] = @ + 1]
    /\ UNCHANGED <<loopPoll, busy, gate, outcome>>

\* acquireRead / acquireMutation, then the job goroutine is started.
StartJob(h) ==
    LET r == held[h] IN
    /\ loop[h] = "held"
    /\ \/ /\ r \in ReadOnly
          /\ Cardinality(ReadsActive(h)) < ReadLimit
          /\ UNCHANGED <<busy, gate>>
       \/ /\ r \notin ReadOnly
          /\ gate[h]
          /\ gate' = [gate EXCEPT ![h] = FALSE]
          /\ busy' = [busy EXCEPT ![h] = TRUE]
    /\ loop' = [loop EXCEPT ![h] = "idle"]
    /\ held' = [held EXCEPT ![h] = NoRun]
    /\ exec' = [exec EXCEPT ![r] = "executing"]
    /\ began' = [began EXCEPT ![r] = @ + 1]
    /\ UNCHANGED <<loopPoll, outcome>>

\* Execute returns (or its deadline cancels it): the result is submitted.
ExecuteReturns(r, o) ==
    /\ exec[r] = "executing"
    /\ exec' = [exec EXCEPT ![r] = "reporting"]
    /\ outcome' = [outcome EXCEPT ![r] = o]
    /\ UNCHANGED <<loop, loopPoll, held, busy, gate, began>>

\* SubmitJobResult returned, with or without an error; the deferred release
\* runs.  releaseMutation stores the flag first and returns the token second.
ReleaseRead(r) ==
    /\ exec[r] = "reporting"
    /\ r \in ReadOnly
    /\ exec' = [exec EXCEPT ![r] = "done"]
    /\ UNCHANGED <<loop, loopPoll, held, busy, gate, outcome, began>>

\* Mutant: the flag is never cleared.
ReleaseFlag_Kept(r) ==
    /\ exec[r] = "reporting"
    /\ r \notin ReadOnly
    /\ exec' = [exec EXCEPT ![r] = "clearing"]
    /\ UNCHANGED <<loop, loopPoll, held, busy, gate, outcome, began>>

ReleaseFlag(r) ==
    /\ exec[r] = "reporting"
    /\ r \notin ReadOnly
    /\ exec' = [exec EXCEPT ![r] = "clearing"]
    /\ busy' = [busy EXCEPT ![HostOf[r]] = FALSE]
    /\ UNCHANGED <<loop, loopPoll, held, gate, outcome, began>>

ReleaseToken(r) ==
    /\ exec[r] = "clearing"
    /\ exec' = [exec EXCEPT ![r] = "done"]
    /\ gate' = [gate EXCEPT ![HostOf[r]] = TRUE]
    /\ UNCHANGED <<loop, loopPoll, held, busy, outcome, began>>

\* The agent process ends: everything it holds is gone.
AgentDies(h) ==
    /\ loop[h] # "down"
    /\ loop' = [loop EXCEPT ![h] = "down"]
    /\ loopPoll' = [loopPoll EXCEPT ![h] = NoPoll]
    /\ held' = [held EXCEPT ![h] = NoRun]
    /\ busy' = [busy EXCEPT ![h] = FALSE]
    /\ gate' = [gate EXCEPT ![h] = TRUE]
    /\ exec' = [r \in Runs |-> IF HostOf[r] = h /\ exec[r] # "no" THEN "done" ELSE exec[r]]
    /\ UNCHANGED <<outcome, began>>
=============================================================================
