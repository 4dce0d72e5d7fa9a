--------------------------- MODULE TriggerGrants ---------------------------
(***************************************************************************)
(* Delivery of the items of one trigger to one player                      *)
(* (control-plane/src/triggers/triggers.service.ts): the trigger_fires row *)
(* of the milestone, the handlers that create and retry it, the            *)
(* TRIGGER_GRANT_ITEMS jobs they enqueue and the results of those jobs.    *)
(* Handlers run on behalf of roster results, log lines, donations and      *)
(* backfills; any of them may be in progress at once.                      *)
(***************************************************************************)
EXTENDS Integers, FiniteSets

CONSTANTS
    Handlers,       \* handlers that may be in progress at once
    MaxAttempts,    \* MAX_GRANT_ATTEMPTS
    MaxFaults     \* bound on deaths of the process and calls that throw

ASSUME GrantAssumption ==
    /\ IsFiniteSet(Handlers)
    /\ MaxAttempts \in Nat \ {0}
    /\ MaxFaults \in Nat

VARIABLES
    online,      \* player.online
    enabled,     \* trigger.enabled
    status,      \* triggerFire.status, "none" before the row exists
    attempts,    \* triggerFire.attempts
    aged,        \* the row was created more than five minutes ago
    at,          \* where each handler is
    sawOnline,   \* player.online as the handler read it
    jobs,        \* how many grant jobs are at each stage
    faults

rowVars == <<status, attempts, aged>>
handlerVars == <<at, sawOnline>>
grantVars == <<online, enabled, rowVars, handlerVars, jobs, faults>>

Outcomes == {"delivered", "retry", "failed"}
Stages == {"queued"} \cup Outcomes \cup {"write_delivered", "write_pending", "write_failed"}

Exists == status \notin {"none", "deleted"}

GrantsInit ==
    /\ online = FALSE
    /\ enabled = TRUE
    /\ status = "none"
    /\ attempts = 0
    /\ aged = FALSE
    /\ at = [h \in Handlers |-> "idle"]
    /\ sawOnline = [h \in Handlers |-> FALSE]
    /\ jobs = [s \in Stages |-> 0]
    /\ faults = 0

\* Handler h goes on at p with player.online as it has read it; from the check
\* of the attempts on it does not look at that again.
GoWith(h, p, isOnline) ==
    /\ at' = [at EXCEPT ![h] = p]
    /\ sawOnline' = [sawOnline EXCEPT ![h] = isOnline]
Go(h, p) == GoWith(h, p, FALSE)
EndHandler(h) == Go(h, "idle")

-----------------------------------------------------------------------------
(* fireOnce and the row                                                    *)

\* evaluateFirstJoin, evaluatePlaytime, evaluateDonationTotal or a backfill
\* finds the enabled trigger and calls fireOnce with the player it has read.
\* Calls made once the row exists, which find it and return, are left out.
FireOnce(h) ==
    /\ at[h] = "idle"
    /\ enabled /\ status = "none"
    /\ GoWith(h, "exists", online)
    /\ UNCHANGED <<online, enabled, rowVars, jobs, faults>>

FindExisting(h) ==
    /\ at[h] = "exists"
    /\ IF Exists THEN EndHandler(h) ELSE GoWith(h, "create", sawOnline[h])
    /\ UNCHANGED <<online, enabled, rowVars, jobs, faults>>

\* triggerFire.create: the unique key refuses a second row, a deleted trigger
\* the first.
CreateFire(h) ==
    /\ at[h] = "create"
    /\ IF status # "none"
       THEN /\ EndHandler(h)
            /\ UNCHANGED rowVars
       ELSE /\ status' = IF sawOnline[h] THEN "queued" ELSE "pending"
            /\ attempts' = 0
            /\ aged' = FALSE
            /\ Go(h, IF sawOnline[h] THEN "check" ELSE "park")
    /\ UNCHANGED <<online, enabled, jobs, faults>>

-----------------------------------------------------------------------------
(* retryPendingItemGrants and retryPendingItemGrantsForPlayer              *)

\* Mutant: only the fires that are pending already are looked for.
MarkStale_Never(h) ==
    /\ at[h] = "idle"
    /\ Go(h, "find")
    /\ UNCHANGED <<online, enabled, rowVars, jobs, faults>>

\* The first statement: a queued fire that is old enough is pending again.
MarkStale(h) ==
    /\ at[h] = "idle"
    /\ status' = IF status = "queued" /\ attempts < MaxAttempts /\ aged /\ enabled
                 THEN "pending" ELSE status
    /\ Go(h, "find")
    /\ UNCHANGED <<online, enabled, attempts, aged, jobs, faults>>

Retryable == status = "pending" /\ attempts < MaxAttempts /\ enabled

\* The second statement: pending fires of players online.
FindPending(h) ==
    /\ at[h] = "find"
    /\ IF Retryable /\ online
       THEN GoWith(h, "lookup", TRUE)
       ELSE EndHandler(h)
    /\ UNCHANGED <<online, enabled, rowVars, jobs, faults>>

\* retryPendingItemGrantsForPlayer, for a player who has joined.
RetryForPlayer(h) ==
    /\ at[h] = "idle"
    /\ Retryable
    /\ GoWith(h, "lookup", online)
    /\ UNCHANGED <<online, enabled, rowVars, jobs, faults>>

-----------------------------------------------------------------------------
(* enqueueGrantItems                                                       *)

\* Without a row (the trigger was removed) the job is enqueued all the same.
Lookup(h) ==
    /\ at[h] = "lookup"
    /\ Go(h, CASE sawOnline[h] /\ Exists -> "check"
                 [] sawOnline[h] /\ ~Exists -> "enqueue"
                 [] ~sawOnline[h] /\ Exists -> "park"
                 [] OTHER -> "idle")
    /\ UNCHANGED <<online, enabled, rowVars, jobs, faults>>

\* An update by id, whatever the status is by now; it throws without the row.
SetStatus(s) == status' = IF Exists THEN s ELSE status

\* The player was offline: the fire waits.
Park(h) ==
    /\ at[h] = "park"
    /\ SetStatus("pending")
    /\ EndHandler(h)
    /\ UNCHANGED <<online, enabled, attempts, aged, jobs, faults>>

CheckAttempts(h) ==
    /\ at[h] = "check"
    /\ Go(h, IF Exists /\ attempts >= MaxAttempts THEN "cap" ELSE "enqueue")
    /\ UNCHANGED <<online, enabled, rowVars, jobs, faults>>

GiveUp(h) ==
    /\ at[h] = "cap"
    /\ SetStatus("failed")
    /\ EndHandler(h)
    /\ UNCHANGED <<online, enabled, attempts, aged, jobs, faults>>

\* enqueueInternalJob.
EnqueueJob(h) ==
    /\ at[h] = "enqueue"
    /\ jobs' = [jobs EXCEPT !["queued"] = @ + 1]
    /\ Go(h, "note")
    /\ UNCHANGED <<online, enabled, rowVars, faults>>

\* The job is noted in the row, whatever the row says by now.
NoteJob(h) ==
    /\ at[h] = "note"
    /\ SetStatus("queued")
    /\ attempts' = IF Exists THEN attempts + 1 ELSE attempts
    /\ EndHandler(h)
    /\ UNCHANGED <<online, enabled, aged, jobs, faults>>

\* A call throws, and the caller swallows the exception.
HandlerFails(h) ==
    /\ at[h] # "idle"
    /\ faults < MaxFaults
    /\ faults' = faults + 1
    /\ EndHandler(h)
    /\ UNCHANGED <<online, enabled, rowVars, jobs>>

-----------------------------------------------------------------------------
(* The job on the host, and completeItemGrant                              *)

\* GrantItems gives item after item.  It reports success when every give was
\* confirmed; an offline player or a broken connection asks for a retry, an
\* unknown item is a failure, both possibly after some items were given.
\* With reported = FALSE the result never arrives.
Execute(outcome, reported) ==
    /\ jobs["queued"] > 0
    /\ outcome = "delivered" => online
    /\ jobs' = [jobs EXCEPT !["queued"] = @ - 1, ![outcome] = IF reported THEN @ + 1 ELSE @]
    /\ UNCHANGED <<online, enabled, rowVars, handlerVars, faults>>

\* What completeItemGrant will write, from the row as it reads it.
Classified(outcome) ==
    CASE outcome = "delivered" -> "write_delivered"
      [] outcome = "failed" \/ (outcome = "retry" /\ attempts >= MaxAttempts) -> "write_failed"
      [] OTHER -> "write_pending"

ReadFire(outcome) ==
    /\ jobs[outcome] > 0
    /\ jobs' = IF Exists THEN [jobs EXCEPT ![outcome] = @ - 1, ![Classified(outcome)] = @ + 1]
               ELSE [jobs EXCEPT ![outcome] = @ - 1]
    /\ UNCHANGED <<online, enabled, rowVars, handlerVars, faults>>

\* The update, whatever the row says by now.
CompleteItemGrant(stage, s) ==
    /\ jobs[stage] > 0
    /\ SetStatus(s)
    /\ jobs' = [jobs EXCEPT ![stage] = @ - 1]
    /\ UNCHANGED <<online, enabled, attempts, aged, handlerVars, faults>>

-----------------------------------------------------------------------------
(* The surroundings                                                        *)

PlayerMoves ==
    /\ online' = ~online
    /\ UNCHANGED <<enabled, rowVars, handlerVars, jobs, faults>>

Toggle ==
    /\ status # "deleted"
    /\ enabled' = ~enabled
    /\ UNCHANGED <<online, rowVars, handlerVars, jobs, faults>>

\* remove: the fires are deleted with their trigger.
RemoveTrigger ==
    /\ status # "deleted"
    /\ status' = "deleted"
    /\ attempts' = 0
    /\ aged' = FALSE
    /\ enabled' = FALSE
    /\ UNCHANGED <<online, handlerVars, jobs, faults>>

\* The row becomes old enough to be taken for stale; a handler that has read
\* the row takes less.
FiveMinutesPass ==
    /\ \A h \in Handlers : at[h] \in {"idle", "exists", "find"}
    /\ Exists /\ ~aged
    /\ aged' = TRUE
    /\ UNCHANGED <<online, enabled, status, attempts, handlerVars, jobs, faults>>

\* The process dies: handlers and results being processed are lost.
Restart ==
    /\ faults < MaxFaults
    /\ faults' = faults + 1
    /\ at' = [h \in Handlers |-> "idle"]
    /\ sawOnline' = [h \in Handlers |-> FALSE]
    /\ jobs' = [s \in Stages |-> IF s = "queued" THEN jobs[s] ELSE 0]
    /\ UNCHANGED <<online, enabled, rowVars>>

-----------------------------------------------------------------------------

HandlerStep(h) ==
    \/ FindExisting(h) \/ CreateFire(h) \/ FindPending(h) \/ Lookup(h) \/ Park(h)
    \/ CheckAttempts(h) \/ GiveUp(h) \/ EnqueueJob(h) \/ NoteJob(h)

JobStep ==
    \/ \E o \in Outcomes, r \in BOOLEAN : Execute(o, r)
    \/ \E o \in Outcomes : ReadFire(o)
    \/ CompleteItemGrant("write_delivered", "delivered")
    \/ CompleteItemGrant("write_pending", "pending")
    \/ CompleteItemGrant("write_failed", "failed")

GrantsNext ==
    \/ \E h \in Handlers :
        FireOnce(h) \/ MarkStale(h) \/ RetryForPlayer(h) \/ HandlerStep(h) \/ HandlerFails(h)
    \/ JobStep
    \/ PlayerMoves \/ Toggle \/ RemoveTrigger \/ FiveMinutesPass \/ Restart

GrantsSpec == GrantsInit /\ [][GrantsNext]_grantVars

\* Handlers and results of a living process go on, jobs leave the queue, time
\* passes, and a roster result comes again and again: the code starts a handler
\* for each, so other handlers in progress do not keep it from starting.
GrantsFairness ==
    /\ \A h \in Handlers : WF_grantVars(HandlerStep(h)) /\ WF_grantVars(MarkStale(h))
    /\ WF_grantVars(JobStep)
    /\ WF_grantVars(FiveMinutesPass)

GrantsFairSpec == GrantsSpec /\ GrantsFairness

-----------------------------------------------------------------------------
(* Properties                                                              *)

\* A fire is not forgotten: with the player online and the trigger enabled
\* from some time on it is settled, removed, or has used up its attempts.
NotForgotten ==
    <>[](online /\ enabled) =>
        (status \in {"pending", "queued"} ~>
            \/ status \in {"delivered", "failed", "deleted"}
            \/ attempts >= MaxAttempts)

=============================================================================
