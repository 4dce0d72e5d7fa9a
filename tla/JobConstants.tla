---------------------------- MODULE JobConstants ----------------------------
(***************************************************************************)
(* The job runs, hosts and requests that the modules of the job pipeline   *)
(* (JobRuns, AgentLoop, Batches) share.                                    *)
(***************************************************************************)
EXTENDS Integers, FiniteSets

CONSTANTS
    Runs,        \* job runs that may ever be created (one per job)
    Hosts,       \* paired hosts, one agent each
    HostOf,      \* the host a run is assigned to
    ReadOnly,    \* the runs whose job type is on the read-only allowlist
    Polls,       \* poll requests the control plane may be serving at once
    PollHost,    \* the host whose agent made the request
    BatchRuns,   \* the runs of the jobs of one batch
    NoRun,       \* no run
    NoPoll       \* no poll request

ASSUME JobAssumption ==
    /\ HostOf \in [Runs -> Hosts]
    /\ ReadOnly \subseteq Runs
    /\ PollHost \in [Polls -> Hosts]
    /\ BatchRuns \subseteq Runs
    /\ IsFiniteSet(BatchRuns)
    /\ NoRun \notin Runs
    /\ NoPoll \notin Polls
=============================================================================
