---------------------------- MODULE JobDispatch ----------------------------
(***************************************************************************)
(* What the queue, the poll handlers and the agents promise together: a    *)
(* job is submitted once, taken once and executed at most once.  It may be *)
(* lost on the way, at any point before it is executed, and what is lost   *)
(* or executed never comes back.                                           *)
(***************************************************************************)
CONSTANT Runs

VARIABLE stage

Stages == {"absent", "queued", "taken", "executed", "gone"}

Init == stage = [r \in Runs |-> "absent"]

Move(r, from, to) ==
    /\ stage[r] = from
    /\ stage' = [stage EXCEPT ![r] = to]

Submit(r) == Move(r, "absent", "queued")

Take(r) == Move(r, "queued", "taken")

Execute(r) == Move(r, "taken", "executed")

\* The death of a process loses everything it holds at once.
Lose(S) ==
    /\ \A r \in S : stage[r] \in {"absent", "queued", "taken"}
    /\ stage' = [r \in Runs |-> IF r \in S THEN "gone" ELSE stage[r]]

Next ==
    \/ \E r \in Runs : Submit(r) \/ Take(r) \/ Execute(r)
    \/ \E S \in SUBSET Runs : Lose(S)

Spec == Init /\ [][Next]_stage
=============================================================================
