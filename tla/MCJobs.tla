------------------------------- MODULE MCJobs -------------------------------
(* Small instances of JobSystem for TLC: one host, two runs (two mutations, *)
(* or a mutation r1 and a read r2), one or two concurrent poll requests.    *)
EXTENDS JobSystem, TLC

CONSTANTS r1, r2, h1, p1, p2

OneHostOf == [r \in Runs |-> h1]
OnePollHost == [p \in Polls |-> h1]

\* Requests are interchangeable; so are two mutations.
PollSymmetry == Permutations({p1, p2})
MutationSymmetry == Permutations({r1, r2})
=============================================================================
