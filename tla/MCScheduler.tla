---------------------------- MODULE MCScheduler ----------------------------
(* What the control plane starts by itself and must not lose: the fires of *)
(* a cron schedule (Scheduler) with a cron that occurs every minute and    *)
(* one that skips minutes, and the delivery of a trigger's items           *)
(* (TriggerGrants) by two handlers.  The two share no rows, so that a      *)
(* behaviour follows one of them, under the fairness of that one.          *)
EXTENDS Scheduler, TriggerGrants

CONSTANTS often, rarely

TwoCrons == [c \in Crons |-> IF c = often THEN 1..Horizon ELSE {2}]

VARIABLE chain    \* the part that a behaviour follows

ChainsInit == Init /\ GrantsInit /\ chain \in {"fires", "grants"}

ChainsNext ==
    /\ chain' = chain
    /\ \/ chain = "fires" /\ Next /\ UNCHANGED grantVars
       \/ chain = "grants" /\ GrantsNext /\ UNCHANGED vars

\* Fairness and GrantsFairness, each where its part is followed.
ChainsFairness ==
    /\ WF_vars(chain = "fires" /\ Tick) /\ WF_vars(chain = "fires" /\ Start)
    /\ WF_vars(chain = "fires" /\ (HydrateRead \/ HydrateAdd \/ HydrateWrite))
    /\ \A t \in Times : WF_vars(chain = "fires" /\ FireStep(t))
    /\ \A a \in Admins : WF_vars(chain = "fires" /\ AdminStep(a))
    /\ \A h \in Handlers : /\ WF_grantVars(chain = "grants" /\ HandlerStep(h))
                           /\ WF_grantVars(chain = "grants" /\ MarkStale(h))
    /\ WF_grantVars(chain = "grants" /\ JobStep)
    /\ WF_grantVars(chain = "grants" /\ FiveMinutesPass)

ChainsSpec == ChainsInit /\ [][ChainsNext]_<<vars, grantVars, chain>> /\ ChainsFairness
=============================================================================
