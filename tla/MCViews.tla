------------------------------ MODULE MCViews ------------------------------
(* Presence and Dashboard share no state; a behaviour is about one of them. *)
EXTENDS Presence, Dashboard

VARIABLE area

all == <<vars, dashVars, area>>

MCInit == Init /\ DashInit /\ area \in {"presence", "dashboard"}

InPresence(A) == area = "presence" /\ A /\ UNCHANGED <<dashVars, area>>
InDashboard(A) == area = "dashboard" /\ A /\ UNCHANGED <<vars, area>>

MCNext == InPresence(Next) \/ InDashboard(DashNext)

\* Rosters keep coming while the game answers (a timer of the control plane), and a request that has begun ends.
PresenceFair ==
    /\ WF_all(InPresence(ListPlayersParsed))
    /\ WF_all(InPresence(ApplyPlayerRoster /\ UNCHANGED <<inGame, reachable>>))
    /\ WF_all(InPresence(Step(RosterStep)))
    /\ WF_all(InPresence(TakeLine /\ UNCHANGED <<inGame, reachable>>))
    /\ WF_all(InPresence(Step(LogStep)))
    /\ WF_all(InPresence(Step(Reconcile("list"))))

\* Pages poll by timers, and every request is answered.
DashboardFair ==
    /\ WF_all(InDashboard(Poll)) /\ WF_all(InDashboard(LoadServers))
    /\ WF_all(InDashboard(Button))
    /\ \A i \in Slots : WF_all(InDashboard(Load(i)))

MCSpec == MCInit /\ [][MCNext]_all /\ PresenceFair /\ DashboardFair

=============================================================================
