----------------------------- MODULE Milestones -----------------------------
(***************************************************************************)
(* Which rewards a player earns: triggers on the first join, on hours      *)
(* played and on the sum donated, their creation, switching and backfill,  *)
(* and the requests that move a player past a threshold                    *)
(* (triggers.service.ts and catalog.ts; the log's and the roster's leaving *)
(* players, and a paid donation).  How a reward is delivered is module     *)
(* TriggerGrants.  The amount of a first join is 1 once the player has a   *)
(* row: nothing else tells the code that the player has been there before. *)
(***************************************************************************)
EXTENDS Naturals, FiniteSets

CONSTANTS
    TriggerIds,     \* ids of triggers
    Movers,         \* requests that may be in progress at once
    Targets,        \* thresholds an operator may choose
    MaxPlayed,      \* bound on the clock and on the amounts
    MaxSwitches,    \* bound on the operator's requests
    Unset,          \* no trigger yet; not in the game
    Gone            \* a trigger that was removed

EventTypes == {"first_join", "playtime", "donation"}
TriggerRow == [kind : EventTypes, target : Targets, enabled : BOOLEAN, applyToExisting : BOOLEAN]

ASSUME MilestonesAssumption ==
    /\ Unset # Gone /\ Unset \notin Nat /\ {Unset, Gone} \cap TriggerRow = {}
    /\ Targets \subseteq Nat \ {0} /\ MaxPlayed \in Nat /\ MaxSwitches \in Nat

VARIABLES
    trigger,        \* the triggers rows
    fired,          \* the triggers with a fire row for the player
    amount,         \* the player's row: lifetimeSeconds, totalDonatedCents, first join
    joinedAt,       \* currentSessionStartedAt while the player is online
    playClock,
    mover,          \* the requests in progress
    switches,       \* the operator's requests so far
    watching,       \* triggers enabled since before the player reached their threshold,
                    \* or made up for with a backfill that reached the player
    passed,         \* first-join triggers that watched when a line with the player's UUID
                    \* made the row, which nothing evaluates
    slipped         \* a request died, failed, or read what another was changing: what
                    \* follows is not followed further

milestoneVars ==
    <<trigger, fired, amount, joinedAt, playClock, mover, switches, watching, passed, slipped>>

NoMover == [pc |-> "idle", kind |-> Unset, prev |-> 0, next |-> 0, todo |-> {}]

MilestonesInit ==
    /\ trigger = [t \in TriggerIds |-> Unset] /\ fired = {}
    /\ amount = [k \in EventTypes |-> 0] /\ joinedAt = Unset /\ playClock = 0
    /\ mover = [m \in Movers |-> NoMover]
    /\ switches = 0 /\ watching = {} /\ passed = {} /\ slipped = FALSE

Resting(m) == mover[m].pc = "idle"
\* Another request has read what this one reads and will write it.
Overlaps(kind) == \E o \in Movers : mover[o].kind = kind /\ mover[o].pc \in {"leave", "credit"}
Known == {t \in TriggerIds : trigger[t] \notin {Unset, Gone}}

\* crossed...: from below the threshold to it or past it.
Crossed(prev, next, target) == prev < target /\ target <= next

PlayTick ==
    /\ playClock < MaxPlayed
    /\ playClock' = playClock + 1
    /\ UNCHANGED <<trigger, fired, amount, joinedAt, mover, switches, watching, passed, slipped>>

-----------------------------------------------------------------------------
(* The operator.                                                           *)

Switch == switches < MaxSwitches /\ switches' = switches + 1

\* backfillTrigger reads 500 of those who are past the threshold already; whether the
\* player is within them, nothing orders.
Backfilled(m, kind, target, t, within) ==
    mover' = [mover EXCEPT ![m] = [NoMover EXCEPT !.pc = "fire", !.kind = kind,
                                    !.todo = IF amount[kind] >= target /\ within THEN {t} ELSE {}]]

CreateTrigger(m, t, kind, target, enabled, applyToExisting, within) ==
    /\ Resting(m) /\ Switch /\ trigger[t] = Unset
    /\ kind = "first_join" => target = 1
    /\ trigger' = [trigger EXCEPT ![t] = [kind |-> kind, target |-> target, enabled |-> enabled,
                                          applyToExisting |-> applyToExisting]]
    /\ IF enabled /\ applyToExisting
       THEN Backfilled(m, kind, target, t, within) ELSE UNCHANGED mover
    /\ watching' = IF enabled /\ ((applyToExisting /\ within) \/ amount[kind] < target)
                   THEN watching \cup {t} ELSE watching
    /\ UNCHANGED <<fired, amount, joinedAt, playClock, passed, slipped>>

\* A trigger that is switched on watches what it makes up for, and what comes after.
Watch(t, enabled, within) ==
    /\ watching' = IF ~enabled THEN watching \ {t}
                   ELSE IF /\ ~trigger[t].enabled
                           /\ \/ trigger[t].applyToExisting /\ within
                              \/ amount[trigger[t].kind] < trigger[t].target
                   THEN watching \cup {t} ELSE watching
    /\ passed' = IF enabled THEN passed ELSE passed \ {t}

\* Mutant: a trigger that is enabled again is not made up for.
UpdateTrigger_NoBackfill(m, t, enabled, within) ==
    /\ Resting(m) /\ Switch /\ t \in Known
    /\ trigger' = [trigger EXCEPT ![t].enabled = enabled]
    /\ UNCHANGED mover
    /\ Watch(t, enabled, within)
    /\ UNCHANGED <<fired, amount, joinedAt, playClock, slipped>>

\* update: a trigger that was off and is switched on makes up for what it missed, when it
\* was created to apply to players who are past the threshold.
UpdateTrigger(m, t, enabled, within) ==
    /\ Resting(m) /\ Switch /\ t \in Known
    /\ trigger' = [trigger EXCEPT ![t].enabled = enabled]
    /\ IF ~trigger[t].enabled /\ enabled /\ trigger[t].applyToExisting
       THEN Backfilled(m, trigger[t].kind, trigger[t].target, t, within) ELSE UNCHANGED mover
    /\ Watch(t, enabled, within)
    /\ UNCHANGED <<fired, amount, joinedAt, playClock, slipped>>

\* The fires of a trigger go with it.
RemoveMilestone(t) ==
    /\ t \in Known /\ Switch
    /\ trigger' = [trigger EXCEPT ![t] = Gone]
    /\ fired' = fired \ {t} /\ watching' = watching \ {t} /\ passed' = passed \ {t}
    /\ UNCHANGED <<amount, joinedAt, playClock, mover, slipped>>

-----------------------------------------------------------------------------
(* The player.                                                             *)

MoverGoes(m, kind, prev, next) ==
    mover' = [mover EXCEPT ![m] = [NoMover EXCEPT !.pc = "read", !.kind = kind,
                                                  !.prev = prev, !.next = next]]

\* parsePlayers, the log's line with a player's UUID: a player without a row gets one, of a
\* player who is offline, and no trigger is evaluated.
UuidLine ==
    /\ amount["first_join"] = 0
    /\ amount' = [amount EXCEPT !["first_join"] = 1]
    /\ LET firstJoins == {t \in watching \cap Known : trigger[t].kind = "first_join"}
       IN  watching' = watching \ firstJoins /\ passed' = passed \cup firstJoins
    /\ UNCHANGED <<trigger, fired, joinedAt, playClock, mover, switches, slipped>>

\* The log's line of a player who joins, or a roster with a player who was offline: the
\* first join is evaluated when there was no row.
PlayerJoins(m) ==
    /\ Resting(m) /\ joinedAt = Unset
    /\ joinedAt' = playClock
    /\ amount' = [amount EXCEPT !["first_join"] = 1]
    /\ IF amount["first_join"] = 0 THEN MoverGoes(m, "first_join", 0, 1) ELSE UNCHANGED mover
    /\ UNCHANGED <<trigger, fired, playClock, switches, watching, passed, slipped>>

\* A roster with a player who was online: the hours so far, the session included.
RosterSees(m) ==
    /\ Resting(m) /\ joinedAt # Unset
    /\ MoverGoes(m, "playtime", amount["playtime"], amount["playtime"] + (playClock - joinedAt))
    /\ slipped' = Overlaps("playtime")
    /\ UNCHANGED <<trigger, fired, amount, joinedAt, playClock, switches, watching, passed>>

\* The log's line of a player who leaves, or a roster without the player: the row as it
\* is read, then the session added to it.
LeaveReads(m) ==
    /\ Resting(m) /\ joinedAt # Unset
    /\ mover' = [mover EXCEPT ![m] = [NoMover EXCEPT !.pc = "leave", !.kind = "playtime",
            !.prev = amount["playtime"], !.next = amount["playtime"] + (playClock - joinedAt)]]
    /\ slipped' = Overlaps("playtime")
    /\ UNCHANGED <<trigger, fired, amount, joinedAt, playClock, switches, watching, passed>>

LeaveWrites(m) ==
    /\ mover[m].pc = "leave"
    /\ amount' = [amount EXCEPT !["playtime"] = @ + (mover[m].next - mover[m].prev)]
    /\ joinedAt' = Unset
    /\ mover' = [mover EXCEPT ![m].pc = "read"]
    /\ UNCHANGED <<trigger, fired, playClock, switches, watching, passed, slipped>>

\* creditPaidSession, of a player with a row.
DonationReads(m) ==
    /\ Resting(m) /\ amount["first_join"] = 1 /\ amount["donation"] < MaxPlayed
    /\ mover' = [mover EXCEPT ![m] = [NoMover EXCEPT !.pc = "credit", !.kind = "donation",
            !.prev = amount["donation"], !.next = amount["donation"] + 1]]
    /\ slipped' = Overlaps("donation")
    /\ UNCHANGED <<trigger, fired, amount, joinedAt, playClock, switches, watching, passed>>

DonationWrites(m) ==
    /\ mover[m].pc = "credit"
    /\ amount' = [amount EXCEPT !["donation"] = mover[m].next]
    /\ mover' = [mover EXCEPT ![m].pc = "read"]
    /\ UNCHANGED <<trigger, fired, joinedAt, playClock, switches, watching, passed, slipped>>

-----------------------------------------------------------------------------
(* evaluateFirstJoin, evaluatePlaytime, evaluateDonationTotal.             *)

Evaluate(m) ==
    /\ mover[m].pc = "read"
    /\ mover' = [mover EXCEPT ![m].pc = "fire", ![m].todo =
            {t \in Known : /\ trigger[t].enabled /\ trigger[t].kind = mover[m].kind
                           /\ Crossed(mover[m].prev, mover[m].next, trigger[t].target)}]
    /\ UNCHANGED <<trigger, fired, amount, joinedAt, playClock, switches, watching, passed, slipped>>

\* fireOnce: one row for each trigger and event key; an error is ignored.
FireMilestone(m, t, fails) ==
    /\ mover[m].pc = "fire" /\ t \in mover[m].todo
    /\ fired' = IF fails \/ t \notin Known THEN fired ELSE fired \cup {t}
    /\ slipped' = fails
    /\ mover' = [mover EXCEPT ![m].todo = @ \ {t}]
    /\ UNCHANGED <<trigger, amount, joinedAt, playClock, switches, watching, passed>>

MoverEnds(m, dies) ==
    /\ ~Resting(m)
    /\ dies \/ (mover[m].pc = "fire" /\ mover[m].todo = {})
    /\ mover' = [mover EXCEPT ![m] = NoMover]
    /\ slipped' = dies
    /\ UNCHANGED <<trigger, fired, amount, joinedAt, playClock, switches, watching, passed>>

\* An operator's request about a trigger, handled by m.
TriggerRequest(m, t) ==
    \/ \E kind \in EventTypes, target \in Targets, on, existing, within \in BOOLEAN :
        CreateTrigger(m, t, kind, target, on, existing, within)
    \/ \E enabled, within \in BOOLEAN : UpdateTrigger(m, t, enabled, within)
    \/ RemoveMilestone(t)

MilestonesNext ==
    /\ ~slipped
    /\ \/ PlayTick \/ UuidLine
       \/ \E m \in Movers :
           \/ \E t \in TriggerIds : TriggerRequest(m, t)
           \/ PlayerJoins(m) \/ RosterSees(m) \/ LeaveReads(m) \/ LeaveWrites(m)
           \/ DonationReads(m) \/ DonationWrites(m) \/ Evaluate(m)
           \/ \E t \in TriggerIds, fails \in BOOLEAN : FireMilestone(m, t, fails)
           \/ \E dies \in BOOLEAN : MoverEnds(m, dies)

MilestonesSpec == MilestonesInit /\ [][MilestonesNext]_milestoneVars

-----------------------------------------------------------------------------
\* Between requests a trigger has fired for the player whenever the player is past a threshold
\* the trigger watched over, however the hours came together and whether it was created or
\* switched on before or after; and it never fired before the threshold was reached, counting
\* the session.  A reward may be lost by requests that failed, or read the same amount to
\* change it; by a backfill with more than 500 players; and a first join is rewarded only
\* when the row was not made by a line with the player's UUID (see FirstJoinRewarded).
RewardedWhenEarned ==
    slipped \/ \A t \in Known :
        LET kind == trigger[t].kind
            session == IF kind = "playtime" /\ joinedAt # Unset THEN playClock - joinedAt ELSE 0
        IN /\ t \in watching /\ amount[kind] >= trigger[t].target /\ (\A m \in Movers : Resting(m))
                => t \in fired
           /\ t \in fired => amount[kind] + session >= trigger[t].target

\* "First-join evaluation on roster create and join logs" (CHANGELOG.md:62): a trigger that
\* was enabled when a player came for the first time has fired once the join is handled.
FirstJoinRewarded ==
    slipped \/ \A t \in (watching \cup passed) \cap Known :
        /\ trigger[t].kind = "first_join"
        /\ joinedAt # Unset
        /\ \A m \in Movers : Resting(m)
        => t \in fired

=============================================================================
