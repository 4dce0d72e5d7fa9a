------------------------------- MODULE Portal -------------------------------
(***************************************************************************)
(* The player portal (control-plane/src/player-auth): accounts of players, *)
(* kept as a password on the Player row a name is found by, and the        *)
(* sessions of the portal.  Rows come and go with presence: a roster names *)
(* a player, a UUID line of the log turns the name's row into the UUID's   *)
(* or merges it into the one there is.  One name is modelled, which two    *)
(* UUIDs carry in turn; a row remembers the name until its UUID is seen    *)
(* under another one.                                                      *)
(***************************************************************************)
EXTENDS Naturals, FiniteSets, FiniteSetsExt

CONSTANTS
    PlayerIds,          \* database ids of Player rows, numbers
    PortalPasswords,
    Visitors,           \* requests of the portal in progress at once
    MaxSessions,        \* bound on the sessions issued
    NoPlayer            \* no row, no password

ASSUME PortalAssumption ==
    /\ PlayerIds \subseteq Nat /\ IsFiniteSet(PlayerIds) /\ NoPlayer \notin PortalPasswords
    /\ MaxSessions \in Nat

VARIABLES
    player,         \* the Player rows of the portal's server
    spare,          \* another Minecraft server is registered
    portalSet,      \* PLAYER_PORTAL_SERVER_ID names the portal's server
    visit,          \* registrations in progress: password and row, as picked
    portalTokens,   \* the sessions that were issued
    contested       \* rows two registrations had picked at once

portalVars == <<player, spare, portalSet, visit, portalTokens, contested>>

Uuids == {"u1", "u2"}
Nobody == [pw |-> NoPlayer, row |-> NoPlayer]
NewRow(key) == [key |-> key, named |-> TRUE, pass |-> NoPlayer, steam |-> FALSE]

\* A row of the time when players were known by Steam may be there.
PortalInit ==
    /\ \E old \in {NoPlayer, [NewRow("steam") EXCEPT !.steam = TRUE]} :
         player = [i \in PlayerIds |-> IF i = Min(PlayerIds) THEN old ELSE NoPlayer]
    /\ spare = FALSE /\ portalSet \in BOOLEAN
    /\ visit = [x \in Visitors |-> Nobody]
    /\ portalTokens = {} /\ contested = {}

-----------------------------------------------------------------------------
(* Presence, each of its reconciliations as one step.                      *)

PlayerRows == {i \in PlayerIds : player[i] # NoPlayer}
Keyed(key) == {i \in PlayerRows : player[i].key = key}
Mentioned == {visit[x].row : x \in Visitors} \cup {t.sub : t \in portalTokens}
NewIds == PlayerIds \ (PlayerRows \cup Mentioned \cup contested)

\* applyPlayerRoster finds the name in a roster.
Rostered ==
    /\ Keyed("name") = {} /\ NewIds # {}
    /\ player' = [player EXCEPT ![Min(NewIds)] = NewRow("name")]
    /\ UNCHANGED <<spare, portalSet, visit, portalTokens, contested>>

\* reconcileNameFallback: the name's row gets the UUID, or goes into the UUID's row,
\* which keeps its own password.
Reconciled(u) ==
    [i \in PlayerIds |->
        IF i \notin Keyed("name") THEN player[i]
        ELSE IF Keyed(u) = {} THEN [player[i] EXCEPT !.key = u] ELSE NoPlayer]

\* A UUID line: the rows are reconciled, then the UUID's row has the name.
SeenAs(u) ==
    LET rows == Reconciled(u)
        of == {i \in PlayerIds : rows[i] # NoPlayer /\ rows[i].key = u} IN
    /\ of # {} \/ NewIds # {}
    /\ player' = [i \in PlayerIds |->
                    IF i \in of THEN [rows[i] EXCEPT !.named = TRUE]
                    ELSE IF of = {} /\ i = Min(NewIds) THEN NewRow(u) ELSE rows[i]]
    /\ UNCHANGED <<spare, portalSet, visit, portalTokens, contested>>

\* The UUID is seen under another name.
SeenElsewhere(u) ==
    /\ \E i \in Keyed(u) : player[i].named /\ player' = [player EXCEPT ![i].named = FALSE]
    /\ UNCHANGED <<spare, portalSet, visit, portalTokens, contested>>

\* A second Minecraft server is registered or removed.
SpareServer ==
    /\ spare' = ~spare
    /\ UNCHANGED <<player, portalSet, visit, portalTokens, contested>>

-----------------------------------------------------------------------------
(* The portal.                                                             *)

\* portalServer: the configured one, else the only Minecraft server.
PortalServer == portalSet \/ ~spare

Matches == {i \in PlayerRows : player[i].named}

\* pickPortalPlayerMatch: the first rule that leaves one row; the row, or none.
PickPortalPlayerMatch(rows) ==
    LET rules == <<rows, {i \in rows : player[i].key \in Uuids},
                   {i \in rows : player[i].steam}, {i \in rows : player[i].pass # NoPlayer},
                   {i \in rows : player[i].key # "name"}>>
        decisive == {r \in DOMAIN rules : Cardinality(rules[r]) = 1}
    IN IF decisive = {} THEN {} ELSE rules[Min(decisive)]

\* issueNameSession.
IssueSession(t) == portalTokens' = portalTokens \cup {t}
Issue(i, pw) == IssueSession([sub |-> i, auth |-> "name", pw |-> pw])
MayIssue == Cardinality(portalTokens) < MaxSessions

\* The row without an account; mutant: any row.
Registrable_Any(i) == TRUE
Registrable(i) == player[i].pass = NoPlayer

\* registerName up to its write; without a server, a match or a free row it is refused.
RegisterReads(x, pw) ==
    /\ PortalServer /\ visit[x] = Nobody
    /\ \E i \in PickPortalPlayerMatch(Matches) :
        /\ Registrable(i)
        /\ visit' = [visit EXCEPT ![x] = [pw |-> pw, row |-> i]]
        /\ contested' = IF \E y \in Visitors : visit[y].row = i THEN contested \cup {i} ELSE contested
    /\ UNCHANGED <<player, spare, portalSet, portalTokens>>

\* The password is written by the id that was read; the row may be gone.
RegisterWrites(x) ==
    LET i == visit[x].row IN
    /\ visit[x] # Nobody /\ MayIssue
    /\ visit' = [visit EXCEPT ![x] = Nobody]
    /\ IF i \in PlayerRows
       THEN player' = [player EXCEPT ![i].pass = visit[x].pw] /\ Issue(i, visit[x].pw)
       ELSE UNCHANGED <<player, portalTokens>>
    /\ UNCHANGED <<spare, portalSet, contested>>

LoginName(pw) ==
    /\ PortalServer /\ MayIssue
    /\ \E i \in PickPortalPlayerMatch(Matches) : player[i].pass = pw /\ Issue(i, pw)
    /\ UNCHANGED <<player, spare, portalSet, visit, contested>>

\* verifySteam: Steam has confirmed the id, and a row of the server has it.
VerifySteam ==
    /\ MayIssue
    /\ \E i \in PlayerRows :
        /\ player[i].steam
        /\ IssueSession([sub |-> i, auth |-> "steam", pw |-> NoPlayer])
    /\ UNCHANGED <<player, spare, portalSet, visit, contested>>

\* requirePlayer: whether a session is accepted.
RequirePlayer(t) ==
    /\ t.sub \in PlayerRows
    /\ IF t.auth = "steam" THEN player[t.sub].steam ELSE player[t.sub].pass # NoPlayer

PortalNext ==
    \/ Rostered \/ SpareServer \/ VerifySteam
    \/ \E u \in Uuids : SeenAs(u) \/ SeenElsewhere(u)
    \/ \E pw \in PortalPasswords : LoginName(pw) \/ \E x \in Visitors : RegisterReads(x, pw)
    \/ \E x \in Visitors : RegisterWrites(x)

PortalSpec == PortalInit /\ [][PortalNext]_portalVars

-----------------------------------------------------------------------------
\* Whoever a portal session was given to knows the password of the row it is accepted
\* for, however rows were promoted and merged in between: no second registration takes
\* an account over, except one that had picked the row at the same time.
OneOwner ==
    \A t \in portalTokens :
        t.auth = "name" /\ RequirePlayer(t) /\ t.sub \notin contested => t.pw = player[t.sub].pass

=============================================================================
