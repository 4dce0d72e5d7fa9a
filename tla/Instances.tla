----------------------------- MODULE Instances -----------------------------
(***************************************************************************)
(* The server instances of one host: the operator's create, update and     *)
(* remove, and the discovery an agent reports at each start                *)
(* (server-instances.service.ts).  A request reads rows and then writes    *)
(* from what it read; an agent that was restarted leaves its last report   *)
(* in progress.  A path is a directory and the spelling it was typed in.   *)
(***************************************************************************)
EXTENDS Naturals, FiniteSets, FiniteSetsExt

CONSTANTS
    Dirs,           \* install directories
    Syncs,          \* reports that may be in progress at once
    Clerks,         \* updates that may be in progress at once
    MaxRows,        \* bound on the rows ever created
    MaxChanges,     \* bound on the operator's requests
    Nothing         \* null: an empty column, no row

ASSUME InstancesAssumption ==
    IsFiniteSet(Dirs) /\ MaxRows \in Nat /\ MaxChanges \in Nat

VARIABLES
    instance,       \* the rows by number, in the order of createdAt
    created,        \* rows created so far
    sync,           \* the discovery reports in progress
    clerk,          \* the updates in progress
    wish,           \* what the operator last asked of each row
    crossed,        \* rows an update and a report, or two updates, changed at once
    changes         \* the operator's requests so far

instanceVars == <<instance, created, sync, clerk, wish, crossed, changes>>

Rows == 1..MaxRows
Spellings == {"plain", "slashed"}
Paths == {Nothing} \cup [dir : Dirs, spelling : Spellings]
DiscoveryHints == {Nothing, "loopback", "public"}
NoSync == [pc |-> "idle", seen |-> {}, dir |-> Nothing, hint |-> Nothing]
NoClerk == [pc |-> "idle", id |-> 0, copy |-> Nothing]
NoWish == [url |-> Nothing, cmd |-> Nothing]

InstancesInit ==
    /\ instance = [i \in Rows |-> Nothing] /\ created = 0
    /\ sync = [s \in Syncs |-> NoSync] /\ clerk = [c \in Clerks |-> NoClerk]
    /\ wish = [i \in Rows |-> NoWish]
    /\ crossed = {} /\ changes = 0

Live == {i \in Rows : instance[i] # Nothing}
Change == changes < MaxChanges /\ changes' = changes + 1

-----------------------------------------------------------------------------
(* The operator.                                                           *)

\* create: the columns as they are given, and no configuration.
CreateInstance(path, url) ==
    /\ created < MaxRows /\ Change
    /\ created' = created + 1
    /\ instance' = [instance EXCEPT ![created + 1] =
            [path |-> path, start |-> Nothing, url |-> url,
             cmd |-> Nothing, managed |-> FALSE, hint |-> Nothing]]
    /\ wish' = [wish EXCEPT ![created + 1].url = url]
    /\ UNCHANGED <<sync, clerk, crossed>>

Meets(i) ==
    \/ \E s \in Syncs : \E r \in sync[s].seen : r.id = i
    \/ \E c \in Clerks : clerk[c].id = i

\* update finds the row.
UpdateReads(c, i) ==
    /\ clerk[c].pc = "idle" /\ i \in Live /\ Change
    /\ clerk' = [clerk EXCEPT ![c] = [pc |-> "read", id |-> i, copy |-> instance[i]]]
    /\ crossed' = IF Meets(i) THEN crossed \cup {i} ELSE crossed
    /\ UNCHANGED <<instance, created, sync, wish>>

\* The fields the request names are written; a new update command is written with
\* the rest of the configuration as it was read.  A row that is gone is an error.
Fields == [url : {"mine"}] \cup [cmd : {"mine"}] \cup [start : {"mine"}]
          \cup {[url |-> Nothing], [cmd |-> Nothing]} \cup [path : Paths]

Updated(row, copy, f) ==
    CASE "url" \in DOMAIN f -> [row EXCEPT !.url = f.url]
      [] "start" \in DOMAIN f -> [row EXCEPT !.start = f.start]
      [] "path" \in DOMAIN f -> [row EXCEPT !.path = f.path]
      [] "cmd" \in DOMAIN f ->
            [row EXCEPT !.cmd = f.cmd, !.managed = copy.managed, !.hint = copy.hint]

UpdateWrites(c, f) ==
    LET i == clerk[c].id IN
    /\ clerk[c].pc = "read"
    /\ instance' = IF i \in Live
                   THEN [instance EXCEPT ![i] = Updated(@, clerk[c].copy, f)] ELSE instance
    /\ wish' = [wish EXCEPT ![i] = IF "url" \in DOMAIN f THEN [@ EXCEPT !.url = f.url]
                                   ELSE IF "cmd" \in DOMAIN f THEN [@ EXCEPT !.cmd = f.cmd] ELSE @]
    /\ clerk' = [clerk EXCEPT ![c] = NoClerk]
    /\ UNCHANGED <<created, sync, crossed, changes>>

RemoveInstance(i) ==
    /\ i \in Live /\ Change
    /\ instance' = [instance EXCEPT ![i] = Nothing]
    /\ UNCHANGED <<created, sync, clerk, wish, crossed>>

-----------------------------------------------------------------------------
(* upsertDiscoveredMinecraftInstance.                                      *)

\* Slashes and case do not count; no path is the empty one.
NormalizePath(path) == IF path = Nothing THEN Nothing ELSE path.dir

\* The agent reports what it found in its directory; the rows of the host are read.
SyncReads(s, dir, hint) ==
    /\ sync[s].pc = "idle"
    /\ sync' = [sync EXCEPT ![s] = [pc |-> "read", dir |-> dir, hint |-> hint,
            seen |-> {[id |-> i, row |-> instance[i]] : i \in Live}]]
    /\ crossed' = crossed \cup {i \in Live : \E c \in Clerks : clerk[c].id = i}
    /\ UNCHANGED <<instance, created, clerk, wish, changes>>

\* The first row of that directory, or else the only row.
FindMatchingDiscoveredInstance(seen, path) ==
    LET same == {r \in seen : NormalizePath(r.row.path) = NormalizePath(path)} IN
    IF same # {} THEN {CHOOSE r \in same : \A o \in same : r.id <= o.id}
    ELSE IF Cardinality(seen) = 1 THEN seen ELSE {}

\* Mutant: the report replaces the configuration.
MergeConfig_Replaces(row, hint) == [row EXCEPT !.managed = TRUE, !.cmd = Nothing, !.hint = hint]

\* mergeConfig: what the report does not name stays as it was read, a map hint too.
MergeConfig(row, hint) ==
    [row EXCEPT !.managed = TRUE, !.hint = IF hint = Nothing THEN @ ELSE hint]

\* mapEmbedHint: a loopback address is of no use to a dashboard.
MapEmbedHint(hint) == IF hint = "loopback" THEN Nothing ELSE hint

SyncCreates(path, hint) ==
    /\ created < MaxRows
    /\ created' = created + 1
    /\ instance' = [instance EXCEPT ![created + 1] =
            MergeConfig([path |-> path, start |-> "found",
                         url |-> MapEmbedHint(hint), cmd |-> Nothing, managed |-> FALSE,
                         hint |-> Nothing], hint)]

\* The columns that follow the report, decided from the row as it was read: the start
\* command unless an operator wrote it and no agent manages the row, the address of the
\* map when there is none.
Discovered(row, old, path, hint) ==
    LET merged == MergeConfig(old, hint) IN
    [row EXCEPT !.path = path,
                !.start = IF old.managed \/ old.start = Nothing THEN "found" ELSE @,
                !.url = IF old.url = Nothing /\ MapEmbedHint(merged.hint) # Nothing
                        THEN MapEmbedHint(merged.hint) ELSE @,
                !.cmd = merged.cmd, !.managed = merged.managed, !.hint = merged.hint]

SyncWrites(s) ==
    LET path == [dir |-> sync[s].dir, spelling |-> "plain"]
        match == FindMatchingDiscoveredInstance(sync[s].seen, path)
    IN
    /\ sync[s].pc = "read"
    /\ IF match = {}
       THEN SyncCreates(path, sync[s].hint)
       ELSE \E r \in match :
            /\ instance' = IF r.id \in Live
                           THEN [instance EXCEPT ![r.id] = Discovered(@, r.row, path, sync[s].hint)]
                           ELSE instance
            /\ UNCHANGED created
    /\ sync' = [sync EXCEPT ![s] = NoSync]
    /\ UNCHANGED <<clerk, wish, crossed, changes>>

InstancesNext ==
    \/ \E path \in Paths, url \in {Nothing, "mine"} : CreateInstance(path, url)
    \/ \E c \in Clerks, i \in Rows : UpdateReads(c, i)
    \/ \E c \in Clerks, f \in Fields : UpdateWrites(c, f)
    \/ \E i \in Rows : RemoveInstance(i)
    \/ \E s \in Syncs, dir \in Dirs, hint \in DiscoveryHints : SyncReads(s, dir, hint)
    \/ \E s \in Syncs : SyncWrites(s)

InstancesSpec == InstancesInit /\ [][InstancesNext]_instanceVars

-----------------------------------------------------------------------------
\* What the operator set is what the row keeps: the address of the map and the update
\* command survive every report of the agent, and a hint fills the address only while the
\* operator gave none.  Only an update that overlapped a report or another update of the
\* row may be lost.
OperatorKept ==
    \A i \in Live \ crossed :
        /\ instance[i].cmd = wish[i].cmd
        /\ wish[i].url # Nothing => instance[i].url = wish[i].url

=============================================================================
