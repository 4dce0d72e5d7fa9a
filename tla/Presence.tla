------------------------------ MODULE Presence ------------------------------
(***************************************************************************)
(* Who is online: one player of one server, known to the control plane by  *)
(* the log lines of the game (parsePlayers) and by rosters the agent reads *)
(* with the command "list" (applyPlayerRoster).  The log names a player by *)
(* UUID, a roster only by name, so that two rows may stand for the player  *)
(* until reconcileNameFallback makes them one.  Each read or write of the  *)
(* database is a step; a row is written by the id that was read.           *)
(***************************************************************************)
EXTENDS Naturals, Sequences, FiniteSets, FiniteSetsExt, TLAPS, WellFoundedInduction

CONSTANTS
    Ids,            \* database ids of Player rows
    MaxOpen,        \* open sessions of a row are counted up to this number
    MaxBacklog,     \* lines of the log that wait to be parsed
    MaxActive,      \* requests in progress at once
    NoRow

\* The rows of players: the key an identity has, its state, its open sessions.
Keys == {"name", "uuid"}
PlayerRows == [key : Keys, online : BOOLEAN, open : 0 .. MaxOpen]

ASSUME PresenceAssumption ==
    /\ Ids \subseteq Nat /\ IsFiniteSet(Ids) /\ NoRow \notin Ids /\ NoRow \notin PlayerRows
    /\ MaxOpen \in Nat \ {0} /\ MaxBacklog \in Nat /\ MaxActive \in Nat \ {0}

VARIABLES
    inGame,         \* the player is connected to the game
    reachable,      \* the game answers the agent, and the last heartbeat said so
    lines,          \* lines of the log not yet parsed
    row,            \* the Player rows, with their open sessions
    h,              \* the three handlers: "log", "roster" and "list"
    raced           \* two handlers have been in progress at once

vars == <<inGame, reachable, lines, row, h, raced>>

Handlers == {"log", "roster", "list"}
None == [id |-> NoRow, online |-> FALSE]
Idle == [pc |-> "idle", line |-> "none", key |-> "name", fallback |-> None,
         existing |-> None, canonical |-> None, present |-> FALSE, missing |-> {}]

Init ==
    /\ inGame = FALSE /\ reachable = FALSE /\ lines = <<>>
    /\ row = [i \in Ids |-> NoRow]
    /\ h = [x \in Handlers |-> Idle]
    /\ raced = FALSE

\* The rows with an identity key (at most one: the key is unique) and a copy of one.
Exists(i) == i # NoRow /\ row[i] # NoRow
At(key) == {i \in Ids : Exists(i) /\ row[i].key = key}
Find(key) == IF At(key) = {} THEN None
             ELSE LET i == CHOOSE i \in At(key) : TRUE IN [id |-> i, online |-> row[i].online]

\* An id no row has and no handler remembers.
Remembered(x) == {h[x].fallback.id, h[x].canonical.id, h[x].existing.id} \cup h[x].missing
Fresh == {i \in Ids : ~Exists(i)} \ UNION {Remembered(x) : x \in Handlers}

Active(x) == h[x].pc \notin {"idle", "sent"}
Starts(x) ==
    LET others == {y \in Handlers \ {x} : Active(y)} IN
    /\ Cardinality(others) < MaxActive
    /\ raced' = (raced \/ others # {})
Becomes(x, r) == h' = [h EXCEPT ![x] = r]
GoTo(x, pc) == Becomes(x, IF pc = "idle" THEN Idle ELSE [h[x] EXCEPT !.pc = pc])
At_(x, pc) == h[x].pc = pc

-----------------------------------------------------------------------------
(* The game                                                                *)

\* A join writes the UUID line and the join line; the agent may miss the first or both.
JoinGame ==
    /\ reachable /\ ~inGame /\ inGame' = TRUE
    /\ Len(lines) + 2 <= MaxBacklog
    /\ \E seen \in {<<"uuid", "join">>, <<"join">>, <<>>} : lines' = lines \o seen
    /\ UNCHANGED <<reachable, row, h, raced>>

\* A leave writes a line, which the agent may miss.
LeaveGame ==
    /\ inGame /\ inGame' = FALSE
    /\ Len(lines) < MaxBacklog
    /\ lines' \in {lines, Append(lines, "left")}
    /\ UNCHANGED <<reachable, row, h, raced>>

\* The game ends, with no leave lines, or no longer answers the agent; and answers again.
\* (Players who stay through a time without answers only wait longer for a roster.)
GameDown ==
    /\ reachable /\ reachable' = FALSE
    /\ inGame' = FALSE
    /\ UNCHANGED <<lines, row, h, raced>>

GameUp ==
    /\ ~reachable /\ reachable' = TRUE
    /\ UNCHANGED <<inGame, lines, row, h, raced>>

-----------------------------------------------------------------------------
(* reconcileNameFallback(identityKey = uuid): the name row becomes the UUID *)
(* row, or is merged into it.                                              *)

\* What follows in parsePlayers; players.list ends.
AfterReconcile(x) ==
    IF h[x].line = "uuid" THEN "upsertUuid" ELSE h[x].line

\* The handler goes on and forgets the copies the reconciliation read.
Reconciled(x) ==
    Becomes(x, IF x = "list" THEN Idle
               ELSE [h[x] EXCEPT !.pc = AfterReconcile(x), !.fallback = None, !.canonical = None])

\* An exception ends the handler; for the log, perhaps with the other lines of the chunk.
Throws(x) ==
    /\ GoTo(x, "idle")
    /\ lines' \in (IF x = "log" THEN {lines, <<>>} ELSE {lines})
    /\ UNCHANGED row

FindFallback(x) ==
    /\ At_(x, "fallback")
    /\ IF Find("name") = None THEN Reconciled(x)
       ELSE Becomes(x, [h[x] EXCEPT !.fallback = Find("name"), !.pc = "canonical"])
    /\ UNCHANGED <<row, lines>>

FindCanonical(x) ==
    /\ At_(x, "canonical")
    /\ Becomes(x, [h[x] EXCEPT !.canonical = Find("uuid"), !.pc = "merge"])
    /\ UNCHANGED <<row, lines>>

\* Mutant: the sessions of the name row are not moved.
MergedRow_SessionsStay(x) ==
    [row[h[x].canonical.id] EXCEPT !.online = h[x].fallback.online \/ h[x].canonical.online]

\* The row a merge writes: sessions move, online is computed from the two copies.
MergedRow(x) ==
    LET f == h[x].fallback  c == h[x].canonical IN
    [row[c.id] EXCEPT !.online = f.online \/ c.online,
                      !.open = Min({MaxOpen, @ + (IF f.id = c.id THEN 0 ELSE row[f.id].open)})]

Merge(x) ==
    LET f == h[x].fallback  c == h[x].canonical IN
    /\ At_(x, "merge")
    /\ \/ /\ c = None /\ Exists(f.id) /\ At("uuid") \subseteq {f.id}
          /\ row' = [row EXCEPT ![f.id].key = "uuid"]
          /\ Reconciled(x)
          /\ UNCHANGED lines
       \/ /\ c # None /\ Exists(f.id) /\ Exists(c.id)
          /\ row' = [row EXCEPT ![c.id] = MergedRow(x), ![f.id] = NoRow]
          /\ Reconciled(x)
          /\ UNCHANGED lines
       \/ /\ IF c = None THEN ~Exists(f.id) \/ ~(At("uuid") \subseteq {f.id})
             ELSE ~Exists(f.id) \/ ~Exists(c.id)
          /\ Throws(x)

-----------------------------------------------------------------------------
(* parsePlayers                                                            *)

TakeLine ==
    /\ At_("log", "idle") /\ lines # <<>>
    /\ lines' = Tail(lines)
    /\ Becomes("log", [Idle EXCEPT !.line = Head(lines), !.key = "uuid",
                                   !.pc = IF Head(lines) = "uuid" THEN "fallback" ELSE "named"])
    /\ Starts("log")
    /\ UNCHANGED row

\* The upsert of a UUID line creates the row offline; an existing row keeps its state.
UpsertUuid ==
    /\ At_("log", "upsertUuid")
    /\ \/ At("uuid") # {} /\ row' = row
       \/ At("uuid") = {} /\ Fresh # {}
          /\ row' = [row EXCEPT ![Min(Fresh)] = [key |-> "uuid", online |-> FALSE, open |-> 0]]
    /\ GoTo("log", "idle")
    /\ UNCHANGED lines

\* namedUuid is read before the reconciliation and used after it.
FindNamed ==
    /\ At_("log", "named")
    /\ Becomes("log", IF Find("uuid") = None THEN [h["log"] EXCEPT !.key = "name", !.pc = "existing"]
                      ELSE [h["log"] EXCEPT !.existing = Find("uuid"), !.pc = "fallback"])
    /\ UNCHANGED <<row, lines>>

\* The row by name, for a player without a UUID row; a roster reads it too.
FindExisting(x) ==
    /\ At_(x, "existing")
    /\ Becomes(x, [h[x] EXCEPT !.existing = Find("name"), !.key = "name", !.pc = h[x].line])
    /\ UNCHANGED <<row, lines>>

\* Sets a row offline and ends its open sessions: one transaction.
Offline(i) == [row[i] EXCEPT !.online = FALSE, !.open = 0]

ApplyLeave ==
    LET e == h["log"].existing IN
    /\ At_("log", "left")
    /\ \/ /\ ~e.online
          /\ GoTo("log", "idle") /\ UNCHANGED <<row, lines>>
       \/ /\ e.online /\ Exists(e.id)
          /\ row' = [row EXCEPT ![e.id] = Offline(e.id)]
          /\ GoTo("log", "idle") /\ UNCHANGED lines
       \/ e.online /\ ~Exists(e.id) /\ Throws("log")

\* The state of a row after a join.
JoinedRow(x, id) ==
    IF Exists(id) THEN [row[id] EXCEPT !.online = TRUE]
    ELSE [key |-> h[x].key, online |-> TRUE, open |-> 0]

\* A join is done: a roster goes on with the missing players.
Joined(x) ==
    Becomes(x, IF x = "roster" THEN [h[x] EXCEPT !.pc = "missing", !.existing = None, !.canonical = None]
               ELSE Idle)

\* The upsert of a join: the row is online, whatever it was.
UpsertJoin(x) ==
    /\ At_(x, "join")
    /\ LET e == h[x].existing
           id == IF At(h[x].key) # {} THEN Find(h[x].key).id ELSE Min(Fresh) IN
       /\ At(h[x].key) # {} \/ Fresh # {}
       /\ row' = [row EXCEPT ![id] = JoinedRow(x, id)]
       /\ IF e.online THEN Joined(x)
          ELSE Becomes(x, [h[x] EXCEPT !.existing = None, !.canonical.id = id, !.pc = "session"])
    /\ UNCHANGED lines

\* The session of a player who was not online before.
OpenSession(x) ==
    LET i == h[x].canonical.id IN
    /\ At_(x, "session")
    /\ \/ /\ Exists(i)
          /\ row' = [row EXCEPT ![i].open = Min({MaxOpen, @ + 1})]
          /\ Joined(x)
          /\ UNCHANGED lines
       \/ ~Exists(i) /\ Throws(x)

-----------------------------------------------------------------------------
(* Rosters                                                                 *)

\* pollPlayers creates PLAYER_LIST_SYNC for a host whose last heartbeat found the game; the
\* agent reads the list, which fails while the game does not answer, and reports it later.
ListPlayersParsed ==
    /\ At_("roster", "idle") /\ reachable
    /\ Becomes("roster", [Idle EXCEPT !.present = inGame, !.line = "join", !.pc = "sent"])
    /\ UNCHANGED <<inGame, reachable, lines, row, raced>>

\* Mutant: a roster without the player is taken for no news.
ApplyPlayerRoster_IgnoresEmpty ==
    /\ At_("roster", "sent")
    /\ GoTo("roster", IF h["roster"].present THEN "existing" ELSE "idle")
    /\ Starts("roster")
    /\ UNCHANGED <<row, lines>>

\* applyPlayerRoster starts: the player is looked up if the roster names it.
ApplyPlayerRoster ==
    /\ At_("roster", "sent")
    /\ GoTo("roster", IF h["roster"].present THEN "existing" ELSE "missing")
    /\ Starts("roster")
    /\ UNCHANGED <<row, lines>>

\* The online rows whose key the roster does not have, which is a key by name.
Seen == IF h["roster"].present THEN {"name"} ELSE {}
FindMissing ==
    /\ At_("roster", "missing")
    /\ LET gone == {i \in Ids : Exists(i) /\ row[i].online /\ row[i].key \notin Seen} IN
       IF gone = {} THEN GoTo("roster", "idle")
       ELSE Becomes("roster", [h["roster"] EXCEPT !.missing = gone, !.pc = "close"])
    /\ UNCHANGED <<row, lines>>

CloseMissing ==
    /\ At_("roster", "close")
    /\ \E i \in h["roster"].missing :
       \/ /\ Exists(i)
          /\ row' = [row EXCEPT ![i] = Offline(i)]
          /\ IF h["roster"].missing = {i} THEN GoTo("roster", "idle")
             ELSE Becomes("roster", [h["roster"] EXCEPT !.missing = @ \ {i}])
          /\ UNCHANGED lines
       \/ ~Exists(i) /\ Throws("roster")

-----------------------------------------------------------------------------
\* players.list reconciles every player with a stable id.
ListPlayers ==
    /\ At_("list", "idle") /\ At("uuid") # {}
    /\ Becomes("list", [Idle EXCEPT !.pc = "fallback", !.key = "uuid"])
    /\ Starts("list")
    /\ UNCHANGED <<row, lines>>

Reconcile(x) == FindFallback(x) \/ FindCanonical(x) \/ Merge(x)
Join(x) == FindExisting(x) \/ UpsertJoin(x) \/ OpenSession(x)
LogStep == Reconcile("log") \/ UpsertUuid \/ FindNamed \/ ApplyLeave \/ Join("log")
RosterStep == Join("roster") \/ FindMissing \/ CloseMissing
Step(A) == A /\ UNCHANGED <<inGame, reachable, raced>>

Next ==
    \/ JoinGame \/ LeaveGame \/ GameDown \/ GameUp \/ ListPlayersParsed
    \/ (TakeLine \/ ApplyPlayerRoster \/ ListPlayers) /\ UNCHANGED <<inGame, reachable>>
    \/ Step(LogStep) \/ Step(RosterStep) \/ Step(Reconcile("list"))

PresenceSpec == Init /\ [][Next]_vars

-----------------------------------------------------------------------------
\* As long as no two requests overlapped, a row is online exactly while it has an
\* open session: merging a name row, the missing players of a roster and a leave
\* line never strand a session or leave an online row without one.
SessionsMatch ==
    (~raced /\ \A x \in Handlers : ~Active(x)) =>
        \A i \in Ids : Exists(i) => (row[i].online <=> row[i].open > 0)

\* A player who has left the game for good ends offline in every row, whatever the
\* log missed and however requests overlapped, once the game answers again and goes on
\* answering: a later roster repairs it.  While the game is down nothing does.
GoneSettles == <>[](~inGame /\ reachable) => <>[](\A i \in Ids : Exists(i) => ~row[i].online)

-----------------------------------------------------------------------------
(* Proofs                                                                  *)

LogLines == {"uuid", "join", "left"}
Copies == [id : Ids \cup {NoRow}, online : BOOLEAN]
Places == {"idle", "sent", "fallback", "canonical", "merge", "upsertUuid", "named", "existing",
           "session", "missing", "close", "none"} \cup LogLines
Requests == [pc : Places, line : LogLines \cup {"none"}, key : Keys, fallback : Copies,
             existing : Copies, canonical : Copies, present : BOOLEAN, missing : SUBSET Ids]

PresenceTypeOK ==
    /\ inGame \in BOOLEAN /\ raced \in BOOLEAN
    /\ lines \in Seq(LogLines)
    /\ row \in [Ids -> PlayerRows \cup {NoRow}]
    /\ h \in [Handlers -> Requests]

\* The identity key is unique.
KeysUnique == \A i, j \in Ids : Exists(i) /\ Exists(j) /\ row[i].key = row[j].key => i = j

\* A copy that a handler took is still what the row with this key says.
IsCopy(c, key) == c.id \in Ids /\ Exists(c.id) /\ row[c.id].key = key /\ row[c.id].online = c.online

\* What a handler alone has read is still so.
Knows(q) ==
    /\ q.pc \in {"canonical", "merge"} => IsCopy(q.fallback, "name")
    /\ q.pc = "merge" => q.canonical = None \/ IsCopy(q.canonical, "uuid")
    /\ q.pc \in {"named", "fallback", "canonical", "merge"} => q.key = "uuid"
    /\ q.pc \in {"fallback", "canonical", "merge", "join", "left"} /\ q.existing.online =>
           IsCopy(q.existing, q.key)
    /\ q.pc = "session" => q.canonical.id \in Ids /\ row[q.canonical.id].online

\* Every row matches its sessions, but for the one that q is about to open.
RowsMatchBut(q) ==
    \A i \in Ids : Exists(i) =>
        (row[i].online <=> row[i].open > 0) \/ (q.pc = "session" /\ q.canonical.id = i)

RowsMatch ==
    \A i \in Ids : Exists(i) =>
        \/ row[i].online <=> row[i].open > 0
        \/ \E x \in Handlers : h[x].pc = "session" /\ h[x].canonical.id = i

Alone == \A x, y \in Handlers : Active(x) /\ Active(y) => x = y

PresenceInv ==
    /\ PresenceTypeOK /\ KeysUnique
    /\ ~raced => Alone /\ RowsMatch /\ \A x \in Handlers : Knows(h[x])

(* The least of a set of numbers.                                           *)
LEMMA LeastOf == ASSUME NEW S \in SUBSET Nat, S # {} PROVE Min(S) \in S /\ \A x \in S : Min(S) <= x
<1> DEFINE R == {q \in Nat \X Nat : q[1] < q[2]}
<1>1. IsWellFoundedOn(R, Nat)
  BY NatLessThanWellFounded DEF OpToRel
<1>2. \A x, y \in Nat : <<y, x>> \notin R => x <= y
  OBVIOUS
<1> HIDE DEF R
<1>3. \E x \in S : \A y \in S : ~(<<y, x>> \in R)
  BY <1>1, WFMin
<1>4. \E x \in S : \A y \in S : x <= y
  BY <1>2, <1>3
<1>5. QED
  BY <1>4 DEF Min

\* Open sessions are counted up to a number.
LEMMA LeastOfTwo ==
    ASSUME NEW m \in Nat \ {0}, NEW n \in Nat
    PROVE  Min({m, n}) \in 0 .. m /\ (Min({m, n}) > 0 <=> n > 0)
<1>1. Min({m, n}) \in {m, n} /\ Min({m, n}) <= m /\ Min({m, n}) <= n
  BY LeastOf
<1>2. QED
  BY <1>1

(* The handler that is in progress alone accounts for every row.            *)
LEMMA RowsOfOne ==
    ASSUME PresenceInv, NEW x \in Handlers, Active(x), ~raced
    PROVE  Knows(h[x]) /\ RowsMatchBut(h[x])
<1>1. \A y \in Handlers : h[y].pc = "session" => y = x
  BY DEF PresenceInv, Alone, Active
<1>2. QED
  BY <1>1 DEF PresenceInv, RowsMatch, RowsMatchBut

(* A step of a handler in progress.                                         *)
LEMMA HandlerStep ==
    ASSUME PresenceInv, NEW x \in Handlers, Active(x),
           NEW r \in Requests, h' = [h EXCEPT ![x] = r], UNCHANGED <<inGame, raced>>,
           lines' \in Seq(LogLines), row' \in [Ids -> PlayerRows \cup {NoRow}], KeysUnique',
           ~raced => Knows(r)' /\ RowsMatchBut(r)'
    PROVE  PresenceInv'
<1>1. PresenceTypeOK'
  BY DEF PresenceInv, PresenceTypeOK
<1>2. h'[x] = r /\ \A y \in Handlers \ {x} : h'[y] = h[y]
  BY DEF PresenceInv, PresenceTypeOK
<1>3. ASSUME ~raced PROVE Alone' /\ RowsMatch' /\ \A y \in Handlers : Knows(h[y])'
  <2>1. \A y \in Handlers \ {x} : h[y].pc \in {"idle", "sent"}
    BY <1>3 DEF PresenceInv, Alone, Active
  <2>2. Alone'
    BY <1>2, <2>1 DEF Alone, Active
  <2>3. RowsMatch'
    BY <1>2, <1>3 DEF RowsMatch, RowsMatchBut
  <2>4. \A y \in Handlers \ {x} : Knows(h[y])'
    BY <1>2, <2>1 DEF Knows
  <2>5. Knows(h[x])'
    BY <1>2, <1>3 DEF Knows, IsCopy
  <2>6. QED
    BY <2>2, <2>3, <2>4, <2>5
<1>4. QED
  BY <1>1, <1>3 DEF PresenceInv

(* A request begins: it has read nothing yet.                               *)
LEMMA StartStep ==
    ASSUME PresenceInv, NEW x \in Handlers, ~Active(x),
           NEW r \in Requests, h' = [h EXCEPT ![x] = r], UNCHANGED <<inGame, row>>,
           lines' \in Seq(LogLines), Starts(x),
           r.pc \notin {"canonical", "merge", "session", "join", "left"},
           r.pc \in {"named", "fallback"} => r.key = "uuid" /\ ~r.existing.online
    PROVE  PresenceInv'
<1>1. h'[x] = r /\ \A y \in Handlers \ {x} : h'[y] = h[y]
  BY DEF PresenceInv, PresenceTypeOK
<1>2. PresenceTypeOK' /\ KeysUnique'
  BY DEF PresenceInv, PresenceTypeOK, KeysUnique, Exists, Starts
<1>3. ASSUME ~raced' PROVE Alone' /\ RowsMatch' /\ \A y \in Handlers : Knows(h[y])'
  <2>1. ~raced /\ \A y \in Handlers \ {x} : h[y].pc \in {"idle", "sent"}
    BY <1>3 DEF PresenceInv, PresenceTypeOK, Starts, Active
  <2>2. h[x].pc \in {"idle", "sent"}
    BY DEF Active
  <2>3. Alone'
    BY <1>1, <2>1 DEF Alone, Active
  <2>4. RowsMatch'
    BY <2>1, <2>2 DEF PresenceInv, RowsMatch, Exists
  <2>5. \A y \in Handlers \ {x} : Knows(h[y])'
    BY <1>1, <2>1 DEF Knows
  <2>6. Knows(h[x])'
    BY <1>1 DEF Knows
  <2>7. QED
    BY <2>3, <2>4, <2>5, <2>6
<1>4. QED
  BY <1>2, <1>3 DEF PresenceInv

(* What a lookup by key finds.                                              *)
LEMMA Lookup ==
    ASSUME PresenceTypeOK, NEW key \in Keys
    PROVE  /\ Find(key) \in Copies
           /\ Find(key) = None => At(key) = {} 
           /\ Find(key) # None => IsCopy(Find(key), key)
           /\ At(key) # {} => Find(key) # None
<1>1. CASE At(key) = {}
  BY <1>1 DEF Find, None, Copies
<1>2. CASE At(key) # {}
  <2> DEFINE i == CHOOSE i \in At(key) : TRUE
  <2>1. i \in At(key)
    BY <1>2
  <2>2. Find(key) = [id |-> i, online |-> row[i].online]
    BY <1>2 DEF Find
  <2> HIDE DEF i
  <2>3. i \in Ids /\ i # NoRow /\ Exists(i) /\ row[i].key = key
    BY <2>1, PresenceAssumption DEF At
  <2>4. row[i] \in PlayerRows
    BY <2>3 DEF PresenceTypeOK, Exists
  <2>5. row[i].online \in BOOLEAN
    BY <2>4 DEF PlayerRows
  <2>6. QED
    BY <1>2, <2>2, <2>3, <2>5 DEF None, Copies, IsCopy
<1>3. QED
  BY <1>1, <1>2

LEMMA IdleRequest == Idle \in Requests /\ None \in Copies /\ Idle.pc = "idle" /\ ~None.online
<1>1. None \in Copies /\ ~None.online
  BY DEF None, Copies
<1> HIDE DEF None
<1>2. QED
  BY <1>1 DEF Idle, Requests, Places, LogLines, Keys

(* An exception ends a handler that opens no session.                       *)
LEMMA ThrowStep ==
    ASSUME PresenceInv, NEW x \in Handlers, Active(x), Throws(x), UNCHANGED <<inGame, raced>>,
           h[x].pc = "session" => ~Exists(h[x].canonical.id)
    PROVE  PresenceInv'
<1>1. PICK r \in Requests : r = Idle
  BY IdleRequest
<1>2. h' = [h EXCEPT ![x] = r] /\ row' = row /\ lines' \in Seq(LogLines) /\ r.pc = "idle"
  <2>1. h' = [h EXCEPT ![x] = Idle] /\ row' = row /\ lines' \in {lines, <<>>}
    BY DEF Throws, GoTo, Becomes
  <2>2. <<>> \in Seq(LogLines)
    OBVIOUS
  <2>3. lines' \in Seq(LogLines)
    BY <2>1, <2>2 DEF PresenceInv, PresenceTypeOK
  <2>4. QED
    BY <1>1, <2>1, <2>3, IdleRequest
<1>3. row' \in [Ids -> PlayerRows \cup {NoRow}] /\ KeysUnique'
  BY <1>2 DEF PresenceInv, PresenceTypeOK, KeysUnique, Exists
<1>4. ~raced => Knows(r)' /\ RowsMatchBut(r)'
  BY <1>2, RowsOfOne DEF Knows, RowsMatchBut, Exists
<1>5. QED
  BY <1>2, <1>3, <1>4, HandlerStep

(* The reconciliation of a name row.                                        *)
LEMMA ReconcileStep ==
    ASSUME PresenceInv, NEW x \in Handlers, Reconcile(x), UNCHANGED <<inGame, raced>>
    PROVE  PresenceInv'
<1>0. PresenceTypeOK /\ KeysUnique /\ h[x] \in Requests
  BY DEF PresenceInv, PresenceTypeOK
<1>1. h[x].pc \in {"fallback", "canonical", "merge"} /\ Active(x)
  BY DEF Reconcile, FindFallback, FindCanonical, Merge, At_, Active
<1>2. ~raced => Knows(h[x]) /\ RowsMatchBut(h[x])
  BY <1>1, RowsOfOne
\* What follows: the line of the request is handled, or players.list ends.
<1>3. PICK over \in Requests :
          /\ Reconciled(x) => h' = [h EXCEPT ![x] = over]
          /\ over.pc \in {"idle", "upsertUuid", "none"} \cup LogLines
          /\ over.pc \in LogLines => over.key = h[x].key /\ over.existing = h[x].existing
  <2> DEFINE next == AfterReconcile(x)
             on == [h[x] EXCEPT !.pc = next, !.fallback = None, !.canonical = None]
  <2>1. next \in {"upsertUuid", "none"} \cup LogLines
    BY <1>0 DEF AfterReconcile, Requests, LogLines
  <2> HIDE DEF next
  <2>2. on \in Requests /\ on.pc = next /\ on.key = h[x].key /\ on.existing = h[x].existing
    BY <1>0, <2>1, IdleRequest DEF Requests, Places
  <2>3. CASE x = "list"
    BY <2>3, IdleRequest DEF Reconciled, Becomes, LogLines
  <2>4. CASE x # "list"
    <3>1. Reconciled(x) => h' = [h EXCEPT ![x] = on]
      BY <2>4 DEF Reconciled, Becomes, next
    <3> HIDE DEF on
    <3>2. QED
      BY <2>1, <2>2, <3>1
  <2>5. QED
    BY <2>3, <2>4
<1>4. CASE FindFallback(x)
  <2>1. h[x].pc = "fallback" /\ UNCHANGED <<row, lines>>
    BY <1>4 DEF FindFallback, At_
  <2>2. row' \in [Ids -> PlayerRows \cup {NoRow}] /\ lines' \in Seq(LogLines) /\ KeysUnique'
    BY <1>0, <2>1 DEF PresenceTypeOK, KeysUnique, Exists
  <2>3. CASE Find("name") = None
    <3>1. Reconciled(x)
      BY <1>4, <2>3 DEF FindFallback
    <3>2. ~raced => Knows(over)' /\ RowsMatchBut(over)'
      BY <1>2, <1>3, <2>1 DEF Knows, RowsMatchBut, IsCopy, Exists, LogLines
    <3>3. QED
      BY <1>1, <1>3, <2>2, <3>1, <3>2, HandlerStep
  <2>4. CASE Find("name") # None
    <3> DEFINE c == Find("name")
    <3>1. c \in Copies /\ IsCopy(c, "name")
      BY <1>0, <2>4, Lookup DEF Keys
    <3>2. h' = [h EXCEPT ![x] = [h[x] EXCEPT !.fallback = c, !.pc = "canonical"]]
      BY <1>4, <2>4 DEF FindFallback, Becomes
    <3> HIDE DEF c
    <3>3. PICK r \in Requests : /\ r = [h[x] EXCEPT !.fallback = c, !.pc = "canonical"]
                                /\ r.pc = "canonical" /\ r.fallback = c
                                /\ r.existing = h[x].existing /\ r.key = h[x].key
      <4> DEFINE q == [h[x] EXCEPT !.fallback = c, !.pc = "canonical"]
      <4>1. q \in Requests
        BY <1>0, <3>1 DEF Requests, Places
      <4>2. /\ q.pc = "canonical" /\ q.fallback = c
            /\ q.existing = h[x].existing /\ q.key = h[x].key
        BY <1>0 DEF Requests
      <4> HIDE DEF q
      <4>3. QED
        BY <4>1, <4>2 DEF q
    <3>4. IsCopy(r.fallback, "name")'
      BY <2>1, <3>1, <3>3 DEF IsCopy, Exists
    <3>5. ~raced => Knows(r)' /\ RowsMatchBut(r)'
      BY <1>2, <2>1, <3>3, <3>4 DEF Knows, RowsMatchBut, IsCopy, Exists
    <3>6. QED
      BY <1>1, <2>2, <3>2, <3>3, <3>5, HandlerStep
  <2>5. QED
    BY <2>3, <2>4
<1>5. CASE FindCanonical(x)
  <2> DEFINE c == Find("uuid")
  <2>1. h[x].pc = "canonical" /\ UNCHANGED <<row, lines>>
        /\ h' = [h EXCEPT ![x] = [h[x] EXCEPT !.canonical = c, !.pc = "merge"]]
    BY <1>5 DEF FindCanonical, At_, Becomes
  <2>2. c \in Copies /\ (c = None \/ IsCopy(c, "uuid"))
    BY <1>0, Lookup DEF Keys
  <2> HIDE DEF c
  <2>3. PICK r \in Requests : /\ r = [h[x] EXCEPT !.canonical = c, !.pc = "merge"]
                              /\ r.pc = "merge" /\ r.fallback = h[x].fallback /\ r.canonical = c
                              /\ r.existing = h[x].existing /\ r.key = h[x].key
    <3> DEFINE q == [h[x] EXCEPT !.canonical = c, !.pc = "merge"]
    <3>1. q \in Requests
      BY <1>0, <2>2 DEF Requests, Places
    <3>2. /\ q.pc = "merge" /\ q.fallback = h[x].fallback /\ q.canonical = c
          /\ q.existing = h[x].existing /\ q.key = h[x].key
      BY <1>0 DEF Requests
    <3> HIDE DEF q
    <3>3. QED
      BY <3>1, <3>2 DEF q
  <2>4. ~raced => Knows(r)' /\ RowsMatchBut(r)'
    BY <1>2, <2>1, <2>2, <2>3 DEF Knows, RowsMatchBut, IsCopy, Exists
  <2>5. row' \in [Ids -> PlayerRows \cup {NoRow}] /\ lines' \in Seq(LogLines) /\ KeysUnique'
    BY <1>0, <2>1 DEF PresenceTypeOK, KeysUnique, Exists
  <2>6. QED
    BY <1>1, <2>1, <2>3, <2>4, <2>5, HandlerStep
<1>6. CASE Merge(x)
  <2> DEFINE f == h[x].fallback
             c == h[x].canonical
  <2>0. h[x].pc = "merge" /\ f \in Copies /\ c \in Copies
    BY <1>0, <1>6 DEF Merge, At_, Requests
  <2>1. CASE c = None /\ Exists(f.id) /\ At("uuid") \subseteq {f.id}
             /\ row' = [row EXCEPT ![f.id].key = "uuid"] /\ Reconciled(x) /\ UNCHANGED lines
    <3>1. /\ f.id \in Ids /\ row[f.id] \in PlayerRows
          /\ \A i \in Ids : Exists(i) /\ row[i].key = "uuid" => i = f.id
      BY <1>0, <2>0, <2>1 DEF Copies, Exists, PresenceTypeOK, At
    <3>2. PICK n \in PlayerRows : /\ n = [row[f.id] EXCEPT !.key = "uuid"]
                                  /\ n.key = "uuid" /\ n.online = row[f.id].online
                                  /\ n.open = row[f.id].open
      <4> DEFINE q == [row[f.id] EXCEPT !.key = "uuid"]
      <4>1. q \in PlayerRows
        BY <3>1 DEF PlayerRows, Keys
      <4>2. q.key = "uuid" /\ q.online = row[f.id].online /\ q.open = row[f.id].open
        BY <3>1 DEF PlayerRows
      <4> HIDE DEF q
      <4>3. QED
        BY <4>1, <4>2 DEF q
    <3>3. row'[f.id] = n /\ n # NoRow /\ \A i \in Ids \ {f.id} : row'[i] = row[i]
      BY <1>0, <2>1, <3>1, <3>2, PresenceAssumption DEF PresenceTypeOK
    <3>4. row' \in [Ids -> PlayerRows \cup {NoRow}] /\ lines' \in Seq(LogLines)
      BY <1>0, <2>1, <3>1, <3>2 DEF PresenceTypeOK
    <3>5. KeysUnique'
      <4>1. \A i \in Ids : Exists(i)' => Exists(i) /\ row'[i].key = (IF i = f.id THEN "uuid" ELSE row[i].key)
        <5> SUFFICES ASSUME NEW i \in Ids, Exists(i)'
                     PROVE  Exists(i) /\ row'[i].key = (IF i = f.id THEN "uuid" ELSE row[i].key)
          OBVIOUS
        <5>1. CASE i = f.id
          BY <2>1, <3>2, <3>3, <5>1
        <5>2. CASE i # f.id
          BY <3>3, <5>2 DEF Exists
        <5>3. QED
          BY <5>1, <5>2
      <4>2. \A i, j \in Ids : Exists(i) /\ Exists(j) /\ row[i].key = row[j].key => i = j
        BY <1>0 DEF KeysUnique
      <4> SUFFICES ASSUME NEW i \in Ids, NEW j \in Ids, Exists(i)', Exists(j)', row'[i].key = row'[j].key
                   PROVE  i = j
        BY DEF KeysUnique
      <4>3. QED
        BY <3>1, <4>1, <4>2
    <3>6. ASSUME ~raced PROVE Knows(over)' /\ RowsMatchBut(over)'
      <4>1. RowsMatchBut(over)'
        <5>1. \A i \in Ids : Exists(i) => (row[i].online <=> row[i].open > 0)
          BY <1>2, <2>0, <3>6 DEF RowsMatchBut
        <5> SUFFICES ASSUME NEW i \in Ids, Exists(i)'
                     PROVE  (row'[i].online <=> row'[i].open > 0)
          BY DEF RowsMatchBut
        <5>2. CASE i = f.id
          <6>1. row[f.id].online <=> row[f.id].open > 0
            BY <2>1, <3>1, <5>1
          <6>2. n.online <=> n.open > 0
            BY <3>2, <6>1
          <6>3. QED
            BY <3>3, <5>2, <6>2
        <5>3. CASE i # f.id
          BY <3>3, <5>1, <5>3 DEF Exists
        <5>4. QED
          BY <5>2, <5>3
      <4>2. over.pc \in LogLines /\ over.existing.online => IsCopy(over.existing, "uuid") /\ over.key = "uuid"
        BY <1>2, <1>3, <2>0, <3>6 DEF Knows
      <4>3. over.pc \in LogLines /\ over.existing.online => IsCopy(over.existing, over.key)'
        BY <3>1, <3>2, <3>3, <4>2 DEF IsCopy, Exists
      <4>4. QED
        BY <1>3, <4>1, <4>3 DEF Knows, LogLines
    <3>7. QED
      BY <1>1, <1>3, <2>1, <3>4, <3>5, <3>6, HandlerStep
  <2>2. CASE c # None /\ Exists(f.id) /\ Exists(c.id)
             /\ row' = [row EXCEPT ![c.id] = MergedRow(x), ![f.id] = NoRow]
             /\ Reconciled(x) /\ UNCHANGED lines
    <3>1. f.id \in Ids /\ c.id \in Ids /\ row[f.id] \in PlayerRows /\ row[c.id] \in PlayerRows
      BY <1>0, <2>0, <2>2 DEF Copies, Exists, PresenceTypeOK
    <3> DEFINE total == row[c.id].open + (IF f.id = c.id THEN 0 ELSE row[f.id].open)
               open == Min({MaxOpen, total})
    <3>2. total \in Nat /\ row[c.id].open \in Nat /\ row[f.id].open \in Nat /\ MaxOpen \in Nat \ {0}
      BY <3>1, PresenceAssumption DEF PlayerRows
    <3>3. (f.id # c.id) => total = row[c.id].open + row[f.id].open
      OBVIOUS
    <3>4. PICK n : n = MergedRow(x)
      OBVIOUS
    <3>5. n = [row[c.id] EXCEPT !.online = f.online \/ c.online, !.open = open]
      BY <3>4 DEF MergedRow
    <3> HIDE DEF total
    <3>6. open \in 0 .. MaxOpen /\ (open > 0 <=> total > 0)
      BY <3>2, LeastOfTwo
    <3> HIDE DEF open
    <3>7. f.online \in BOOLEAN /\ c.online \in BOOLEAN
      BY <2>0 DEF Copies
    <3>8. /\ n \in PlayerRows /\ n.key = row[c.id].key /\ n.open = open
          /\ n.online = (f.online \/ c.online)
      BY <3>1, <3>5, <3>6, <3>7 DEF PlayerRows
    <3>9. /\ row'[f.id] = NoRow /\ (f.id # c.id => row'[c.id] = n) /\ n # NoRow
          /\ \A i \in Ids \ {f.id, c.id} : row'[i] = row[i]
      BY <1>0, <2>2, <3>1, <3>4, <3>8, PresenceAssumption DEF PresenceTypeOK
    <3>10. row' \in [Ids -> PlayerRows \cup {NoRow}] /\ lines' \in Seq(LogLines)
      BY <1>0, <2>2, <3>1, <3>4, <3>8 DEF PresenceTypeOK
    <3>11. KeysUnique'
      <4>1. \A i \in Ids : Exists(i)' => Exists(i) /\ row'[i].key = row[i].key
        BY <2>2, <3>8, <3>9 DEF Exists
      <4>2. QED
        BY <1>0, <4>1 DEF KeysUnique
    <3>12. ASSUME ~raced PROVE Knows(over)' /\ RowsMatchBut(over)'
      <4>1. IsCopy(f, "name") /\ IsCopy(c, "uuid") /\ f.id # c.id
        BY <1>2, <2>0, <2>2, <3>12 DEF Knows, IsCopy
      <4>2. /\ row[f.id].online <=> row[f.id].open > 0
            /\ row[c.id].online <=> row[c.id].open > 0
        BY <1>2, <2>0, <2>2, <3>1, <3>12 DEF RowsMatchBut
      <4>3. n.online <=> n.open > 0
        <5>1. n.online <=> row[f.id].online \/ row[c.id].online
          BY <3>8, <4>1 DEF IsCopy
        <5>2. n.open > 0 <=> row[f.id].open > 0 \/ row[c.id].open > 0
          BY <3>2, <3>3, <3>6, <3>8, <4>1
        <5>3. QED
          BY <4>2, <5>1, <5>2
      <4>4. RowsMatchBut(over)'
        BY <1>2, <2>0, <3>1, <3>9, <3>12, <4>1, <4>3 DEF RowsMatchBut, Exists
      <4>5. over.pc \in LogLines /\ over.existing.online =>
                IsCopy(over.existing, "uuid") /\ over.key = "uuid"
        BY <1>2, <1>3, <2>0, <3>12 DEF Knows
      <4>6. over.pc \in LogLines /\ over.existing.online => over.existing.id = c.id /\ c.online
        BY <1>0, <4>1, <4>5 DEF IsCopy, KeysUnique
      <4>7. over.pc \in LogLines /\ over.existing.online => IsCopy(over.existing, over.key)'
        BY <3>1, <3>7, <3>8, <3>9, <4>1, <4>5, <4>6 DEF IsCopy, Exists
      <4>8. QED
        BY <1>3, <4>4, <4>7 DEF Knows, LogLines
    <3>13. QED
      BY <1>1, <1>3, <2>2, <3>10, <3>11, <3>12, HandlerStep
  <2>3. CASE Throws(x)
    BY <1>1, <2>0, <2>3, ThrowStep
  <2>4. QED
    BY <1>6, <2>1, <2>2, <2>3 DEF Merge
<1>7. QED
  BY <1>4, <1>5, <1>6 DEF Reconcile

(* The rows before and after a step of a handler that writes one of them.   *)
LEMMA RowWritten ==
    ASSUME PresenceTypeOK, KeysUnique, NEW i \in Ids, NEW n \in PlayerRows,
           row' = [row EXCEPT ![i] = n],
           \A j \in Ids \ {i} : Exists(j) => row[j].key # n.key
    PROVE  /\ row' \in [Ids -> PlayerRows \cup {NoRow}] /\ KeysUnique'
           /\ row'[i] = n /\ Exists(i)'
           /\ \A j \in Ids \ {i} : row'[j] = row[j] /\ (Exists(j)' <=> Exists(j))
<1>1. /\ row' \in [Ids -> PlayerRows \cup {NoRow}]
      /\ row'[i] = n /\ \A j \in Ids \ {i} : row'[j] = row[j]
  BY DEF PresenceTypeOK
<1>2. Exists(i)' /\ \A j \in Ids \ {i} : Exists(j)' <=> Exists(j)
  BY <1>1, PresenceAssumption DEF Exists
<1>3. KeysUnique'
  BY <1>1, <1>2 DEF KeysUnique
<1>4. QED
  BY <1>1, <1>2, <1>3

(* A join makes its player's row online, and opens a session if the player  *)
(* was not known to be online.                                              *)
LEMMA JoinStep ==
    ASSUME PresenceInv, NEW x \in Handlers, Join(x), UNCHANGED <<inGame, raced>>
    PROVE  PresenceInv'
<1>0. PresenceTypeOK /\ KeysUnique /\ h[x] \in Requests
  BY DEF PresenceInv, PresenceTypeOK
<1>1. h[x].pc \in {"existing", "join", "session"} /\ Active(x)
  BY DEF Join, FindExisting, UpsertJoin, OpenSession, At_, Active
<1>2. ~raced => Knows(h[x]) /\ RowsMatchBut(h[x])
  BY <1>1, RowsOfOne
\* What follows a join.
<1>3. PICK over \in Requests : /\ Joined(x) => h' = [h EXCEPT ![x] = over]
                               /\ over.pc \in {"idle", "missing"}
  <2>1. CASE x = "roster"
    <3> DEFINE q == [h[x] EXCEPT !.pc = "missing", !.existing = None, !.canonical = None]
    <3>1. q \in Requests /\ q.pc = "missing"
      BY <1>0, IdleRequest DEF Requests, Places
    <3>2. Joined(x) => h' = [h EXCEPT ![x] = q]
      BY <2>1 DEF Joined, Becomes
    <3> HIDE DEF q
    <3>3. QED
      BY <3>1, <3>2
  <2>2. CASE x # "roster"
    BY <2>2, IdleRequest DEF Joined, Becomes
  <2>3. QED
    BY <2>1, <2>2
<1>4. CASE FindExisting(x)
  <2> DEFINE c == Find("name")
             q == [h[x] EXCEPT !.existing = c, !.key = "name", !.pc = h[x].line]
  <2>1. UNCHANGED <<row, lines>> /\ h' = [h EXCEPT ![x] = q] /\ h[x].pc = "existing"
    BY <1>4 DEF FindExisting, Becomes, At_
  <2>2. c \in Copies /\ (c = None \/ IsCopy(c, "name"))
    BY <1>0, Lookup DEF Keys
  <2> HIDE DEF c
  <2>3. /\ q \in Requests /\ q.pc \in LogLines \cup {"none"}
        /\ q.existing = c /\ q.key = "name"
    BY <1>0, <2>2 DEF Requests, Places, Keys
  <2> HIDE DEF q
  <2>4. PICK r \in Requests : r = q
    BY <2>3
  <2>5. ~raced => Knows(r)' /\ RowsMatchBut(r)'
    BY <1>2, <2>1, <2>2, <2>3, <2>4, IdleRequest DEF Knows, RowsMatchBut, IsCopy, Exists, LogLines
  <2>6. row' \in [Ids -> PlayerRows \cup {NoRow}] /\ lines' \in Seq(LogLines) /\ KeysUnique'
    BY <1>0, <2>1 DEF PresenceTypeOK, KeysUnique, Exists
  <2>7. QED
    BY <1>1, <2>1, <2>4, <2>5, <2>6, HandlerStep
<1>5. CASE UpsertJoin(x)
  <2> DEFINE e == h[x].existing
             key == h[x].key
             id == IF At(key) # {} THEN Find(key).id ELSE Min(Fresh)
  <2>1. /\ h[x].pc = "join" /\ UNCHANGED lines /\ (At(key) # {} \/ Fresh # {})
        /\ row' = [row EXCEPT ![id] = JoinedRow(x, id)]
        /\ IF e.online THEN Joined(x)
           ELSE h' = [h EXCEPT ![x] = [h[x] EXCEPT !.existing = None, !.canonical.id = id, !.pc = "session"]]
    BY <1>5 DEF UpsertJoin, At_, Becomes
  <2>2. key \in Keys /\ e \in Copies
    BY <1>0 DEF Requests
  <2>3. At(key) # {} => id \in Ids /\ Exists(id) /\ row[id].key = key /\ row[id] \in PlayerRows
    BY <1>0, <2>2, Lookup DEF IsCopy, PresenceTypeOK, Exists
  <2>4. At(key) = {} => id \in Ids /\ ~Exists(id) /\ \A j \in Ids : Exists(j) => row[j].key # key
    <3>1. At(key) = {} => Fresh \in SUBSET Nat /\ Fresh # {} /\ id = Min(Fresh)
      BY <2>1, PresenceAssumption DEF Fresh
    <3>2. At(key) = {} => id \in Fresh
      BY <3>1, LeastOf
    <3>3. QED
      BY <3>2 DEF Fresh, At
  <2> HIDE DEF id
  <2> DEFINE q == JoinedRow(x, id)
  <2>5. /\ q \in PlayerRows /\ q.key = key /\ q.online
        /\ At(key) # {} => q.open = row[id].open
    <3>1. CASE At(key) # {}
      <4>1. q = [row[id] EXCEPT !.online = TRUE]
        BY <2>3, <3>1 DEF JoinedRow
      <4>2. QED
        BY <2>3, <3>1, <4>1 DEF PlayerRows
    <3>2. CASE At(key) = {}
      <4>1. q = [key |-> key, online |-> TRUE, open |-> 0]
        BY <2>4, <3>2 DEF JoinedRow
      <4>2. QED
        BY <2>2, <3>2, <4>1, PresenceAssumption DEF PlayerRows
    <3>3. QED
      BY <3>1, <3>2
  <2> HIDE DEF q
  <2>6. PICK i \in Ids, n \in PlayerRows : i = id /\ n = q
    BY <2>3, <2>4, <2>5
  <2>7. \A j \in Ids \ {i} : Exists(j) => row[j].key # n.key
    BY <1>0, <2>3, <2>4, <2>5, <2>6 DEF KeysUnique
  <2>8. row' = [row EXCEPT ![i] = n]
    BY <2>1, <2>6 DEF q
  <2>9. /\ row' \in [Ids -> PlayerRows \cup {NoRow}] /\ KeysUnique'
        /\ row'[i] = n /\ \A j \in Ids \ {i} : row'[j] = row[j] /\ (Exists(j)' <=> Exists(j))
    BY <1>0, <2>7, <2>8, RowWritten
  <2>10. lines' \in Seq(LogLines)
    BY <1>0, <2>1 DEF PresenceTypeOK
  <2>11. CASE e.online
    <3>1. ASSUME ~raced PROVE Knows(over)' /\ RowsMatchBut(over)'
      <4>1. IsCopy(e, key)
        BY <1>2, <2>1, <2>11, <3>1 DEF Knows
      <4>2. e.id \in At(key)
        BY <4>1 DEF IsCopy, At
      <4>3. id = e.id /\ row[id].online
        BY <1>0, <2>3, <2>11, <4>1, <4>2 DEF IsCopy, KeysUnique
      <4>4. n.online /\ n.open > 0
        BY <1>2, <2>1, <2>3, <2>5, <2>6, <3>1, <4>2, <4>3 DEF RowsMatchBut
      <4>5. RowsMatchBut(over)'
        BY <1>2, <2>1, <2>9, <3>1, <4>4 DEF RowsMatchBut
      <4>6. QED
        BY <1>3, <4>5 DEF Knows
    <3>2. QED
      BY <1>1, <1>3, <2>1, <2>9, <2>10, <2>11, <3>1, HandlerStep
  <2>12. CASE ~e.online
    <3> DEFINE c == [h[x].canonical EXCEPT !.id = i]
               z == [h[x] EXCEPT !.existing = None, !.canonical = c, !.pc = "session"]
    <3>1. c \in Copies /\ c.id = i
      BY <1>0 DEF Requests, Copies
    <3>2. h' = [h EXCEPT ![x] = z]
      BY <1>0, <2>1, <2>6, <2>12 DEF Requests
    <3> HIDE DEF c
    <3>3. z \in Requests /\ z.pc = "session" /\ z.canonical = c
      BY <1>0, <3>1, IdleRequest DEF Requests, Places
    <3> HIDE DEF z
    <3>4. PICK r \in Requests : r = z
      BY <3>3
    <3>5. ~raced => Knows(r)' /\ RowsMatchBut(r)'
      BY <1>2, <2>1, <2>5, <2>6, <2>9, <3>1, <3>3, <3>4 DEF Knows, RowsMatchBut
    <3>6. QED
      BY <1>1, <2>9, <2>10, <3>2, <3>4, <3>5, HandlerStep
  <2>13. QED
    BY <2>11, <2>12
<1>6. CASE OpenSession(x)
  <2> DEFINE i == h[x].canonical.id
  <2>1. h[x].pc = "session"
    BY <1>6 DEF OpenSession, At_
  <2>2. CASE ~Exists(i) /\ Throws(x)
    BY <1>1, <2>2, ThrowStep
  <2>3. CASE /\ Exists(i) /\ row' = [row EXCEPT ![i].open = Min({MaxOpen, @ + 1})]
             /\ Joined(x) /\ UNCHANGED lines
    <3>1. i \in Ids /\ row[i] \in PlayerRows
      BY <1>0, <2>3 DEF Requests, Copies, Exists, PresenceTypeOK
    <3> HIDE DEF i
    <3> DEFINE more == row[i].open + 1
               open == Min({MaxOpen, more})
               q == [row[i] EXCEPT !.open = open]
    <3>2. more \in Nat /\ more > 0 /\ MaxOpen \in Nat \ {0}
      BY <3>1, PresenceAssumption DEF PlayerRows
    <3>3. row' = [row EXCEPT ![i] = q]
      BY <2>3 DEF i
    <3> HIDE DEF more
    <3>4. open \in 0 .. MaxOpen /\ open > 0
      BY <3>2, LeastOfTwo
    <3> HIDE DEF open
    <3>5. q \in PlayerRows /\ q.key = row[i].key /\ q.online = row[i].online /\ q.open > 0
      BY <3>1, <3>4 DEF PlayerRows
    <3> HIDE DEF q
    <3>6. PICK k \in Ids, n \in PlayerRows : k = i /\ n = q
      BY <3>1, <3>5
    <3>7. row' = [row EXCEPT ![k] = n] /\ \A j \in Ids \ {k} : Exists(j) => row[j].key # n.key
      BY <1>0, <2>3, <3>1, <3>3, <3>5, <3>6 DEF KeysUnique, i
    <3>8. /\ row' \in [Ids -> PlayerRows \cup {NoRow}] /\ KeysUnique'
          /\ row'[k] = n /\ \A j \in Ids \ {k} : row'[j] = row[j] /\ (Exists(j)' <=> Exists(j))
      BY <1>0, <3>7, RowWritten
    <3>9. ASSUME ~raced PROVE Knows(over)' /\ RowsMatchBut(over)'
      <4>1. row[k].online /\ n.online /\ n.open > 0
        BY <1>2, <2>1, <3>5, <3>6, <3>9 DEF Knows, i
      <4>2. \A j \in Ids \ {k} : Exists(j) => (row[j].online <=> row[j].open > 0)
        BY <1>2, <3>6, <3>9 DEF RowsMatchBut, i
      <4>3. RowsMatchBut(over)'
        BY <3>8, <4>1, <4>2 DEF RowsMatchBut
      <4>4. QED
        BY <1>3, <4>3 DEF Knows
    <3>10. lines' \in Seq(LogLines)
      BY <1>0, <2>3 DEF PresenceTypeOK
    <3>11. QED
      BY <1>1, <1>3, <2>3, <3>8, <3>9, <3>10, HandlerStep
  <2>4. QED
    BY <1>6, <2>2, <2>3 DEF OpenSession
<1>7. QED
  BY <1>4, <1>5, <1>6 DEF Join

(* A row that is set offline has no open session.                           *)
LEMMA RowEnded ==
    ASSUME PresenceTypeOK, KeysUnique, NEW k \in Ids, Exists(k), row' = [row EXCEPT ![k] = Offline(k)],
           NEW q \in Requests, q.pc \in {"idle", "close"}
    PROVE  /\ row' \in [Ids -> PlayerRows \cup {NoRow}] /\ KeysUnique'
           /\ RowsMatchBut(q) => RowsMatchBut(q)'
<1>1. row[k] \in PlayerRows
  BY DEF PresenceTypeOK, Exists
<1> DEFINE o == Offline(k)
<1>2. o \in PlayerRows /\ o.key = row[k].key /\ ~o.online /\ ~(o.open > 0)
  <2>1. o = [row[k] EXCEPT !.online = FALSE, !.open = 0]
    BY DEF Offline
  <2> HIDE DEF o
  <2>2. o \in PlayerRows
    <3>1. 0 \in 0 .. MaxOpen
      BY PresenceAssumption
    <3>2. o = [key |-> row[k].key, online |-> FALSE, open |-> 0]
      BY <1>1, <2>1 DEF PlayerRows
    <3>3. row[k].key \in Keys
      BY <1>1 DEF PlayerRows
    <3>4. QED
      BY <3>1, <3>2, <3>3 DEF PlayerRows
  <2>3. o.key = row[k].key /\ o.online = FALSE /\ o.open = 0
    BY <1>1, <2>1 DEF PlayerRows
  <2>4. QED
    BY <2>2, <2>3
<1> HIDE DEF o
<1>3. PICK n \in PlayerRows : n = o
  BY <1>2
<1>4. row' = [row EXCEPT ![k] = n] /\ \A j \in Ids \ {k} : Exists(j) => row[j].key # n.key
  BY <1>2, <1>3 DEF KeysUnique, o
<1>5. /\ row' \in [Ids -> PlayerRows \cup {NoRow}] /\ KeysUnique'
      /\ row'[k] = n /\ \A j \in Ids \ {k} : row'[j] = row[j] /\ (Exists(j)' <=> Exists(j))
  BY <1>4, RowWritten
<1>6. RowsMatchBut(q) => RowsMatchBut(q)'
  BY <1>2, <1>3, <1>5 DEF RowsMatchBut
<1>7. QED
  BY <1>5, <1>6

(* Lines of the log that are not joins.                                     *)
LEMMA LogHandlerStep ==
    ASSUME PresenceInv, UpsertUuid \/ FindNamed \/ ApplyLeave, UNCHANGED <<inGame, raced>>
    PROVE  PresenceInv'
<1> DEFINE x == "log"
<1>0. PresenceTypeOK /\ KeysUnique /\ x \in Handlers /\ h[x] \in Requests
  BY DEF PresenceInv, PresenceTypeOK, Handlers
<1>1. h[x].pc \in {"upsertUuid", "named", "left"} /\ Active(x)
  BY DEF UpsertUuid, FindNamed, ApplyLeave, At_, Active
<1>2. ~raced => Knows(h[x]) /\ RowsMatchBut(h[x])
  BY <1>0, <1>1, RowsOfOne
<1>3. PICK idle \in Requests : idle = Idle /\ idle.pc = "idle"
  BY IdleRequest
<1>4. CASE UpsertUuid
  <2>1. /\ h[x].pc = "upsertUuid" /\ UNCHANGED lines /\ h' = [h EXCEPT ![x] = idle]
        /\ \/ row' = row
           \/ /\ At("uuid") = {} /\ Fresh # {}
              /\ row' = [row EXCEPT ![Min(Fresh)] = [key |-> "uuid", online |-> FALSE, open |-> 0]]
    BY <1>3, <1>4 DEF UpsertUuid, At_, GoTo, Becomes
  <2>2. lines' \in Seq(LogLines)
    BY <1>0, <2>1 DEF PresenceTypeOK
  <2>3. CASE row' = row
    <3>1. row' \in [Ids -> PlayerRows \cup {NoRow}] /\ KeysUnique'
      BY <1>0, <2>3 DEF PresenceTypeOK, KeysUnique, Exists
    <3>2. ~raced => Knows(idle)' /\ RowsMatchBut(idle)'
      BY <1>2, <1>3, <2>1, <2>3 DEF Knows, RowsMatchBut, Exists
    <3>3. QED
      BY <1>0, <1>1, <2>1, <2>2, <3>1, <3>2, HandlerStep
  <2>4. CASE ~(row' = row)
    <3> DEFINE q == [key |-> "uuid", online |-> FALSE, open |-> 0]
    <3>1. Fresh \in SUBSET Nat /\ Fresh # {}
      BY <2>1, <2>4, PresenceAssumption DEF Fresh
    <3>2. Min(Fresh) \in Fresh
      BY <3>1, LeastOf
    <3>3. q \in PlayerRows /\ q.key = "uuid" /\ ~q.online /\ ~(q.open > 0)
      BY PresenceAssumption DEF PlayerRows, Keys
    <3> HIDE DEF q
    <3>4. PICK k \in Ids, n \in PlayerRows : k = Min(Fresh) /\ n = q
      BY <3>2, <3>3 DEF Fresh
    <3>5. row' = [row EXCEPT ![k] = n] /\ \A j \in Ids \ {k} : Exists(j) => row[j].key # n.key
      BY <2>1, <2>4, <3>3, <3>4 DEF At, q
    <3>6. /\ row' \in [Ids -> PlayerRows \cup {NoRow}] /\ KeysUnique'
          /\ row'[k] = n /\ \A j \in Ids \ {k} : row'[j] = row[j] /\ (Exists(j)' <=> Exists(j))
      BY <1>0, <3>5, RowWritten
    <3>7. ~raced => RowsMatchBut(idle)'
      BY <1>2, <2>1, <3>3, <3>4, <3>6 DEF RowsMatchBut
    <3>8. ~raced => Knows(idle)'
      BY <1>3 DEF Knows
    <3>9. QED
      BY <1>0, <1>1, <2>1, <2>2, <3>6, <3>7, <3>8, HandlerStep
  <2>5. QED
    BY <2>3, <2>4
<1>5. CASE FindNamed
  <2> DEFINE c == Find("uuid")
             without == [h[x] EXCEPT !.key = "name", !.pc = "existing"]
             with == [h[x] EXCEPT !.existing = c, !.pc = "fallback"]
  <2>1. /\ h[x].pc = "named" /\ UNCHANGED <<row, lines>>
        /\ h' = [h EXCEPT ![x] = IF c = None THEN without ELSE with]
    BY <1>5 DEF FindNamed, At_, Becomes
  <2>2. c \in Copies /\ (c # None => IsCopy(c, "uuid"))
    BY <1>0, Lookup DEF Keys
  <2> HIDE DEF c
  <2>3. without \in Requests /\ without.pc = "existing"
    BY <1>0 DEF Requests, Places, Keys
  <2>4. with \in Requests /\ with.pc = "fallback" /\ with.existing = c /\ with.key = h[x].key
    BY <1>0, <2>2 DEF Requests, Places
  <2> HIDE DEF without, with
  <2>5. PICK r \in Requests : r = IF c = None THEN without ELSE with
    BY <2>3, <2>4
  <2>6. ~raced => Knows(r)' /\ RowsMatchBut(r)'
    BY <1>2, <2>1, <2>2, <2>3, <2>4, <2>5, IdleRequest DEF Knows, RowsMatchBut, IsCopy, Exists
  <2>7. row' \in [Ids -> PlayerRows \cup {NoRow}] /\ lines' \in Seq(LogLines) /\ KeysUnique'
    BY <1>0, <2>1 DEF PresenceTypeOK, KeysUnique, Exists
  <2>8. QED
    BY <1>0, <1>1, <2>1, <2>5, <2>6, <2>7, HandlerStep
<1>6. CASE ApplyLeave
  <2> DEFINE e == h[x].existing
  <2>1. h[x].pc = "left" /\ e \in Copies
    BY <1>0, <1>6 DEF ApplyLeave, At_, Requests
  <2>2. CASE e.online /\ ~Exists(e.id) /\ Throws(x)
    BY <1>0, <1>1, <2>1, <2>2, ThrowStep
  <2>3. CASE ~e.online /\ GoTo(x, "idle") /\ UNCHANGED <<row, lines>>
    <3>1. h' = [h EXCEPT ![x] = idle]
      BY <1>3, <2>3 DEF GoTo, Becomes
    <3>2. row' \in [Ids -> PlayerRows \cup {NoRow}] /\ lines' \in Seq(LogLines) /\ KeysUnique'
      BY <1>0, <2>3 DEF PresenceTypeOK, KeysUnique, Exists
    <3>3. ~raced => Knows(idle)' /\ RowsMatchBut(idle)'
      BY <1>2, <1>3, <2>1, <2>3 DEF Knows, RowsMatchBut, Exists
    <3>4. QED
      BY <1>0, <1>1, <3>1, <3>2, <3>3, HandlerStep
  <2>4. CASE /\ e.online /\ Exists(e.id) /\ row' = [row EXCEPT ![e.id] = Offline(e.id)]
             /\ GoTo(x, "idle") /\ UNCHANGED lines
    <3>1. PICK k \in Ids : k = e.id /\ Exists(k) /\ row' = [row EXCEPT ![k] = Offline(k)]
      BY <2>1, <2>4 DEF Copies, Exists
    <3>2. h' = [h EXCEPT ![x] = idle] /\ lines' \in Seq(LogLines)
      BY <1>0, <1>3, <2>4 DEF GoTo, Becomes, PresenceTypeOK
    <3>3. ~raced => RowsMatchBut(idle)
      BY <1>2, <2>1 DEF RowsMatchBut
    <3>4. /\ row' \in [Ids -> PlayerRows \cup {NoRow}] /\ KeysUnique'
          /\ ~raced => RowsMatchBut(idle)'
      BY <1>0, <1>3, <3>1, <3>3, RowEnded
    <3>5. ~raced => Knows(idle)'
      BY <1>3 DEF Knows
    <3>6. QED
      BY <1>0, <1>1, <3>2, <3>4, <3>5, HandlerStep
  <2>5. QED
    BY <1>6, <2>2, <2>3, <2>4 DEF ApplyLeave
<1>7. QED
  BY <1>4, <1>5, <1>6

(* The rows a roster no longer has are set offline.                         *)
LEMMA MissingStep ==
    ASSUME PresenceInv, FindMissing \/ CloseMissing, UNCHANGED <<inGame, raced>>
    PROVE  PresenceInv'
<1> DEFINE x == "roster"
<1>0. PresenceTypeOK /\ KeysUnique /\ x \in Handlers /\ h[x] \in Requests
  BY DEF PresenceInv, PresenceTypeOK, Handlers
<1>1. h[x].pc \in {"missing", "close"} /\ Active(x)
  BY DEF FindMissing, CloseMissing, At_, Active
<1>2. ~raced => RowsMatchBut(h[x])
  BY <1>0, <1>1, RowsOfOne
<1>3. PICK idle \in Requests : idle = Idle /\ idle.pc = "idle"
  BY IdleRequest
<1>4. CASE FindMissing
  <2> DEFINE gone == {i \in Ids : Exists(i) /\ row[i].online /\ row[i].key \notin Seen}
             q == [h[x] EXCEPT !.missing = gone, !.pc = "close"]
  <2>1. /\ UNCHANGED <<row, lines>>
        /\ h' = [h EXCEPT ![x] = IF gone = {} THEN Idle ELSE q]
    BY <1>4 DEF FindMissing, GoTo, Becomes
  <2>2. gone \in SUBSET Ids
    OBVIOUS
  <2> HIDE DEF gone
  <2>3. q \in Requests /\ q.pc = "close"
    BY <1>0, <2>2 DEF Requests, Places
  <2> HIDE DEF q
  <2>4. PICK r \in Requests : r = (IF gone = {} THEN Idle ELSE q) /\ r.pc \in {"idle", "close"}
    BY <1>3, <2>3
  <2>5. ~raced => Knows(r)' /\ RowsMatchBut(r)'
    BY <1>1, <1>2, <2>1, <2>4 DEF Knows, RowsMatchBut, Exists
  <2>6. row' \in [Ids -> PlayerRows \cup {NoRow}] /\ lines' \in Seq(LogLines) /\ KeysUnique'
    BY <1>0, <2>1 DEF PresenceTypeOK, KeysUnique, Exists
  <2>7. QED
    BY <1>0, <1>1, <2>1, <2>4, <2>5, <2>6, HandlerStep
<1>5. CASE CloseMissing
  <2>1. PICK k \in h[x].missing :
            \/ /\ Exists(k) /\ row' = [row EXCEPT ![k] = Offline(k)] /\ UNCHANGED lines
               /\ IF h[x].missing = {k} THEN GoTo(x, "idle")
                  ELSE Becomes(x, [h[x] EXCEPT !.missing = @ \ {k}])
            \/ ~Exists(k) /\ Throws(x)
    BY <1>5 DEF CloseMissing
  <2>2. k \in Ids /\ h[x].missing \in SUBSET Ids /\ h[x].pc = "close"
    BY <1>0, <1>5 DEF Requests, CloseMissing, At_
  <2>3. CASE Throws(x)
    BY <1>0, <1>1, <2>3, ThrowStep
  <2>4. CASE /\ Exists(k) /\ row' = [row EXCEPT ![k] = Offline(k)] /\ UNCHANGED lines
             /\ IF h[x].missing = {k} THEN GoTo(x, "idle")
                ELSE Becomes(x, [h[x] EXCEPT !.missing = @ \ {k}])
    <3> DEFINE left == h[x].missing \ {k}
               q == [h[x] EXCEPT !.missing = left]
    <3>1. left \in SUBSET Ids
      BY <2>2
    <3>2. h' = [h EXCEPT ![x] = IF h[x].missing = {k} THEN Idle ELSE q]
      BY <2>4 DEF GoTo, Becomes
    <3> HIDE DEF left
    <3>3. q \in Requests /\ q.pc = "close"
      BY <1>0, <2>2, <3>1 DEF Requests
    <3> HIDE DEF q
    <3>4. PICK r \in Requests : /\ r = IF h[x].missing = {k} THEN Idle ELSE q
                                /\ r.pc \in {"idle", "close"}
      BY <1>3, <3>3
    <3>5. ~raced => RowsMatchBut(r)
      BY <1>1, <1>2 DEF RowsMatchBut
    <3>6. /\ row' \in [Ids -> PlayerRows \cup {NoRow}] /\ KeysUnique'
          /\ ~raced => RowsMatchBut(r)'
      BY <1>0, <2>2, <2>4, <3>4, <3>5, RowEnded
    <3>7. ~raced => Knows(r)'
      BY <3>4 DEF Knows
    <3>8. lines' \in Seq(LogLines)
      BY <1>0, <2>4 DEF PresenceTypeOK
    <3>9. QED
      BY <1>0, <1>1, <3>2, <3>4, <3>6, <3>7, <3>8, HandlerStep
  <2>5. QED
    BY <2>1, <2>3, <2>4
<1>6. QED
  BY <1>4, <1>5

\* parsePlayers, applyPlayerRoster and players.list: for any number of rows, of log lines
\* and of requests that follow one another, a row that is online has an open session and a
\* row that is offline has none, between any two requests that do not overlap.
THEOREM OnlineMeansOpen == PresenceSpec => []SessionsMatch
<1>1. Init => PresenceInv
  <2> SUFFICES ASSUME Init PROVE PresenceInv
    OBVIOUS
  <2>1. lines \in Seq(LogLines)
    BY DEF Init
  <2>2. PresenceTypeOK
    BY <2>1, IdleRequest DEF Init, PresenceTypeOK
  <2>3. \A x \in Handlers : h[x].pc = "idle"
    BY IdleRequest DEF Init
  <2>4. \A i \in Ids : ~Exists(i)
    BY DEF Init, Exists
  <2>5. QED
    BY <2>2, <2>3, <2>4 DEF PresenceInv, KeysUnique, Alone, Active, RowsMatch, Knows
<1>2. PresenceInv /\ [Next]_vars => PresenceInv'
  <2> SUFFICES ASSUME PresenceInv, [Next]_vars PROVE PresenceInv'
    OBVIOUS
  <2>0. PresenceTypeOK /\ {"log", "roster", "list"} = Handlers
    BY DEF PresenceInv, Handlers
  <2>1. ASSUME UNCHANGED <<row, h, raced>>, inGame' \in BOOLEAN, lines' \in Seq(LogLines)
        PROVE  PresenceInv'
    BY <2>0, <2>1 DEF PresenceInv, PresenceTypeOK, KeysUnique, Alone, Active, RowsMatch, Knows,
                      IsCopy, Exists
  <2>2. CASE JoinGame
    <3>1. \A s \in {<<"uuid", "join">>, <<"join">>, <<>>} : s \in Seq(LogLines)
      <4>1. <<"uuid", "join">> \in Seq(LogLines)
        BY DEF LogLines
      <4>2. <<"join">> \in Seq(LogLines)
        BY DEF LogLines
      <4>3. <<>> \in Seq(LogLines)
        OBVIOUS
      <4>4. QED
        BY <4>1, <4>2, <4>3
    <3>2. PICK seen \in Seq(LogLines) : lines' = lines \o seen
      BY <2>2, <3>1 DEF JoinGame
    <3>3. lines' \in Seq(LogLines)
      BY <2>0, <3>2 DEF PresenceTypeOK
    <3>4. QED
      BY <2>1, <2>2, <3>3 DEF JoinGame
  <2>3. CASE LeaveGame
    <3>1. Append(lines, "left") \in Seq(LogLines)
      BY <2>0 DEF PresenceTypeOK, LogLines
    <3>2. QED
      BY <2>0, <2>1, <2>3, <3>1 DEF LeaveGame, PresenceTypeOK
  <2>4. CASE ListPlayersParsed
    <3> DEFINE q == [Idle EXCEPT !.present = inGame, !.line = "join", !.pc = "sent"]
    <3>1. q \in Requests /\ q.pc = "sent"
      BY <2>0, IdleRequest DEF Requests, Places, LogLines, PresenceTypeOK
    <3>2. h' = [h EXCEPT !["roster"] = q] /\ h["roster"].pc = "idle" /\ UNCHANGED <<inGame, lines, row, raced>>
      BY <2>4 DEF ListPlayersParsed, Becomes, At_
    <3> HIDE DEF q
    <3>3. PresenceTypeOK' /\ h'["roster"] = q /\ \A y \in Handlers \ {"roster"} : h'[y] = h[y]
      BY <2>0, <3>1, <3>2 DEF PresenceTypeOK
    <3>4. \A y \in Handlers : h'[y] = h[y] \/ (h[y].pc = "idle" /\ h'[y].pc = "sent")
      BY <2>0, <3>1, <3>2, <3>3
    <3>5. Alone => Alone'
      BY <3>4 DEF Alone, Active
    <3>6. RowsMatch => RowsMatch'
      BY <3>2, <3>4 DEF RowsMatch, Exists
    <3>7. \A y \in Handlers : Knows(h[y]) => Knows(h[y])'
      BY <3>2, <3>4 DEF Knows, IsCopy, Exists
    <3>8. KeysUnique'
      BY <3>2 DEF PresenceInv, KeysUnique, Exists
    <3>9. QED
      BY <3>2, <3>3, <3>5, <3>6, <3>7, <3>8 DEF PresenceInv
  <2>5. CASE TakeLine /\ UNCHANGED <<inGame, reachable>>
    <3> DEFINE line == Head(lines)
               q == [Idle EXCEPT !.line = line, !.key = "uuid",
                                 !.pc = IF line = "uuid" THEN "fallback" ELSE "named"]
    <3>1. line \in LogLines /\ lines' \in Seq(LogLines)
      BY <2>0, <2>5 DEF TakeLine, PresenceTypeOK
    <3>2. h' = [h EXCEPT !["log"] = q] /\ h["log"].pc = "idle" /\ Starts("log") /\ UNCHANGED row
      BY <2>5 DEF TakeLine, Becomes, At_
    <3> HIDE DEF line
    <3>3. q \in Requests /\ q.pc \in {"fallback", "named"} /\ q.key = "uuid" /\ ~q.existing.online
      <4>1. Idle.existing = None
        BY DEF Idle
      <4>2. q \in Requests /\ q.pc \in {"fallback", "named"} /\ q.key = "uuid" /\ q.existing = Idle.existing
        BY <3>1, IdleRequest DEF Requests, Places, Keys
      <4> HIDE DEF q
      <4>3. QED
        BY <4>1, <4>2, IdleRequest
    <3> HIDE DEF q
    <3>4. PICK r \in Requests : r = q
      BY <3>3
    <3>5. QED
      BY <2>0, <2>5, <3>1, <3>2, <3>3, <3>4, StartStep DEF Active
  <2>6. CASE ApplyPlayerRoster /\ UNCHANGED <<inGame, reachable>>
    <3> DEFINE q == [h["roster"] EXCEPT !.pc = IF h["roster"].present THEN "existing" ELSE "missing"]
    <3>1. /\ h' = [h EXCEPT !["roster"] = q] /\ h["roster"].pc = "sent" /\ Starts("roster")
          /\ UNCHANGED <<row, lines>>
      BY <2>6 DEF ApplyPlayerRoster, GoTo, Becomes, At_
    <3>2. h["roster"] \in Requests /\ lines' \in Seq(LogLines)
      BY <2>0, <3>1 DEF PresenceTypeOK
    <3>3. q \in Requests /\ q.pc \in {"existing", "missing"}
      BY <3>2 DEF Requests, Places
    <3> HIDE DEF q
    <3>4. PICK r \in Requests : r = q
      BY <3>3
    <3>5. QED
      BY <2>0, <2>6, <3>1, <3>2, <3>3, <3>4, StartStep DEF Active
  <2>7. CASE ListPlayers /\ UNCHANGED <<inGame, reachable>>
    <3> DEFINE q == [Idle EXCEPT !.pc = "fallback", !.key = "uuid"]
    <3>1. h' = [h EXCEPT !["list"] = q] /\ h["list"].pc = "idle" /\ Starts("list") /\ UNCHANGED <<row, lines>>
      BY <2>7 DEF ListPlayers, Becomes, At_
    <3>2. q \in Requests /\ q.pc = "fallback" /\ q.key = "uuid" /\ ~q.existing.online
      <4>1. Idle.existing = None
        BY DEF Idle
      <4>2. q \in Requests /\ q.pc = "fallback" /\ q.key = "uuid" /\ q.existing = Idle.existing
        BY IdleRequest DEF Requests, Places, Keys
      <4> HIDE DEF q
      <4>3. QED
        BY <4>1, <4>2, IdleRequest
    <3> HIDE DEF q
    <3>3. PICK r \in Requests : r = q
      BY <3>2
    <3>4. lines' \in Seq(LogLines)
      BY <2>0, <3>1 DEF PresenceTypeOK
    <3>5. QED
      BY <2>0, <2>7, <3>1, <3>2, <3>3, <3>4, StartStep DEF Active
  <2>8. CASE Step(LogStep) \/ Step(RosterStep) \/ Step(Reconcile("list"))
    BY <2>0, <2>8, ReconcileStep, JoinStep, LogHandlerStep, MissingStep DEF Step, LogStep, RosterStep
  <2>9. CASE GameDown \/ GameUp \/ UNCHANGED vars
    BY <2>0, <2>1, <2>9 DEF GameDown, GameUp, vars, PresenceTypeOK
  <2>10. QED
    BY <2>2, <2>3, <2>4, <2>5, <2>6, <2>7, <2>8, <2>9 DEF Next
<1>3. PresenceInv => SessionsMatch
  BY DEF PresenceInv, SessionsMatch, RowsMatch, Active
<1>4. QED
  BY <1>1, <1>2, <1>3, PTL DEF PresenceSpec

=============================================================================
