------------------------------ MODULE LogView ------------------------------
(***************************************************************************)
(* The page that follows a server's log: the poll with the id of its last  *)
(* row (web/src/app/(dashboard)/logs/page.tsx), the list the control plane *)
(* answers and the settings that prune it (logs.service.ts).  Ids do not   *)
(* follow the order of rows written in the same millisecond.  A poll is in *)
(* flight while rows are written and while another server is selected.     *)
(***************************************************************************)
EXTENDS Naturals, FiniteSets, FiniteSetsExt

CONSTANTS
    Watched,        \* servers whose logs are shown
    RowIds,         \* ids of rows of server_logs
    Stamps,         \* the times of createdAt, 1..n
    PageSize,       \* the limit of a poll
    ViewSize        \* rows the page keeps

ASSUME LogViewAssumption ==
    /\ Watched # {} /\ RowIds \subseteq Nat \ {0} /\ Stamps \in Nat \ {0}
    /\ PageSize \in Nat \ {0} /\ ViewSize \in Nat /\ PageSize <= ViewSize

VARIABLES
    stored,         \* the rows of server_logs
    usedIds,        \* the ids of all rows there ever were
    stamp,          \* the time
    page,           \* the page: server, last id, rows shown, whether it is paused
    fetch,          \* the poll in flight
    skipped         \* the last row of the page was pruned before the next poll

viewVars == <<stored, usedIds, stamp, page, fetch, skipped>>

NoFetch == [pc |-> "idle", server |-> "none", initial |-> FALSE, after |-> 0, rows |-> {}]
Asks(server, initial, after) ==
    [pc |-> "asked", server |-> server, initial |-> initial, after |-> after, rows |-> {}]

LogViewInit ==
    /\ stored = {} /\ usedIds = {} /\ stamp = 1 /\ skipped = FALSE
    /\ LET s == CHOOSE w \in Watched : TRUE IN
        /\ page = [server |-> s, latest |-> 0, shown |-> {}, paused |-> FALSE]
        /\ fetch = Asks(s, TRUE, 0)

Before(a, b) == IF a.at = b.at THEN a.id < b.id ELSE a.at < b.at
FirstRows(rows, n) == {r \in rows : Cardinality({o \in rows : Before(o, r)}) < n}
LastRows(rows, n) == {r \in rows : Cardinality({o \in rows : Before(r, o)}) < n}
Newest(rows) == CHOOSE r \in rows : \A o \in rows : ~Before(r, o)

-----------------------------------------------------------------------------
(* The control plane.                                                      *)

StoreRow(server, id) ==
    /\ id \notin usedIds
    /\ usedIds' = usedIds \cup {id}
    /\ stored' = stored \cup {[server |-> server, at |-> stamp, id |-> id]}
    /\ UNCHANGED <<stamp, page, fetch, skipped>>

NextStamp ==
    /\ stamp < Stamps
    /\ stamp' = stamp + 1
    /\ UNCHANGED <<stored, usedIds, page, fetch, skipped>>

\* prune and updateSettings: rows older than the retention go.
PruneRows(before) ==
    /\ stored' = {r \in stored : r.at >= before}
    /\ stored' # stored
    /\ UNCHANGED <<usedIds, stamp, page, fetch, skipped>>

\* Mutant: rows of the cursor's own millisecond are left out.
ListRows_After(server, after, n) ==
    LET mine == {r \in stored : r.server = server}
        cursor == {r \in mine : r.id = after}
    IN IF cursor # {}
       THEN FirstRows({r \in mine : \A c \in cursor : r.at > c.at}, n)
       ELSE LastRows(mine, n)

\* list: the first rows that are not older than the cursor, which itself is left out; the
\* last rows when there is no such cursor.
ListRows(server, after, n) ==
    LET mine == {r \in stored : r.server = server}
        cursor == {r \in mine : r.id = after}
    IN IF cursor # {}
       THEN FirstRows({r \in mine \ cursor : \A c \in cursor : r.at >= c.at}, n)
       ELSE LastRows(mine, n)

CursorLost ==
    /\ \E r \in page.shown : r.server = fetch.server
    /\ \A r \in stored : r.id # fetch.after

ListServes ==
    /\ fetch.pc = "asked"
    /\ fetch' = [fetch EXCEPT !.pc = "answered",
                              !.rows = ListRows(fetch.server, fetch.after, PageSize)]
    /\ skipped' = (skipped \/ CursorLost)
    /\ UNCHANGED <<stored, usedIds, stamp, page>>

-----------------------------------------------------------------------------
(* The page.                                                               *)

\* loadLogs by the timer: not while it is paused or a poll is in flight.
LoadLogs ==
    /\ fetch.pc = "idle" /\ ~page.paused
    /\ fetch' = Asks(page.server, FALSE, page.latest)
    /\ UNCHANGED <<stored, usedIds, stamp, page, skipped>>

\* The answer, of whichever server it is: the first one replaces what is shown, the
\* others add what is new.
LogsArrive ==
    /\ fetch.pc = "answered"
    /\ page' = IF fetch.rows = {}
               THEN [page EXCEPT !.shown = IF fetch.initial THEN {} ELSE @]
               ELSE [page EXCEPT !.latest = Newest(fetch.rows).id,
                                 !.shown = IF fetch.initial THEN fetch.rows
                                           ELSE LastRows(@ \cup fetch.rows, ViewSize)]
    /\ fetch' = NoFetch
    /\ UNCHANGED <<stored, usedIds, stamp, skipped>>

LogsFail ==
    /\ fetch.pc # "idle"
    /\ fetch' = NoFetch
    /\ UNCHANGED <<stored, usedIds, stamp, page, skipped>>

\* The effect of another server: an empty page and its first poll, unless one is in
\* flight, which is not given up.
SelectServer(server) ==
    /\ server # page.server
    /\ page' = [page EXCEPT !.server = server, !.latest = 0, !.shown = {}]
    /\ fetch' = IF fetch.pc = "idle" /\ ~page.paused THEN Asks(server, TRUE, 0) ELSE fetch
    /\ skipped' = FALSE
    /\ UNCHANGED <<stored, usedIds, stamp>>

TogglePause ==
    /\ page' = [page EXCEPT !.paused = ~@]
    /\ UNCHANGED <<stored, usedIds, stamp, fetch, skipped>>

LogViewNext ==
    \/ \E server \in Watched, id \in RowIds : StoreRow(server, id)
    \/ NextStamp \/ LoadLogs \/ ListServes \/ LogsArrive \/ LogsFail \/ TogglePause
    \/ \E before \in 2..stamp : PruneRows(before)
    \/ \E server \in Watched : SelectServer(server)

LogViewSpec == LogViewInit /\ [][LogViewNext]_viewVars

-----------------------------------------------------------------------------
\* The page has no hole: a row of the selected server that is newer than one shown and older
\* than another shown is shown, rows of one millisecond included, whatever was written while
\* a poll was in flight.  Only a page whose last row was pruned starts anew and may miss some.
NoHole ==
    skipped \/ LET mine == {r \in page.shown : r.server = page.server} IN
        \A r \in stored, a, b \in mine :
            r.server = page.server /\ a.at < r.at /\ r.at < b.at => r \in mine

=============================================================================
