----------------------------- MODULE Dashboard -----------------------------
(***************************************************************************)
(* The pages of the dashboard: what a page shows of the rows the control   *)
(* plane keeps, while it polls, while the operator selects another server, *)
(* edits a row or is signed out, and while other people write.  Answers    *)
(* arrive in any order.  The rows of a page are one row per server, which  *)
(* is on, off or gone; a page about the whole organisation uses First.     *)
(***************************************************************************)
EXTENDS Naturals, FiniteSets

CONSTANTS
    Servers,        \* the game servers of the organisation
    First,          \* the first of them in a list
    OpenPages,      \* names of the pages the operator visits
    MaxAsks,        \* loads of a page in flight at once
    MaxChanges,     \* steps of operators, other writers and faults
    Blank           \* no server, nothing shown

ASSUME DashboardAssumption ==
    /\ IsFiniteSet(Servers) /\ First \in Servers /\ Blank \notin Servers
    /\ OpenPages \subseteq
          {"hosts", "jobs", "schedules", "alerts", "triggers", "overview", "health", "server",
           "players", "chat", "mods", "saves", "accounts", "purchases", "shop"}
    /\ MaxAsks \in Nat \ {0} /\ MaxChanges \in Nat

VARIABLES
    table,          \* the row of each server in the database
    page,           \* the page that is open, Login when signed out
    shown,          \* the rows on the screen and the server they were loaded for
    selected,       \* the server the page has selected
    stored,         \* mm_selected_server_id, shared with other tabs
    ask,            \* loads in flight
    act,            \* the request of a button, with the job the page waits for
    session,        \* the stored token: "in", "revoked", or "out" when there is none
    crossed,        \* the server was changed while a button's request was in progress
    changes         \* steps of the environment so far

dashVars == <<table, page, shown, selected, stored, ask, act, session, crossed, changes>>

-----------------------------------------------------------------------------
(* The pages.  poll: by usePoll ("hook"), by an interval of its own that    *)
(* restarts when the server changes ("own"), or never.  edits: what buttons *)
(* ask for; after: what the screen shows then.  numbered: an answer that is *)
(* not of the latest load is dropped.                                      *)

HostsPage == [poll |-> "hook", perServer |-> FALSE, numbered |-> FALSE,
              edits |-> {"on", "off", "gone"}, deleted |-> "refetch", edited |-> "refetch"]
JobsPage == [poll |-> "hook", perServer |-> FALSE, numbered |-> FALSE,
             edits |-> {"on"}, deleted |-> "none", edited |-> "refetch"]
SchedulesPage == [poll |-> "hook", perServer |-> FALSE, numbered |-> FALSE,
                  edits |-> {"flip", "gone"}, deleted |-> "filter", edited |-> "refetch"]
AlertsPage == SchedulesPage
TriggersPage == [SchedulesPage EXCEPT !.perServer = TRUE]
OverviewPage == [poll |-> "hook", perServer |-> FALSE, numbered |-> FALSE,
                 edits |-> {}, deleted |-> "none", edited |-> "none"]
HealthPage == [OverviewPage EXCEPT !.poll = "own"]
ServerPage == [poll |-> "own", perServer |-> TRUE, numbered |-> FALSE,
               edits |-> {"flip"}, deleted |-> "none", edited |-> "answer"]
PlayersPage == [poll |-> "own", perServer |-> TRUE, numbered |-> FALSE,
                edits |-> {"off"}, deleted |-> "none", edited |-> "refetch"]
ChatPage == [PlayersPage EXCEPT !.edits = {}]
ModsPage == [poll |-> "none", perServer |-> TRUE, numbered |-> TRUE,
             edits |-> {"off", "gone"}, deleted |-> "refetch", edited |-> "refetch"]
SavesPage == [ModsPage EXCEPT !.numbered = FALSE, !.edits = {"on", "gone"}]
AccountsPage == [poll |-> "none", perServer |-> FALSE, numbered |-> FALSE,
                 edits |-> {"flip", "gone"}, deleted |-> "filter", edited |-> "answer"]
PurchasesPage == [OverviewPage EXCEPT !.poll = "none"]
ShopPage == [AccountsPage EXCEPT !.deleted = "refetch", !.edited = "refetch"]

Pages ==
    [hosts |-> HostsPage, jobs |-> JobsPage, schedules |-> SchedulesPage, alerts |-> AlertsPage,
     triggers |-> TriggersPage, overview |-> OverviewPage, health |-> HealthPage,
     server |-> ServerPage, players |-> PlayersPage, chat |-> ChatPage, mods |-> ModsPage,
     saves |-> SavesPage, accounts |-> AccountsPage, purchases |-> PurchasesPage, shop |-> ShopPage]

\* The login page, which shows nothing of the dashboard.
Login == [OverviewPage EXCEPT !.poll = "login"]
Slots == 1..MaxAsks
NoAsk == [st |-> "idle"]
NoAct == [st |-> "idle"]
Nothing == [of |-> Blank, rows |-> "gone"]

\* The server a load of the page is about.
Target == IF page.perServer /\ selected # Blank THEN selected ELSE First

\* resolve(): the stored server, else the one selected, else the first.
Resolve(requested) ==
    IF requested \in Servers THEN requested
    ELSE IF selected \in Servers THEN selected ELSE First

\* A load sent into slot i; it supersedes the earlier ones, and the page of
\* mods empties its table.
Sent(i, s) ==
    ask' = [j \in Slots |->
               IF j = i THEN [st |-> "sent", server |-> s, rows |-> "gone", mine |-> TRUE,
                              latest |-> TRUE, valid |-> session = "in"]
               ELSE IF ask[j].st = "idle" THEN NoAsk ELSE [ask[j] EXCEPT !.latest = FALSE]]
Emptied == IF page.numbered THEN Nothing ELSE shown
Free == {i \in Slots : ask[i].st = "idle"}

-----------------------------------------------------------------------------
(* Loads                                                                   *)

\* The poll of a page; not every page has one.
Poll ==
    /\ page # Login /\ page.poll \in {"hook", "own"}
    /\ act.st # "done"
    /\ \E i \in Free : Sent(i, Target)
    /\ UNCHANGED <<table, page, shown, selected, stored, act, session, crossed, changes>>

\* The control plane reads the rows for a load, or refuses its token.
Serve(i) ==
    /\ ask[i].st = "sent"
    /\ ask' = [ask EXCEPT ![i].st = IF ask[i].valid THEN "read" ELSE "refused",
                          ![i].rows = table[ask[i].server]]
    /\ UNCHANGED <<table, page, shown, selected, stored, act, session, crossed, changes>>

\* Mutant: every answer is shown.
Takes_All(a) == a.mine

\* The answer is of a page that is still open and, where loads are numbered, of the latest.
Takes(a) == a.mine /\ (page.numbered => a.latest)

\* setServerId(data.selected) of the triggers, and then the effect that resolves the stored choice.
SelectedBy(a) ==
    IF page.poll = "hook" /\ page.perServer
    THEN IF stored \in Servers THEN stored ELSE a.server
    ELSE selected

Arrives(i) ==
    /\ ask[i].st = "read" /\ page # Login
    /\ ask' = [ask EXCEPT ![i] = NoAsk]
    /\ IF Takes(ask[i])
       THEN /\ shown' = [of |-> ask[i].server, rows |-> ask[i].rows]
            /\ selected' = SelectedBy(ask[i])
       ELSE UNCHANGED <<shown, selected>>
    /\ UNCHANGED <<table, page, stored, act, session, crossed, changes>>

\* A load that fails leaves the screen as it is.
LoadFails(i) ==
    /\ ask[i].st # "idle" /\ changes < MaxChanges
    /\ ask' = [ask EXCEPT ![i] = NoAsk]
    /\ changes' = changes + 1
    /\ UNCHANGED <<table, page, shown, selected, stored, act, session, crossed>>

\* An answer for a page that is gone.
ArrivesLate(i) ==
    /\ ask[i].st = "read" /\ page = Login
    /\ ask' = [ask EXCEPT ![i] = NoAsk]
    /\ UNCHANGED <<table, page, shown, selected, stored, act, session, crossed, changes>>

-----------------------------------------------------------------------------
(* Sessions                                                                *)

\* The page is taken down: what was asked for it is dropped when it arrives.
Orphaned == [i \in Slots |-> IF ask[i].st = "idle" THEN NoAsk ELSE [ask[i] EXCEPT !.mine = FALSE]]
Disowned == IF act.st = "idle" THEN NoAct ELSE [act EXCEPT !.mine = FALSE]

\* clearAuth, and the browser goes to the login page.
SignedOut ==
    /\ page' = Login /\ session' = "out"
    /\ shown' = Nothing /\ selected' = Blank /\ crossed' = FALSE
    /\ act' = Disowned

\* notifyInvalidSession: a 401 ends whatever session is stored now.
Refused(i) ==
    /\ ask[i].st = "refused"
    /\ IF session = "out" THEN ask' = [ask EXCEPT ![i] = NoAsk]
                               /\ UNCHANGED <<page, session, shown, selected, crossed, act>>
       ELSE SignedOut /\ ask' = [Orphaned EXCEPT ![i] = NoAsk]
    /\ UNCHANGED <<table, stored, changes>>

\* The layout reads the servers every 30 s and the profile with every page: a
\* revoked token is noticed on a page that loads nothing, and a choice that no
\* server has is replaced by the first.
LoadServers ==
    /\ page # Login
    /\ \/ session = "revoked" /\ SignedOut /\ ask' = Orphaned /\ UNCHANGED stored
       \/ /\ session = "in" /\ stored' = IF stored \in Servers THEN stored ELSE First
          /\ UNCHANGED <<page, shown, selected, session, crossed, act, ask>>
    /\ UNCHANGED <<table, changes>>

\* The account is suspended or its password changed by someone else.
Revoke ==
    /\ session = "in" /\ changes < MaxChanges
    /\ session' = "revoked"
    /\ ask' = [i \in Slots |-> IF ask[i].st = "sent" THEN [ask[i] EXCEPT !.valid = FALSE] ELSE ask[i]]
    /\ changes' = changes + 1
    /\ UNCHANGED <<table, page, shown, selected, stored, act, crossed>>

Logout ==
    /\ page # Login /\ changes < MaxChanges
    /\ SignedOut /\ ask' = Orphaned
    /\ changes' = changes + 1
    /\ UNCHANGED <<table, stored>>

\* A page is opened: after signing in, or in place of another one.  Its first
\* load follows; a page that names a server resolves the stored choice first.
Opens(p) ==
    /\ page' = p /\ shown' = Nothing /\ crossed' = FALSE
    /\ selected' = IF p.perServer /\ p.poll # "hook" THEN Resolve(stored) ELSE Blank
    /\ \E i \in Free :
          ask' = [Orphaned EXCEPT ![i] =
                     [st |-> "sent", server |-> IF selected' = Blank THEN First ELSE selected',
                      rows |-> "gone", mine |-> TRUE, latest |-> TRUE, valid |-> TRUE]]
    /\ act' = Disowned

SignIn(p) ==
    /\ page = Login
    /\ session' = "in" /\ Opens(p)
    /\ UNCHANGED <<table, stored, changes>>

Navigate(p) ==
    /\ page # Login /\ session = "in" /\ changes < MaxChanges
    /\ Opens(p)
    /\ changes' = changes + 1
    /\ UNCHANGED <<table, stored, session>>

-----------------------------------------------------------------------------
(* The selected server                                                     *)

\* setServerId; all pages but those of usePoll load the new server at once.
Selects(s) ==
    /\ selected' = s
    /\ IF page.poll = "hook" THEN UNCHANGED <<ask, shown>>
       ELSE (\E i \in Free : Sent(i, s)) /\ shown' = Emptied
    /\ crossed' = (crossed \/ act.st # "idle")

\* The selector of the header or of the page; the choice is stored.
SelectServer(s) ==
    /\ page # Login /\ changes < MaxChanges
    /\ s # stored /\ stored' = s
    /\ IF page.perServer /\ selected \notin {s, Blank} THEN Selects(s)
       ELSE UNCHANGED <<selected, ask, shown, crossed>>
    /\ changes' = changes + 1
    /\ UNCHANGED <<table, page, act, session>>

\* Another tab stores its choice: no event reaches this one.
OtherTabSelects(s) ==
    /\ s # stored /\ changes < MaxChanges
    /\ stored' = s
    /\ changes' = changes + 1
    /\ UNCHANGED <<table, page, shown, selected, ask, act, session, crossed>>

\* The page of mods resolves the stored choice whenever it is drawn.
Adopt ==
    /\ page # Login /\ page.numbered
    /\ stored \in Servers /\ selected # stored
    /\ Selects(stored)
    /\ UNCHANGED <<table, page, stored, act, session, changes>>

-----------------------------------------------------------------------------
(* Buttons                                                                 *)

\* Switches send the opposite of what the screen shows.
Requested == UNION {IF e = "flip" THEN {"on", "off"} \ {shown.rows} ELSE {e} : e \in page.edits}

Click ==
    /\ page # Login /\ act.st = "idle" /\ changes < MaxChanges
    /\ shown.of # Blank
    /\ \E v \in Requested :
          /\ shown.rows # "gone" \/ v = "on"
          /\ act' = [st |-> "sent", server |-> Target, value |-> v, mine |-> TRUE]
    /\ changes' = changes + 1
    /\ UNCHANGED <<table, page, shown, selected, stored, ask, session, crossed>>

\* The control plane writes the row; a row that is gone, or a token that is not valid, is an error.
Applied ==
    /\ act.st = "sent"
    /\ IF session # "in" \/ (table[act.server] = "gone" /\ act.value # "on")
       THEN table' = table /\ act' = NoAct
       ELSE table' = [table EXCEPT ![act.server] = act.value] /\ act' = [act EXCEPT !.st = "done"]
    /\ UNCHANGED <<page, shown, selected, stored, ask, session, crossed, changes>>

\* What follows the answer: a load for the server of the click, the row of the
\* answer, or the row taken off the screen if it is there.
Follows == IF act.value = "gone" THEN page.deleted ELSE page.edited
Answered ==
    /\ act.st = "done"
    /\ IF ~act.mine \/ page = Login THEN UNCHANGED <<ask, shown>>
       ELSE \/ Follows = "refetch" /\ (\E i \in Free : Sent(i, act.server)) /\ shown' = Emptied
            \/ /\ Follows \in {"answer", "filter"}
               /\ shown' = IF shown.of = act.server \/ Follows = "answer"
                           THEN [of |-> act.server, rows |-> act.value] ELSE shown
               /\ UNCHANGED ask
    /\ act' = NoAct
    /\ UNCHANGED <<table, page, selected, stored, session, crossed, changes>>

\* Other operators, schedules and agents write.
OtherWrites(s, v) ==
    /\ changes < MaxChanges /\ table[s] # v
    /\ table' = [table EXCEPT ![s] = v]
    /\ changes' = changes + 1
    /\ UNCHANGED <<page, shown, selected, stored, ask, act, session, crossed>>

-----------------------------------------------------------------------------
DashInit ==
    /\ table = [s \in Servers |-> IF s = First THEN "on" ELSE "off"]
    /\ page = Login /\ shown = Nothing /\ selected = Blank
    /\ stored \in {Blank, First}
    /\ ask = [i \in Slots |-> NoAsk] /\ act = NoAct
    /\ session = "out" /\ crossed = FALSE /\ changes = 0

Load(i) == Serve(i) \/ Arrives(i) \/ ArrivesLate(i) \/ Refused(i)
Button == Applied \/ Answered

DashNext ==
    \/ Poll \/ LoadServers \/ Button
    \/ \E i \in Slots : Load(i) \/ LoadFails(i)
    \/ Revoke \/ Logout \/ Adopt \/ Click
    \/ \E n \in OpenPages : SignIn(Pages[n]) \/ Navigate(Pages[n])
    \/ \E s \in Servers : SelectServer(s) \/ OtherTabSelects(s)
    \/ \E s \in Servers, v \in {"on", "off", "gone"} : OtherWrites(s, v)

-----------------------------------------------------------------------------
\* What a page owes its reader: one that polls shows the present rows of its
\* server; one that numbers its loads shows no other server's rows, unless the
\* server was changed while a button of the page was at work.
ShowsItsServer ==
    /\ page.poll \in {"hook", "own"} => shown = [of |-> Target, rows |-> table[Target]]
    /\ page.numbered => crossed \/ shown.of \in {selected, Blank}

\* Once nobody changes anything, every open page that polls or numbers its loads
\* comes to show the server it has selected and stays there, in whatever order
\* answers arrived, and with a revoked token no page stays open.
ShownSettles == <>[](page # Login => session = "in" /\ ShowsItsServer)

=============================================================================
