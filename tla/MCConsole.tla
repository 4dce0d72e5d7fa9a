----------------------------- MODULE MCConsole -----------------------------
(* The parts of the control plane that follow and describe the game          *)
(* servers: log chunks and the chat relay (Logs), keyword rules (Keywords),  *)
(* the page that shows the log (LogView), Discord alerts (Alerts) and the    *)
(* next time of a schedule (Cron).  They share no rows, so that a behaviour  *)
(* follows one of them.                                                      *)
EXTENDS Logs, Keywords, LogView, Alerts, Cron

CONSTANTS q1, q2    \* requests, whichever part they are made to

VARIABLE area       \* the part that a behaviour follows

parts == <<vars, keywordVars, viewVars, alertVars, cronVars>>

Symmetry == Permutations({q1, q2})

\* Two lines, written in the same second.
SameSecond == <<1, 1>>

\* Letters, of which "A" has a lower case.
LowerLetters == [l \in {"a", "A", "b"} |-> IF l = "A" THEN "a" ELSE l]
SomePhrases == {<<"a">>, <<"a", "a">>, <<"A", "b">>}
ShortChunks == {<<l>> : l \in Letters} \cup {<<l, m>> : l, m \in Letters}

\* Fields of a cron expression, in a calendar of two short months.
N(n) == {[number |-> n]}
S(n) == {[step |-> n]}
SomeExpressions ==
    {{}, N(0), S(2), N(1) \cup N(2), S(4)} \X {{}, N(1)}
      \X {{}, S(2), N(3)} \X {{}, N(2)} \X {{}, N(1)}
SomeWindows == {<<>>, <<1, 4>>, <<5, 5>>, <<4, 1>>}

\* Of the server "s2" one row is stored at a time, the one with the id 1.
RowsOf(server, rows) == {r.id : r \in {o \in rows : o.server = server}}

ConsoleInit ==
    /\ Init /\ KeywordsInit /\ LogViewInit /\ AlertsInit /\ CronInit
    /\ area \in {"logs", "keywords", "page", "alerts", "cron"}

ConsoleNext ==
    /\ area' = area
    /\ \/ /\ area = "logs" /\ Next
          /\ UNCHANGED <<keywordVars, viewVars, alertVars, cronVars>>
       \/ /\ area = "keywords" /\ KeywordsNext
          /\ UNCHANGED <<vars, viewVars, alertVars, cronVars>>
       \/ /\ area = "page" /\ LogViewNext
          /\ RowsOf("s2", stored') \subseteq {1}
          /\ UNCHANGED <<vars, keywordVars, alertVars, cronVars>>
       \/ /\ area = "alerts" /\ AlertsNext
          /\ UNCHANGED <<vars, keywordVars, viewVars, cronVars>>
       \/ /\ area = "cron" /\ CronNext
          /\ UNCHANGED <<vars, keywordVars, viewVars, alertVars>>

ConsoleSpec == ConsoleInit /\ [][ConsoleNext]_<<parts, area>>
=============================================================================
