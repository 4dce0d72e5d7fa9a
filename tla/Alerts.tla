------------------------------- MODULE Alerts -------------------------------
(***************************************************************************)
(* Alert rules and the alerts they send to Discord (alerts.service.ts,     *)
(* discord.service.ts): the log and the roster both report a player, a     *)
(* keyword names its rule.  Alerts are sent by requests that run at once;  *)
(* what they share are the map of recent alerts and the limiter's windows. *)
(***************************************************************************)
EXTENDS Naturals, FiniteSetsExt

CONSTANTS
    RuleIds,        \* ids of alert rules
    Reporters,      \* requests that may send alerts at once
    AlertGap,       \* the 15 seconds between two alerts about a player
    RateWindow,     \* DISCORD_RATE_LIMIT.windowMs
    MaxPerWindow,   \* DISCORD_RATE_LIMIT.maxPerWindow
    RetryAttempts,  \* DISCORD_RETRY_ATTEMPTS
    MaxTime,        \* bound on the clock
    MaxAlerts,      \* bound on the alerts
    Never           \* no rule, no entry of a map

ASSUME AlertsAssumption ==
    /\ AlertGap \in Nat \ {0} /\ RateWindow \in Nat \ {0} /\ MaxPerWindow \in Nat \ {0}
    /\ RetryAttempts \in Nat \ {0} /\ MaxTime \in Nat /\ MaxAlerts \in Nat
    /\ Never \notin [count : Nat, start : Nat]

VARIABLES
    rule,           \* the alert_rules rows
    recent,         \* recentPlayerLifecycleAlerts: when each event was last let through
    window,         \* rateLimitMap: count and start for each rule
    report,         \* the requests that send an alert
    alertClock,
    alerts,         \* alerts so far
    sent            \* how many messages of each rule the limiter let through at each time

alertVars == <<rule, recent, window, report, alertClock, alerts, sent>>

LifecycleTypes == {"PLAYER_CONNECTED", "PLAYER_DISCONNECTED"}
Channels == {"discord", "other"}
Quiet == [pc |-> "idle", type |-> Never, named |-> Never, todo |-> {}, rule |-> Never, tries |-> 0]

AlertsInit ==
    /\ rule = [r \in RuleIds |-> Never]
    /\ recent = [t \in LifecycleTypes |-> Never]
    /\ window = [r \in RuleIds |-> Never]
    /\ report = [p \in Reporters |-> Quiet]
    /\ alertClock = 0 /\ alerts = 0 /\ sent = [r \in RuleIds |-> [t \in 0..MaxTime |-> 0]]

AlertTick ==
    /\ alertClock < MaxTime
    /\ alertClock' = alertClock + 1
    /\ UNCHANGED <<rule, recent, window, report, alerts, sent>>

-----------------------------------------------------------------------------
(* The rules.                                                              *)

CreateRule(r, type, channel) ==
    /\ rule[r] = Never
    /\ rule' = [rule EXCEPT ![r] = [type |-> type, channel |-> channel, enabled |-> TRUE]]
    /\ UNCHANGED <<recent, window, report, alertClock, alerts, sent>>

\* updateRule, deleteRule: another channel, another state, or no row.
UpdateRule(r, enabled, channel) ==
    /\ rule[r] # Never
    /\ rule' = [rule EXCEPT ![r].enabled = enabled, ![r].channel = channel]
    /\ UNCHANGED <<recent, window, report, alertClock, alerts, sent>>

DeleteRule(r) ==
    /\ rule[r] # Never
    /\ rule' = [rule EXCEPT ![r] = Never]
    /\ UNCHANGED <<recent, window, report, alertClock, alerts, sent>>

-----------------------------------------------------------------------------
(* sendMatchingRules.                                                      *)

\* An alert about the player that follows the last one too soon is dropped.
LetThrough(type) ==
    /\ recent[type] # Never => alertClock - recent[type] >= AlertGap
    /\ recent' = [recent EXCEPT ![type] = alertClock]

\* The log and the roster of one player, or a keyword of a rule, report.
SendMatchingRules(p, type, named) ==
    /\ report[p].pc = "idle" /\ alerts < MaxAlerts
    /\ IF type \in LifecycleTypes THEN LetThrough(type) ELSE UNCHANGED recent
    /\ alerts' = alerts + 1
    /\ report' = [report EXCEPT ![p] = [Quiet EXCEPT !.pc = "rules", !.type = type,
                                            !.named = named]]
    /\ UNCHANGED <<rule, window, alertClock, sent>>

\* The enabled rules of that type; a keyword's own rule only.
Matching(type, named) ==
    {r \in RuleIds : /\ rule[r] # Never
                     /\ rule[r].enabled /\ rule[r].type = type
                     /\ type = "LOG_KEYWORD" => r = named}

\* Rules without a Discord webhook are passed over.
ReadRules(p) ==
    /\ report[p].pc = "rules"
    /\ report' = [report EXCEPT ![p].pc = "next", ![p].todo =
            {r \in Matching(report[p].type, report[p].named) : rule[r].channel = "discord"}]
    /\ UNCHANGED <<rule, recent, window, alertClock, alerts, sent>>

\* Mutant: a window ends a tick early.
TryConsumeRateLimit_EndsEarly(r) ==
    \/ /\ window[r] # Never => alertClock - window[r].start >= RateWindow - 1
       /\ window' = [window EXCEPT ![r] = [count |-> 1, start |-> alertClock]]
    \/ /\ window[r] # Never /\ window[r].count < MaxPerWindow
       /\ alertClock - window[r].start < RateWindow - 1
       /\ window' = [window EXCEPT ![r].count = @ + 1]

\* A new window, or a place in the one that is open.
TryConsumeRateLimit(r) ==
    \/ /\ window[r] # Never => alertClock - window[r].start >= RateWindow
       /\ window' = [window EXCEPT ![r] = [count |-> 1, start |-> alertClock]]
    \/ /\ window[r] # Never /\ window[r].count < MaxPerWindow
       /\ alertClock - window[r].start < RateWindow
       /\ window' = [window EXCEPT ![r].count = @ + 1]

WindowFull(r) ==
    /\ window[r] # Never /\ alertClock - window[r].start < RateWindow
    /\ window[r].count >= MaxPerWindow

\* The limiter lets the next rule's message through, or refuses it with a row.
SendToRule(p, r) ==
    /\ report[p].pc = "next" /\ r \in report[p].todo
    /\ \/ /\ TryConsumeRateLimit(r)
          /\ sent' = [sent EXCEPT ![r][alertClock] = @ + 1]
          /\ report' = [report EXCEPT ![p].pc = "post", ![p].rule = r, ![p].tries = 1]
       \/ /\ WindowFull(r)
          /\ report' = [report EXCEPT ![p].todo = @ \ {r}]
          /\ UNCHANGED <<window, sent>>
    /\ UNCHANGED <<rule, recent, alertClock, alerts>>

\* Discord's answer: a 429 or a 5xx is tried again, anything else is final.  The row of
\* the audit log follows; when it cannot be written the other rules get nothing.
Post(p, answer, written) ==
    /\ report[p].pc = "post"
    /\ IF answer = "retry" /\ report[p].tries < RetryAttempts
       THEN /\ report' = [report EXCEPT ![p].tries = @ + 1]
            /\ written
       ELSE /\ report' = [report EXCEPT ![p].pc = "next", ![p].rule = Never, ![p].tries = 0,
                            ![p].todo = IF written THEN @ \ {report[p].rule} ELSE {}]
    /\ UNCHANGED <<rule, recent, window, alertClock, alerts, sent>>

Reported(p) ==
    /\ report[p].pc = "next" /\ report[p].todo = {}
    /\ report' = [report EXCEPT ![p] = Quiet]
    /\ UNCHANGED <<rule, recent, window, alertClock, alerts, sent>>

\* The requests that change the rules, at either controller's routes.
RuleRequest(r) ==
    \/ \E type \in {"PLAYER_CONNECTED", "LOG_KEYWORD"}, channel \in Channels : CreateRule(r, type, channel)
    \/ \E enabled \in BOOLEAN, channel \in Channels : UpdateRule(r, enabled, channel)
    \/ DeleteRule(r)

AlertsNext ==
    \/ AlertTick
    \/ \E r \in RuleIds : RuleRequest(r)
    \/ \E p \in Reporters :
        \/ \E r \in RuleIds : SendMatchingRules(p, "LOG_KEYWORD", r) \/ SendToRule(p, r)
        \/ SendMatchingRules(p, "PLAYER_CONNECTED", Never)
        \/ ReadRules(p) \/ Reported(p)
        \/ \E answer \in {"ok", "retry", "error"}, written \in BOOLEAN : Post(p, answer, written)

AlertsSpec == AlertsInit /\ [][AlertsNext]_alertVars

-----------------------------------------------------------------------------
\* However the requests interleave, in any stretch of time as long as the window a rule
\* sends less than twice the limit: what is left of one window and all of the next.
ChannelNotFlooded ==
    \A r \in RuleIds, t \in 0..MaxTime :
        MapThenSumSet(LAMBDA u : sent[r][u], {u \in 0..MaxTime : u >= t /\ u < t + RateWindow})
            < 2 * MaxPerWindow

=============================================================================
