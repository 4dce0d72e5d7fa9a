-------------------------------- MODULE Cron --------------------------------
(***************************************************************************)
(* When a schedule runs next (scheduler/cron-next.ts and computeNextRun of *)
(* scheduler.service.ts): the fields of an expression are parsed into sets *)
(* of numbers, the minutes after now are tried one after the other for a   *)
(* year, and the first that fits is moved into the execution window.  The  *)
(* calendar is regular: the lengths of an hour, a day, a month and a year  *)
(* are constants, and the clocks are never changed.                        *)
(***************************************************************************)
EXTENDS Naturals, Sequences

CONSTANTS
    MinutesPerHour, HoursPerDay, DaysPerMonth, MonthsPerYear, DaysPerWeek,
    Expressions,    \* expressions an operator may enter
    Windows,        \* execution windows: the first and the last minute of the day, or <<>>
    Nows            \* the minutes at which a next run is computed

MinutesPerDay == MinutesPerHour * HoursPerDay

\* A part of a field: a number, or every so many from the least.
CronItems == [number : Nat] \cup [step : Nat]

\* A window is a pair of times of the day, "HH:mm" both.
ASSUME CronAssumption ==
    /\ {MinutesPerHour, HoursPerDay, DaysPerMonth, MonthsPerYear, DaysPerWeek} \subseteq Nat \ {0}
    /\ Nows \subseteq Nat /\ Expressions \subseteq [1..5 -> SUBSET CronItems]
    /\ Windows \subseteq {<<>>} \cup ((0 .. MinutesPerDay - 1) \X (0 .. MinutesPerDay - 1))

VARIABLES
    cron            \* the computation: expression, window, minute and result

cronVars == <<cron>>

MaxIter == MinutesPerDay * DaysPerMonth * MonthsPerYear

\* The fields of a time, in the order of an expression.
Fields5(t) ==
    LET day == t \div MinutesPerDay IN
    <<t % MinutesPerHour, (t \div MinutesPerHour) % HoursPerDay, 1 + (day % DaysPerMonth),
      1 + ((day \div DaysPerMonth) % MonthsPerYear), day % DaysPerWeek>>

Least == <<0, 0, 1, 1, 0>>
Greatest == <<MinutesPerHour - 1, HoursPerDay - 1, DaysPerMonth, MonthsPerYear, DaysPerWeek - 1>>

CronInit == cron = [pc |-> "idle"]

-----------------------------------------------------------------------------
(* parseSet: a field is "*" or a set of numbers and steps.                 *)

ItemIsValid(item, min, max) ==
    IF "step" \in DOMAIN item THEN item.step \in 1..(max - min + 1)
    ELSE item.number \in min..max

ParseItem(item, min, max) ==
    IF "step" \in DOMAIN item
    THEN {min + k * item.step : k \in 0..((max - min) \div item.step)}
    ELSE {item.number}

ParseSet(field, min, max) ==
    IF field = {} THEN min..max ELSE UNION {ParseItem(item, min, max) : item \in field}

Valid(expr) ==
    \A f \in 1..5 : \A item \in expr[f] : ItemIsValid(item, Least[f], Greatest[f])

-----------------------------------------------------------------------------
(* getNextCronRun and clampToExecutionWindow.                              *)

\* computeNextRun begins: an expression that cannot be parsed has no next run.
GetNextCronRun(expr, now, window) ==
    /\ cron.pc = "idle"
    /\ cron' = [pc |-> IF Valid(expr) THEN "try" ELSE "null", expr |-> expr, now |-> now,
                t |-> now + 1, i |-> 0, window |-> window]

Matches5(t) ==
    \A f \in 1..5 : Fields5(t)[f] \in ParseSet(cron.expr[f], Least[f], Greatest[f])

\* Mutant: after the window of the day its start is taken.
Clamp_SameDay(t, window) ==
    LET minute == t % MinutesPerDay IN
    CASE window = <<>> -> t
      [] window # <<>> /\ minute \in window[1]..window[2] -> t
      [] OTHER -> t - minute + window[1]

\* Before the window it is the window of the day; after it, and always when the window goes
\* over midnight, that of the next day.
Clamp(t, window) ==
    LET minute == t % MinutesPerDay IN
    CASE window = <<>> -> t
      [] window # <<>> /\ minute \in window[1]..window[2] -> t
      [] window # <<>> /\ minute < window[1] /\ window[1] <= window[2] -> t - minute + window[1]
      [] OTHER -> t - minute + MinutesPerDay + window[1]

TryMinute ==
    /\ cron.pc = "try"
    /\ cron' = IF cron.i = MaxIter THEN [cron EXCEPT !.pc = "null"]
               ELSE IF Matches5(cron.t)
               THEN [cron EXCEPT !.pc = "found", !.t = Clamp(@, cron.window)]
               ELSE [cron EXCEPT !.i = @ + 1, !.t = @ + 1]

CronNext ==
    \/ \E expr \in Expressions, now \in Nows, window \in Windows :
        GetNextCronRun(expr, now, window)
    \/ TryMinute

CronSpec == CronInit /\ [][CronNext]_cronVars

-----------------------------------------------------------------------------
\* What the fields say: every number, the numbers listed, and every so many from the least.
Due(t) ==
    \A f \in 1..5 :
        \/ cron.expr[f] = {}
        \/ \E item \in cron.expr[f] :
            \/ "number" \in DOMAIN item /\ Fields5(t)[f] = item.number
            \/ "step" \in DOMAIN item /\ (Fields5(t)[f] - Least[f]) % item.step = 0

Overnight == cron.window # <<>> /\ cron.window[1] > cron.window[2]
Open5(t) == cron.window # <<>> => t % MinutesPerDay \in cron.window[1]..cron.window[2]

\* The next run is the first minute of the window at or after the first minute that fits the
\* expression, and strictly after now: none is passed over, whatever the fields and whichever
\* side of midnight the search ends; a window over midnight is left out.  There is none only
\* when a whole year has none.
NextRunIsFirst ==
    /\ cron.pc = "found" =>
        \E due \in cron.now + 1 .. cron.t :
            /\ Due(due) /\ \A t \in cron.now + 1 .. due - 1 : ~Due(t)
            /\ ~Overnight => Open5(cron.t) /\ \A t \in due .. cron.t - 1 : ~Open5(t)
    /\ cron.pc = "null" /\ Valid(cron.expr) =>
        \A t \in cron.now + 1 .. cron.now + MaxIter : ~Due(t)

=============================================================================
