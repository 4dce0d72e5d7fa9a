---------------------------- MODULE ConsoleProofs ----------------------------
(***************************************************************************)
(* Theorems about what follows and describes the game servers: log chunks  *)
(* and the chat relay (Logs with LogTail), keyword rules (Keywords), the   *)
(* page that shows the log (LogView) and the next time of a schedule       *)
(* (Cron), for every number of lines, requests, rows and minutes.          *)
(***************************************************************************)
EXTENDS Logs, Keywords, LogView, Alerts, Cron, Sums, FiniteSetTheorems, SequenceTheorems,
        WellFoundedInduction, TLAPS

-----------------------------------------------------------------------------
(* The tailer.                                                             *)

LineSet == 1..MaxLines
TailRow == [pc : {"idle", "flush", "upload", "switch"}, file : Nat, offset : Nat,
            pending : Seq(LineSet), initialized : BOOLEAN, replaced : BOOLEAN,
            missing : BOOLEAN, resetPending : BOOLEAN]

TailTypeOK ==
    /\ written \in 0..MaxLines /\ files \in Seq(Seq(LineSet)) /\ path \in 0..Len(files)
    /\ tail \in TailRow /\ tail.file \in 0..Len(files)
    /\ acked \subseteq LineSet /\ taken \subseteq LineSet

\* What the tailer holds at each of its steps.
TailHolds ==
    /\ tail.pc = "switch" => tail.pending = <<>>
    /\ tail.pc \in {"flush", "upload"} => tail.pending # <<>>

(* The lines of a sequence of lines put after another, and of its parts.    *)
LEMMA SetOfLines ==
    /\ \A s, t \in Seq(LineSet) : s \o t \in Seq(LineSet) /\ ToSet(s \o t) = ToSet(s) \cup ToSet(t)
    /\ \A s \in Seq(LineSet) : ToSet(s) \subseteq LineSet
    /\ ToSet(<<>>) = {}
    /\ \A s \in Seq(LineSet) : s # <<>> =>
           /\ Head(s) \in LineSet /\ Tail(s) \in Seq(LineSet)
           /\ ToSet(s) = {Head(s)} \cup ToSet(Tail(s))
           /\ Len(s) = 1 <=> Tail(s) = <<>>
<1>1. ASSUME NEW s \in Seq(LineSet), NEW t \in Seq(LineSet)
      PROVE  s \o t \in Seq(LineSet) /\ ToSet(s \o t) = ToSet(s) \cup ToSet(t)
  <2>1. s \o t \in Seq(LineSet) /\ Len(s \o t) = Len(s) + Len(t)
    OBVIOUS
  <2>2. ToSet(s \o t) \subseteq ToSet(s) \cup ToSet(t)
    BY <2>1 DEF ToSet
  <2>3. ToSet(s) \subseteq ToSet(s \o t)
    BY <2>1 DEF ToSet
  <2>4. ASSUME NEW i \in 1..Len(t) PROVE t[i] \in ToSet(s \o t)
    <3>1. (s \o t)[Len(s) + i] = t[i] /\ Len(s) + i \in DOMAIN (s \o t)
      BY <2>1
    <3>2. QED
      BY <3>1 DEF ToSet
  <2>5. ToSet(t) \subseteq ToSet(s \o t)
    BY <2>4 DEF ToSet
  <2>6. QED
    BY <2>1, <2>2, <2>3, <2>5
<1>2. \A s \in Seq(LineSet) : ToSet(s) \subseteq LineSet
  BY DEF ToSet
<1>3. ToSet(<<>>) = {}
  BY DEF ToSet
<1>4. ASSUME NEW s \in Seq(LineSet), s # <<>>
      PROVE  /\ Head(s) \in LineSet /\ Tail(s) \in Seq(LineSet)
             /\ ToSet(s) = {Head(s)} \cup ToSet(Tail(s))
             /\ Len(s) = 1 <=> Tail(s) = <<>>
  <2>1. /\ Len(s) \in Nat \ {0} /\ Head(s) = s[1] /\ Head(s) \in LineSet /\ Tail(s) \in Seq(LineSet)
        /\ Len(Tail(s)) = Len(s) - 1 /\ \A i \in 1..Len(s) - 1 : Tail(s)[i] = s[i + 1]
    BY <1>4
  <2>2. ToSet(Tail(s)) \subseteq ToSet(s)
    BY <2>1 DEF ToSet
  <2>3. ASSUME NEW i \in 1..Len(s), i # 1 PROVE s[i] \in ToSet(Tail(s))
    <3>1. i - 1 \in DOMAIN Tail(s) /\ Tail(s)[i - 1] = s[i]
      BY <2>1, <2>3
    <3>2. QED
      BY <3>1 DEF ToSet
  <2>4. ToSet(s) = {Head(s)} \cup ToSet(Tail(s))
    BY <2>1, <2>2, <2>3 DEF ToSet
  <2>5. Len(s) = 1 <=> Tail(s) = <<>>
    BY <2>1
  <2>6. QED
    BY <2>1, <2>4, <2>5
<1>5. QED
  BY <1>1, <1>2, <1>3, <1>4

(* The smaller of two numbers.                                              *)
LEMMA MinOfTwo ==
    \A m, n \in Nat : Min({m, n}) \in {m, n} /\ Min({m, n}) <= m /\ Min({m, n}) <= n
<1> SUFFICES ASSUME NEW m \in Nat, NEW n \in Nat
             PROVE  Min({m, n}) \in {m, n} /\ Min({m, n}) <= m /\ Min({m, n}) <= n
  OBVIOUS
<1>1. \E x \in {m, n} : \A y \in {m, n} : x <= y
  <2>1. CASE m <= n
    BY <2>1
  <2>2. CASE n <= m
    BY <2>2
  <2>3. QED
    BY <2>1, <2>2
<1>2. QED
  BY <1>1 DEF Min

(* A step of the tailer reads lines into the chunk it holds.                *)
LEMMA ReadStep ==
    ASSUME TailTypeOK, NEW late \in BOOLEAN, Read(late)
    PROVE  /\ \E lines \in Seq(LineSet) : tail'.pending = tail.pending \o lines /\ taken' = taken \cup ToSet(lines)
           /\ tail' \in TailRow /\ tail'.file = tail.file /\ tail'.pc \in {"idle", "flush", "switch"}
           /\ TailHolds' /\ UNCHANGED <<fileVars, acked>>
<1> DEFINE o == Observed
           t == Rewound(o)
           lines == ReadLines(t)
           pending == t.pending \o lines
<1>1. tail \in TailRow /\ tail.file \in 1..Len(files) /\ tail.pc = "idle" /\ files[tail.file] \in Seq(LineSet)
  BY DEF TailTypeOK, Read
<1>2. o \in TailRow /\ o.file = tail.file /\ o.pending = tail.pending
  BY <1>1 DEF Observed, TailRow
<1> HIDE DEF o
<1>3. t \in TailRow /\ t.file = tail.file /\ t.pending = tail.pending
  BY <1>2 DEF Rewound, TailRow
<1> HIDE DEF t
<1>4. lines \in Seq(LineSet)
  <2>1. t.offset \in Nat /\ t.pending \in Seq(LineSet)
    BY <1>3 DEF TailRow
  <2>2. CASE ~MayRead(t)
    BY <2>2 DEF ReadLines
  <2>3. CASE MayRead(t)
    <3> DEFINE size == Len(files[t.file])
               room == t.offset + Chunk - Len(t.pending)
    <3>1. size \in Nat /\ room \in Nat
      BY <1>1, <1>3, <2>1, <2>3, TailAssumption DEF MayRead
    <3>2. Min({size, room}) \in Nat /\ Min({size, room}) <= size
      BY <3>1, MinOfTwo
    <3>3. lines = SubSeq(files[t.file], t.offset + 1, Min({size, room}))
      BY <2>3 DEF ReadLines
    <3> HIDE DEF room
    <3>4. \A n \in Nat : n <= size => SubSeq(files[t.file], t.offset + 1, n) \in Seq(LineSet)
      BY <1>1, <1>3, <2>1
    <3>5. QED
      BY <3>2, <3>3, <3>4
  <2>4. QED
    BY <2>2, <2>3
<1> HIDE DEF lines
<1>5. pending \in Seq(LineSet) /\ pending = tail.pending \o lines
  BY <1>3, <1>4, SetOfLines DEF TailRow
<1>6. /\ tail' = [t EXCEPT !.offset = t.offset + Len(lines), !.pending = pending,
                    !.pc = IF FlushDue(t, lines, late) THEN "flush"
                           ELSE IF pending = <<>> /\ t.replaced THEN "switch" ELSE "idle"]
      /\ taken' = taken \cup ToSet(lines) /\ UNCHANGED <<fileVars, acked>>
  BY DEF Read, t, lines, o
<1>7. FlushDue(t, lines, late) => pending # <<>>
  <2>1. Len(t.pending) + Len(lines) = Chunk => Len(pending) # 0
    BY <1>3, <1>4, TailAssumption DEF TailRow
  <2>2. t.pending # <<>> => pending # <<>>
    BY <1>3, <1>4 DEF TailRow
  <2>3. QED
    BY <2>1, <2>2 DEF FlushDue
<1> HIDE DEF pending
<1> DEFINE offset == t.offset + Len(lines)
           pc == IF FlushDue(t, lines, late) THEN "flush"
                 ELSE IF pending = <<>> /\ t.replaced THEN "switch" ELSE "idle"
<1>8. offset \in Nat /\ pc \in {"idle", "flush", "switch"}
  BY <1>3, <1>4 DEF TailRow
<1>9. tail' = [t EXCEPT !.offset = offset, !.pending = pending, !.pc = pc]
  BY <1>6
<1> HIDE DEF offset
<1>10. (pc = "switch" => pending = <<>>) /\ (pc = "flush" => pending # <<>>)
  BY <1>7
<1> HIDE DEF pc
<1>11. tail' \in TailRow /\ tail'.file = tail.file /\ tail'.pending = pending /\ tail'.pc = pc
  BY <1>3, <1>5, <1>8, <1>9 DEF TailRow
<1>12. TailHolds'
  BY <1>8, <1>10, <1>11 DEF TailHolds
<1>13. \E new \in Seq(LineSet) : tail'.pending = tail.pending \o new /\ taken' = taken \cup ToSet(new)
  BY <1>4, <1>5, <1>6, <1>11
<1>14. QED
  BY <1>6, <1>8, <1>11, <1>12, <1>13



-----------------------------------------------------------------------------
(* The append requests and the chat relay.                                 *)

Parsing == {"chat", "create", "moderate", "relay", "note"}
Relaying == {"moderate", "relay", "note"}
RequestRow == [pc : Parsing \cup {"idle", "retry", "resend", "delete", "done"},
               lines : Seq(LineSet), todo : SUBSET LineSet, client : BOOLEAN]
Fates == {"none", "posted", "moderated", "dropped"}

LogTypeOK ==
    /\ TailTypeOK /\ TailHolds
    /\ req \in [Appends -> RequestRow]
    /\ chat \subseteq LineSet /\ relayPending \subseteq LineSet
    /\ expired \subseteq LineSet /\ unparsed \subseteq LineSet
    /\ fate \in [LineSet -> Fates]

\* What a request has still to do, and what of the chunk it was sent is covered already.
RequestsHold ==
    \A q \in Appends :
        /\ req[q].pc \in Parsing <=> req[q].lines # <<>>
        /\ req[q].pc \in Relaying => Covered(Head(req[q].lines))
        /\ req[q].pc \in {"resend", "delete"} => req[q].todo # {}
        /\ req[q].pc = "delete" => fate[Min(req[q].todo)] # "none"
        /\ req[q].client =>
            /\ tail.pc = "upload" /\ req[q].pc # "idle"
            /\ \A p \in Appends : req[p].client => p = q
            /\ \A m \in ToSet(tail.pending) : Covered(m) \/ m \in ToSet(req[q].lines)

LogInv == LogTypeOK /\ RequestsHold /\ ReadIsRecorded /\ RelayAccounted

(* The least of a set of lines.                                             *)
LEMMA MinOfLines == \A s \in SUBSET LineSet : s # {} => Min(s) \in s
<1> SUFFICES ASSUME NEW s \in SUBSET LineSet, s # {} PROVE Min(s) \in s
  OBVIOUS
<1>1. s \subseteq Nat
  BY TailAssumption DEF LineSet
<1> DEFINE R == {p \in Nat \X Nat : p[1] < p[2]}
<1>2. IsWellFoundedOn(R, Nat)
  <2>1. R = OpToRel(<, Nat)
    BY DEF OpToRel
  <2>2. QED
    BY <2>1, NatLessThanWellFounded
<1>3. \A x, y \in Nat : <<y, x>> \notin R => x <= y
  OBVIOUS
<1> HIDE DEF R
<1>4. \E x \in s : \A y \in s : ~ (<<y, x>> \in R)
  BY <1>1, <1>2, WFMin
<1>5. \E x \in s : \A y \in s : x <= y
  BY <1>1, <1>3, <1>4
<1>6. QED
  BY <1>5 DEF Min

(* A request takes a step: the facts about the others stay.                 *)
LEMMA OneRequest ==
    ASSUME LogInv, NEW q \in Appends, NEW row \in RequestRow,
           req' = [req EXCEPT ![q] = row],
           UNCHANGED <<fileVars, tailVars>>,
           chat' \subseteq LineSet, relayPending' \subseteq LineSet, expired' \subseteq LineSet,
           unparsed' \subseteq LineSet, fate' \in [LineSet -> Fates],
           chat \cup expired \subseteq chat' \cup expired', unparsed \subseteq unparsed',
           \A m \in LineSet : fate[m] # "none" => fate'[m] # "none",
           row.client = req[q].client, row.pc # "idle",
           row.pc \in Parsing <=> row.lines # <<>>,
           row.pc \in Relaying => \E m \in LineSet : m = Head(row.lines) /\ Covered(m)',
           row.pc \in {"resend", "delete"} => row.todo # {},
           row.pc = "delete" => fate'[Min(row.todo)] # "none",
           \A m \in ToSet(req[q].lines) : m \in ToSet(row.lines) \/ Covered(m)',
           \A m \in chat' : m \in chat \/ m \in InRelay(q)',
           \A m \in chat : m \in relayPending \/ m \in InRelay(q) =>
               m \in relayPending' \/ fate'[m] # "none" \/ m \in InRelay(q)'
    PROVE  LogInv'
<1>1. LogTypeOK /\ RequestsHold /\ ReadIsRecorded /\ RelayAccounted
  BY DEF LogInv
<1>2. \A p \in Appends : req'[p] = IF p = q THEN row ELSE req[p]
  BY <1>1 DEF LogTypeOK
<1>3. \A m : Covered(m) => Covered(m)'
  BY DEF Covered
<1>4. tail' = tail /\ acked' = acked /\ taken' = taken
  BY DEF tailVars
<1>5. LogTypeOK'
  <2>1. TailTypeOK' /\ TailHolds'
    BY <1>1 DEF LogTypeOK, TailTypeOK, TailHolds, fileVars, tailVars
  <2>2. req' \in [Appends -> RequestRow]
    BY <1>1 DEF LogTypeOK
  <2>3. QED
    BY <2>1, <2>2 DEF LogTypeOK
<1>6. RequestsHold'
  <2> SUFFICES ASSUME NEW p \in Appends
               PROVE  /\ req'[p].pc \in Parsing <=> req'[p].lines # <<>>
                      /\ req'[p].pc \in Relaying => Covered(Head(req[p].lines))'
                      /\ req'[p].pc \in {"resend", "delete"} => req'[p].todo # {}
                      /\ req'[p].pc = "delete" => fate'[Min(req'[p].todo)] # "none"
                      /\ req'[p].client =>
                          /\ tail'.pc = "upload" /\ req'[p].pc # "idle"
                          /\ \A o \in Appends : req'[o].client => o = p
                          /\ \A m \in ToSet(tail'.pending) : Covered(m)' \/ m \in ToSet(req'[p].lines)
    BY DEF RequestsHold
  <2>1. \A o \in Appends : req'[o].client = req[o].client
    BY <1>2
  <2>2. CASE p = q
    BY <1>1, <1>2, <1>3, <1>4, <2>1, <2>2 DEF RequestsHold
  <2>3. CASE p # q
    <3>1. req'[p] = req[p]
      BY <1>2, <2>3
    <3>2. req[p].pc = "delete" => Min(req[p].todo) \in LineSet
      BY <1>1, MinOfLines DEF RequestsHold, LogTypeOK, RequestRow
    <3>3. QED
      BY <1>1, <1>3, <1>4, <2>1, <3>1, <3>2 DEF RequestsHold
  <2>4. QED
    BY <2>2, <2>3
<1>7. ReadIsRecorded'
  <2>1. \A m \in acked : Covered(m)
    BY <1>1 DEF ReadIsRecorded, Covered
  <2>2. \A m \in acked' : Covered(m)'
    BY <1>3, <1>4, <2>1
  <2>3. QED
    BY <1>1, <1>4, <2>2 DEF ReadIsRecorded, Covered
<1>8. RelayAccounted'
  <2>1. \A p \in Appends : p # q => InRelay(p)' = InRelay(p)
    BY <1>2 DEF InRelay, Line
  <2>2. \A m \in chat : m \in LineSet
    BY <1>1 DEF LogTypeOK
  <2>3. QED
    BY <1>1, <2>1, <2>2 DEF RelayAccounted
<1>9. QED
  BY <1>5, <1>6, <1>7, <1>8 DEF LogInv



(* What relayPlayerChat leaves of a line's fate.                            *)
LEMMA RelayFate ==
    ASSUME fate \in [LineSet -> Fates], NEW m \in LineSet, NEW ok \in BOOLEAN, NEW arrived \in BOOLEAN,
           RelayPlayerChat(m, ok, arrived)
    PROVE  /\ fate' \in [LineSet -> Fates]
           /\ \A n \in LineSet : fate[n] # "none" => fate'[n] # "none"
           /\ ~relayOn \/ ok => fate'[m] # "none"
<1>1. CASE ~relayOn
  BY <1>1 DEF RelayPlayerChat, DiscordSend, Fates, LineSet
<1>2. CASE relayOn
  BY <1>2 DEF RelayPlayerChat, DiscordSend, Fates, LineSet
<1>3. QED
  BY <1>1, <1>2

(* A request goes on with its chunk: to another step, or to the next line.  *)
LEMMA RequestRows ==
    ASSUME LogInv, NEW q \in Appends
    PROVE  /\ req[q] \in RequestRow /\ (req[q].pc \in Parsing <=> req[q].lines # <<>>)
           /\ req[q].lines # <<>> => Line(q) \in LineSet /\ Line(q) \in ToSet(req[q].lines)
           /\ \A pc \in Parsing : LET row == [req[q] EXCEPT !.pc = pc] IN
                  /\ row \in RequestRow /\ row.pc = pc /\ row.lines = req[q].lines /\ row.client = req[q].client
                  /\ GoTo(q, pc) => req' = [req EXCEPT ![q] = row]
           /\ req[q].lines # <<>> =>
                  LET row == [req[q] EXCEPT !.lines = Tail(req[q].lines),
                                            !.pc = IF Len(req[q].lines) = 1 THEN "retry" ELSE "chat"]
                  IN  /\ row \in RequestRow /\ row.pc \in {"retry", "chat"} /\ row.client = req[q].client
                      /\ row.pc \in Parsing <=> row.lines # <<>>
                      /\ ToSet(req[q].lines) = {Line(q)} \cup ToSet(row.lines)
                      /\ NextLine(q) => req' = [req EXCEPT ![q] = row]
<1>1. req[q] \in RequestRow /\ (req[q].pc \in Parsing <=> req[q].lines # <<>>)
  BY DEF LogInv, LogTypeOK, RequestsHold
<1>2. req[q].lines # <<>> => Line(q) \in LineSet /\ Line(q) \in ToSet(req[q].lines)
  BY <1>1, SetOfLines DEF Line, RequestRow
<1>3. ASSUME NEW pc \in Parsing
      PROVE  LET row == [req[q] EXCEPT !.pc = pc] IN
                 /\ row \in RequestRow /\ row.pc = pc /\ row.lines = req[q].lines /\ row.client = req[q].client
                 /\ GoTo(q, pc) => req' = [req EXCEPT ![q] = row]
  <2>1. req \in [Appends -> RequestRow]
    BY DEF LogInv, LogTypeOK
  <2>2. GoTo(q, pc) => req' = [req EXCEPT ![q] = [req[q] EXCEPT !.pc = pc]]
    BY <2>1 DEF GoTo
  <2>3. QED
    BY <1>1, <2>2 DEF RequestRow
<1>4. ASSUME req[q].lines # <<>>
      PROVE  LET row == [req[q] EXCEPT !.lines = Tail(req[q].lines),
                                       !.pc = IF Len(req[q].lines) = 1 THEN "retry" ELSE "chat"]
             IN  /\ row \in RequestRow /\ row.pc \in {"retry", "chat"} /\ row.client = req[q].client
                 /\ row.pc \in Parsing <=> row.lines # <<>>
                 /\ ToSet(req[q].lines) = {Line(q)} \cup ToSet(row.lines)
                 /\ NextLine(q) => req' = [req EXCEPT ![q] = row]
  <2> DEFINE rest == Tail(req[q].lines)
             pc == IF Len(req[q].lines) = 1 THEN "retry" ELSE "chat"
             row == [req[q] EXCEPT !.lines = rest, !.pc = pc]
  <2>1. rest \in Seq(LineSet) /\ ToSet(req[q].lines) = {Line(q)} \cup ToSet(rest) /\ (Len(req[q].lines) = 1 <=> rest = <<>>)
    BY <1>1, <1>4, SetOfLines DEF Line, RequestRow
  <2>2. pc \in {"retry", "chat"} /\ (pc \in Parsing <=> rest # <<>>)
    BY <2>1 DEF Parsing
  <2>3. NextLine(q) => req' = [req EXCEPT ![q] = row]
    BY DEF NextLine, LogInv, LogTypeOK
  <2> HIDE DEF rest, pc
  <2>4. row \in RequestRow /\ row.lines = rest /\ row.pc = pc /\ row.client = req[q].client
    BY <1>1, <2>1, <2>2 DEF RequestRow, Parsing
  <2> HIDE DEF row
  <2>5. /\ row \in RequestRow /\ row.pc \in {"retry", "chat"} /\ row.client = req[q].client
        /\ row.pc \in Parsing <=> row.lines # <<>>
        /\ ToSet(req[q].lines) = {Line(q)} \cup ToSet(row.lines)
        /\ NextLine(q) => req' = [req EXCEPT ![q] = row]
    BY <2>1, <2>2, <2>3, <2>4
  <2>6. QED
    BY <2>5 DEF row, rest, pc
<1>5. QED
  BY <1>1, <1>2, <1>3, <1>4



(* A line goes from step to step of parseChat, or the next line is taken.   *)
LEMMA GoOn ==
    ASSUME LogInv, NEW q \in Appends, NEW pc \in Parsing, NEW l \in LineSet,
           req[q].pc \in Parsing, GoTo(q, pc), l = Line(q),
           UNCHANGED <<fileVars, tailVars, expired, unparsed>>,
           relayPending' \subseteq LineSet, fate' \in [LineSet -> Fates],
           \A m \in LineSet : fate[m] # "none" => fate'[m] # "none",
           relayPending \subseteq relayPending',
           chat' = chat \/ (chat' = chat \cup {Line(q)} /\ pc \in Relaying),
           pc \in Relaying => Covered(l)',
           req[q].pc \in Relaying => pc \in Relaying
    PROVE  LogInv'
<1> DEFINE row == [req[q] EXCEPT !.pc = pc]
<1>1. /\ row \in RequestRow /\ row.pc = pc /\ row.lines = req[q].lines /\ row.client = req[q].client
      /\ req' = [req EXCEPT ![q] = row] /\ req[q].lines # <<>> /\ Line(q) \in LineSet
  BY RequestRows DEF Parsing
<1>2. req \in [Appends -> RequestRow] /\ chat \subseteq LineSet /\ expired \subseteq LineSet /\ unparsed \subseteq LineSet
  BY DEF LogInv, LogTypeOK
<1> HIDE DEF row
<1>3. req'[q] = row
  BY <1>1, <1>2
<1>4. Head(row.lines) = l /\ Line(q)' = l
  BY <1>1, <1>3 DEF Line
<1>5. pc \notin {"idle", "resend", "delete"} /\ (row.pc \in Parsing <=> row.lines # <<>>)
  BY <1>1 DEF Parsing
<1>6. pc \in Relaying => InRelay(q)' = {Line(q)}
  BY <1>1, <1>3, <1>4 DEF InRelay, Relaying
<1>7. InRelay(q) \subseteq InRelay(q)'
  BY <1>6 DEF InRelay, Relaying
<1>8. \A m \in chat : m \in relayPending \/ m \in InRelay(q) => m \in relayPending' \/ fate'[m] # "none" \/ m \in InRelay(q)'
  BY <1>7
<1>9. \A m \in chat' : m \in chat \/ m \in InRelay(q)'
  BY <1>6
<1>10. chat' \subseteq LineSet /\ chat \cup expired \subseteq chat' \cup expired'
  BY <1>1, <1>2
<1>11. row.pc \in Relaying => \E m \in LineSet : m = Head(row.lines) /\ Covered(m)'
  BY <1>1, <1>4
<1>12. QED
  BY <1>1, <1>2, <1>5, <1>8, <1>9, <1>10, <1>11, OneRequest

LEMMA GoToNextLine ==
    ASSUME LogInv, NEW q \in Appends, req[q].pc \in Parsing, NextLine(q), Covered(Line(q)),
           UNCHANGED <<fileVars, tailVars, chat, expired, unparsed>>,
           relayPending' \subseteq LineSet, fate' \in [LineSet -> Fates],
           \A m \in LineSet : fate[m] # "none" => fate'[m] # "none",
           relayPending \subseteq relayPending',
           req[q].pc \in Relaying => Line(q) \in relayPending' \/ fate'[Line(q)] # "none"
    PROVE  LogInv'
<1> DEFINE row == [req[q] EXCEPT !.lines = Tail(req[q].lines),
                                 !.pc = IF Len(req[q].lines) = 1 THEN "retry" ELSE "chat"]
<1>1. /\ row \in RequestRow /\ row.pc \in {"retry", "chat"} /\ row.client = req[q].client
      /\ row.pc \in Parsing <=> row.lines # <<>>
      /\ ToSet(req[q].lines) = {Line(q)} \cup ToSet(row.lines)
      /\ req' = [req EXCEPT ![q] = row]
  BY RequestRows
<1>2. chat \subseteq LineSet /\ expired \subseteq LineSet /\ unparsed \subseteq LineSet
  BY DEF LogInv, LogTypeOK
<1> HIDE DEF row
<1>3. row.pc \notin Relaying \cup {"idle", "resend", "delete"}
  BY <1>1 DEF Relaying
<1>4. \A m : Covered(m) <=> Covered(m)'
  BY DEF Covered
<1>5. \A m \in ToSet(req[q].lines) : m \in ToSet(row.lines) \/ Covered(m)'
  BY <1>1, <1>4
<1>6. \A m \in InRelay(q) : m = Line(q) /\ req[q].pc \in Relaying
  BY DEF InRelay, Relaying
<1>7. \A m \in chat : m \in relayPending \/ m \in InRelay(q) => m \in relayPending' \/ fate'[m] # "none" \/ m \in InRelay(q)'
  BY <1>6
<1>8. QED
  BY <1>1, <1>2, <1>3, <1>5, <1>7, OneRequest

(* parseChat's steps.                                                       *)
LEMMA ParseStep ==
    ASSUME LogInv, NEW q \in Appends
    PROVE  /\ CheckDuplicate(q) \/ CreateEvent(q) \/ NotePending(q) => LogInv'
           /\ \A hit \in BOOLEAN : ModerateChat(q, hit) => LogInv'
           /\ \A ok, arrived \in BOOLEAN : RelayLine(q, ok, arrived) => LogInv'
           /\ ParseFails(q) => LogInv'
<1>0. /\ req[q].pc \in Relaying => Covered(Line(q))
      /\ chat \subseteq LineSet /\ relayPending \subseteq LineSet /\ expired \subseteq LineSet /\ unparsed \subseteq LineSet
      /\ fate \in [LineSet -> Fates]
      /\ req[q].pc \in Parsing => Line(q) \in LineSet /\ req[q].lines # <<>>
  BY RequestRows DEF LogInv, LogTypeOK, RequestsHold, Line
<1>1. Relaying \subseteq Parsing
  BY DEF Relaying, Parsing
<1>2. ASSUME CheckDuplicate(q) PROVE LogInv'
  <2>1. req[q].pc = "chat" /\ UNCHANGED <<fileVars, tailVars, relayVars, faultVars>>
    BY <1>2 DEF CheckDuplicate, Doing
  <2>2. req[q].pc \in Parsing /\ req[q].pc \notin Relaying
    BY <2>1 DEF Parsing, Relaying
  <2>3. CASE Recorded(Line(q)) /\ NextLine(q)
    <3>1. Covered(Line(q))
      BY <2>3 DEF Recorded, Covered
    <3>2. QED
      BY <1>0, <2>1, <2>2, <2>3, <3>1, GoToNextLine DEF relayVars, faultVars
  <2>4. CASE GoTo(q, "create")
    <3>1. "create" \in Parsing /\ "create" \notin Relaying
      BY DEF Parsing, Relaying
    <3>2. QED
      BY <1>0, <2>1, <2>2, <2>4, <3>1, GoOn DEF relayVars, faultVars
  <2>5. QED
    BY <1>2, <2>3, <2>4 DEF CheckDuplicate
<1>3. ASSUME CreateEvent(q) PROVE LogInv'
  <2>1. /\ req[q].pc = "create" /\ chat' = chat \cup {Line(q)} /\ GoTo(q, "moderate")
        /\ UNCHANGED <<fileVars, tailVars, fate, relayPending, faultVars>>
    BY <1>3 DEF CreateEvent, Doing
  <2>2. req[q].pc \in Parsing /\ req[q].pc \notin Relaying /\ "moderate" \in Parsing /\ "moderate" \in Relaying
    BY <2>1 DEF Parsing, Relaying
  <2>3. PICK l \in LineSet : l = Line(q)
    BY <1>0, <2>2
  <2>4. Covered(l)'
    BY <2>1, <2>3 DEF Covered
  <2>5. QED
    BY <1>0, <2>1, <2>2, <2>3, <2>4, GoOn DEF faultVars
<1>4. ASSUME NEW hit \in BOOLEAN, ModerateChat(q, hit) PROVE LogInv'
  <2>1. /\ req[q].pc = "moderate" /\ UNCHANGED <<fileVars, tailVars, chat, relayPending, faultVars>>
        /\ fate' = IF hit THEN [fate EXCEPT ![Line(q)] = "moderated"] ELSE fate
        /\ IF hit THEN NextLine(q) ELSE GoTo(q, "relay")
    BY <1>4 DEF ModerateChat, Doing
  <2>2. req[q].pc \in Parsing /\ req[q].pc \in Relaying /\ "relay" \in Parsing /\ "relay" \in Relaying
    BY <2>1 DEF Parsing, Relaying
  <2>3. CASE hit
    <3>1. fate' \in [LineSet -> Fates] /\ fate'[Line(q)] # "none" /\ \A m \in LineSet : fate[m] # "none" => fate'[m] # "none"
      BY <1>0, <2>1, <2>2, <2>3 DEF Fates
    <3>2. QED
      BY <1>0, <2>1, <2>2, <2>3, <3>1, GoToNextLine DEF faultVars
  <2>4. CASE ~hit
    <3>0. PICK l \in LineSet : l = Line(q) /\ Covered(l)
      BY <1>0, <2>2
    <3>1. Covered(l)'
      BY <2>1, <3>0 DEF Covered, faultVars
    <3>2. QED
      BY <1>0, <2>1, <2>2, <2>4, <3>0, <3>1, GoOn DEF faultVars
  <2>5. QED
    BY <2>3, <2>4
<1>5. ASSUME NEW ok \in BOOLEAN, NEW arrived \in BOOLEAN, RelayLine(q, ok, arrived) PROVE LogInv'
  <2>1. /\ req[q].pc = "relay" /\ RelayPlayerChat(Line(q), ok, arrived)
        /\ IF relayOn /\ ~ok THEN GoTo(q, "note") ELSE NextLine(q)
        /\ UNCHANGED <<fileVars, tailVars, chat, relayPending, faultVars>>
    BY <1>5 DEF RelayLine, Doing
  <2>2. req[q].pc \in Parsing /\ req[q].pc \in Relaying /\ "note" \in Parsing /\ "note" \in Relaying
    BY <2>1 DEF Parsing, Relaying
  <2>3. /\ fate' \in [LineSet -> Fates] /\ \A m \in LineSet : fate[m] # "none" => fate'[m] # "none"
        /\ ~relayOn \/ ok => fate'[Line(q)] # "none"
    BY <1>0, <2>1, <2>2, RelayFate
  <2>4. CASE relayOn /\ ~ok
    <3>0. PICK l \in LineSet : l = Line(q) /\ Covered(l)
      BY <1>0, <2>2
    <3>1. Covered(l)'
      BY <2>1, <3>0 DEF Covered, faultVars
    <3>2. QED
      BY <1>0, <2>1, <2>2, <2>3, <2>4, <3>0, <3>1, GoOn DEF faultVars
  <2>5. CASE ~(relayOn /\ ~ok)
    BY <1>0, <2>1, <2>2, <2>3, <2>5, GoToNextLine DEF faultVars
  <2>6. QED
    BY <2>4, <2>5
<1>6. ASSUME NotePending(q) PROVE LogInv'
  <2>1. /\ req[q].pc = "note" /\ relayPending' = relayPending \cup {Line(q)} /\ NextLine(q)
        /\ UNCHANGED <<fileVars, tailVars, chat, fate, faultVars>>
    BY <1>6 DEF NotePending, Doing
  <2>2. req[q].pc \in Parsing /\ req[q].pc \in Relaying
    BY <2>1 DEF Parsing, Relaying
  <2>3. QED
    BY <1>0, <2>1, <2>2, GoToNextLine DEF faultVars
<1>7. ASSUME ParseFails(q) PROVE LogInv'
  <2> DEFINE row == [req[q] EXCEPT !.pc = "retry", !.lines = <<>>]
  <2>1. /\ req[q].pc \in Parsing /\ unparsed' = unparsed \cup ToSet(req[q].lines)
        /\ fate' = Dropped(InRelay(q)) /\ req' = [req EXCEPT ![q] = row]
        /\ UNCHANGED <<fileVars, tailVars, chat, relayPending, expired>>
    BY <1>7 DEF ParseFails, Parsing, LogInv, LogTypeOK
  <2>2. req[q] \in RequestRow /\ ToSet(req[q].lines) \subseteq LineSet
    BY RequestRows, SetOfLines DEF RequestRow
  <2>3. /\ row \in RequestRow /\ row.pc = "retry" /\ row.lines = <<>> /\ row.client = req[q].client
        /\ "retry" \notin Parsing \cup Relaying
    <3>1. <<>> \in Seq(LineSet)
      OBVIOUS
    <3>2. row \in RequestRow /\ row.pc = "retry" /\ row.lines = <<>> /\ row.client = req[q].client
      BY <2>2, <3>1 DEF RequestRow
    <3>3. QED
      BY <3>2 DEF Parsing, Relaying
  <2> HIDE DEF row
  <2>4. /\ fate' \in [LineSet -> Fates] /\ \A m \in LineSet : fate[m] # "none" => fate'[m] # "none"
        /\ \A m \in LineSet \cap InRelay(q) : fate'[m] # "none"
    BY <1>0, <2>1 DEF Dropped, Fates, LineSet
  <2>5. \A m \in ToSet(req[q].lines) : Covered(m)'
    BY <2>1 DEF Covered
  <2>6. QED
    BY <1>0, <2>1, <2>2, <2>3, <2>4, <2>5, OneRequest
<1>8. QED
  BY <1>2, <1>3, <1>4, <1>5, <1>6, <1>7



(* retryChatRelays' steps.                                                  *)
LEMMA RetryStep ==
    ASSUME LogInv, NEW q \in Appends
    PROVE  /\ RetryRead(q) \/ DeletePending(q) => LogInv'
           /\ \A ok, arrived \in BOOLEAN : Resend(q, ok, arrived) => LogInv'
<1>0. /\ chat \subseteq LineSet /\ relayPending \subseteq LineSet /\ expired \subseteq LineSet /\ unparsed \subseteq LineSet
      /\ fate \in [LineSet -> Fates] /\ req \in [Appends -> RequestRow] /\ req[q] \in RequestRow
      /\ req[q].pc \in Parsing <=> req[q].lines # <<>>
      /\ req[q].pc \in {"resend", "delete"} => req[q].todo # {}
      /\ req[q].pc = "delete" => fate[Min(req[q].todo)] # "none"
  BY DEF LogInv, LogTypeOK, RequestsHold
<1>1. ASSUME NEW pc \in {"done", "resend", "delete"}, NEW todo \in SUBSET LineSet
      PROVE  LET row == [req[q] EXCEPT !.todo = todo, !.pc = pc] IN
             row \in RequestRow /\ row.pc = pc /\ row.todo = todo /\ row.lines = req[q].lines /\ row.client = req[q].client
  BY <1>0 DEF RequestRow
<1>2. req[q].todo \subseteq LineSet /\ (req[q].pc \in {"resend", "delete"} => Min(req[q].todo) \in req[q].todo)
  BY <1>0, MinOfLines DEF RequestRow
<1>3. \A pc \in {"retry", "done", "resend", "delete"} : pc \notin Parsing \cup Relaying \cup {"idle"}
  BY DEF Parsing, Relaying
<1>4. ASSUME req[q].pc \in {"retry", "resend", "delete"}
      PROVE  req[q].lines = <<>> /\ ToSet(req[q].lines) = {} /\ InRelay(q) = {}
  BY <1>0, <1>3, <1>4, SetOfLines DEF InRelay, Relaying
<1>5. ASSUME RetryRead(q) PROVE LogInv'
  <2> DEFINE pc == IF relayPending = {} THEN "done" ELSE "resend"
             row == [req[q] EXCEPT !.todo = relayPending, !.pc = pc]
  <2>1. /\ req[q].pc = "retry" /\ req' = [req EXCEPT ![q] = row]
        /\ UNCHANGED <<fileVars, tailVars, relayVars, faultVars>>
    BY <1>0, <1>5 DEF RetryRead, Doing
  <2>2. pc \in {"done", "resend"} /\ (pc = "resend" => relayPending # {})
    OBVIOUS
  <2> HIDE DEF pc
  <2>3. row \in RequestRow /\ row.pc = pc /\ row.todo = relayPending /\ row.lines = req[q].lines /\ row.client = req[q].client
    BY <1>0, <2>2 DEF RequestRow
  <2> HIDE DEF row
  <2>4. row.pc \notin Parsing \cup Relaying \cup {"idle"} /\ row.lines = <<>> /\ ToSet(req[q].lines) = {} /\ InRelay(q) = {}
    BY <1>3, <1>4, <2>1, <2>2, <2>3
  <2>5. QED
    BY <1>0, <2>1, <2>2, <2>3, <2>4, OneRequest DEF relayVars, faultVars
<1>6. ASSUME NEW ok \in BOOLEAN, NEW arrived \in BOOLEAN, Resend(q, ok, arrived) PROVE LogInv'
  <2> DEFINE m == Min(req[q].todo)
  <2>1. /\ req[q].pc = "resend" /\ RelayPlayerChat(m, ok, arrived)
        /\ IF ok \/ ~relayOn THEN GoTo(q, "delete") ELSE Retried(q, m)
        /\ UNCHANGED <<fileVars, tailVars, chat, relayPending, relayOn, faultVars>>
    BY <1>6 DEF Resend, Doing
  <2>2. m \in LineSet /\ m \in req[q].todo
    BY <1>2, <2>1
  <2> HIDE DEF m
  <2>3. /\ fate' \in [LineSet -> Fates] /\ \A n \in LineSet : fate[n] # "none" => fate'[n] # "none"
        /\ ~relayOn \/ ok => fate'[m] # "none"
    BY <1>0, <2>1, <2>2, RelayFate
  <2>4. CASE ok \/ ~relayOn
    <3> DEFINE row == [req[q] EXCEPT !.pc = "delete"]
    <3>1. req' = [req EXCEPT ![q] = row]
      BY <1>0, <2>1, <2>4 DEF GoTo
    <3>2. /\ row \in RequestRow /\ row.pc = "delete" /\ row.todo = req[q].todo /\ row.lines = req[q].lines
          /\ row.client = req[q].client
      BY <1>0 DEF RequestRow
    <3> HIDE DEF row
    <3>3. row.pc \notin Parsing \cup Relaying \cup {"idle"} /\ row.lines = <<>> /\ ToSet(req[q].lines) = {} /\ InRelay(q) = {}
      BY <1>3, <1>4, <2>1, <3>2
    <3>4. Min(row.todo) = m
      BY <3>2 DEF m
    <3>5. QED
      BY <1>0, <2>1, <2>2, <2>3, <2>4, <3>1, <3>2, <3>3, <3>4, OneRequest DEF faultVars
  <2>5. CASE ~(ok \/ ~relayOn)
    <3> DEFINE todo == req[q].todo \ {m}
               pc == IF req[q].todo = {m} THEN "done" ELSE "resend"
               row == [req[q] EXCEPT !.todo = todo, !.pc = pc]
    <3>1. req' = [req EXCEPT ![q] = row]
      BY <1>0, <2>1, <2>5 DEF Retried
    <3>2. todo \subseteq LineSet /\ pc \in {"done", "resend"} /\ (pc = "resend" => todo # {})
      BY <1>2, <2>2
    <3> HIDE DEF todo, pc
    <3>3. row \in RequestRow /\ row.pc = pc /\ row.todo = todo /\ row.lines = req[q].lines /\ row.client = req[q].client
      BY <1>0, <3>2 DEF RequestRow
    <3> HIDE DEF row
    <3>4. row.pc \notin Parsing \cup Relaying \cup {"idle"} /\ row.lines = <<>> /\ ToSet(req[q].lines) = {} /\ InRelay(q) = {}
      BY <1>3, <1>4, <2>1, <3>2, <3>3
    <3>5. QED
      BY <1>0, <2>1, <2>3, <3>1, <3>2, <3>3, <3>4, OneRequest DEF faultVars
  <2>6. QED
    BY <2>4, <2>5
<1>7. ASSUME DeletePending(q) PROVE LogInv'
  <2> DEFINE m == Min(req[q].todo)
             todo == IF m \in relayPending THEN req[q].todo \ {m} ELSE req[q].todo
             pc == IF m \in relayPending /\ req[q].todo # {m} THEN "resend" ELSE "done"
             row == [req[q] EXCEPT !.todo = todo, !.pc = pc]
  <2>1. /\ req[q].pc = "delete" /\ relayPending' = relayPending \ {m}
        /\ UNCHANGED <<fileVars, tailVars, chat, fate, relayOn, faultVars>>
    BY <1>7 DEF DeletePending, Doing
  <2>2. m \in LineSet /\ m \in req[q].todo /\ fate[m] # "none"
    BY <1>0, <1>2, <2>1
  <2>3. req' = [req EXCEPT ![q] = row]
    <3>1. CASE m \in relayPending
      <4>1. Retried(q, m)
        BY <1>7, <3>1 DEF DeletePending
      <4> HIDE DEF m
      <4>2. QED
        BY <1>0, <3>1, <4>1 DEF Retried
    <3>2. CASE m \notin relayPending
      <4>1. GoTo(q, "done")
        BY <1>7, <3>2 DEF DeletePending
      <4>2. row = [req[q] EXCEPT !.pc = "done"]
        BY <1>0, <3>2 DEF RequestRow
      <4>3. QED
        BY <1>0, <4>1, <4>2 DEF GoTo
    <3>3. QED
      BY <3>1, <3>2
  <2>4. todo \subseteq LineSet /\ pc \in {"done", "resend"} /\ (pc = "resend" => todo # {})
    <3> HIDE DEF m
    <3> QED
      BY <1>2, <2>2
  <2> HIDE DEF todo, pc
  <2>5. row \in RequestRow /\ row.pc = pc /\ row.todo = todo /\ row.lines = req[q].lines /\ row.client = req[q].client
    BY <1>0, <2>4 DEF RequestRow
  <2> HIDE DEF row
  <2>6. row.pc \notin Parsing \cup Relaying \cup {"idle"} /\ row.lines = <<>> /\ ToSet(req[q].lines) = {} /\ InRelay(q) = {}
    BY <1>3, <1>4, <2>1, <2>4, <2>5
  <2> HIDE DEF m
  <2>7. QED
    BY <1>0, <2>1, <2>2, <2>3, <2>4, <2>5, <2>6, OneRequest DEF faultVars
<1>8. QED
  BY <1>5, <1>6, <1>7

(* append answers: the agent forgets the chunk when it still waits for it.  *)
LEMMA AnswerStep ==
    ASSUME LogInv, NEW q \in Appends, NEW upto \in 0..Oldest, Answer(q, upto)
    PROVE  LogInv'
<1>1. LogTypeOK /\ RequestsHold /\ ReadIsRecorded /\ RelayAccounted
  BY DEF LogInv
<1>2. /\ req[q].pc = "done" /\ req' = [req EXCEPT ![q] = NoRequest]
      /\ IF req[q].client THEN Uploaded ELSE UNCHANGED <<fileVars, tailVars>>
      /\ chat' = {m \in chat : m > upto} /\ relayPending' = {m \in relayPending : m > upto}
      /\ expired' = expired \cup {m \in chat : m <= upto}
      /\ UNCHANGED <<fate, relayOn, unparsed, failures>>
  BY DEF Answer, Doing
<1>3. /\ \A p \in Appends \ {q} : req'[p] = req[p]
      /\ req'[q].pc = "idle" /\ req'[q].lines = <<>> /\ ~req'[q].client /\ NoRequest \in RequestRow
  BY <1>1, <1>2 DEF LogTypeOK, NoRequest, RequestRow
<1>4. \A m : Covered(m) => Covered(m)'
  <2>1. chat \cup expired \subseteq chat' \cup expired'
    BY <1>1, <1>2, TailAssumption, LogsAssumption DEF LogTypeOK, LineSet
  <2>2. QED
    BY <1>2, <2>1 DEF Covered
<1>5. tail \in TailRow /\ ToSet(tail.pending) \subseteq LineSet /\ req[q].lines = <<>>
  BY <1>1, <1>2, SetOfLines DEF LogTypeOK, TailTypeOK, TailRow, RequestsHold, Parsing
<1>6. CASE req[q].client
  <2>1. /\ tail.pc = "upload" /\ acked' = acked \cup ToSet(tail.pending)
        /\ tail' = [tail EXCEPT !.pending = <<>>, !.pc = IF tail.replaced THEN "switch" ELSE "idle"]
        /\ UNCHANGED <<fileVars, taken>>
    BY <1>2, <1>6 DEF Uploaded
  <2>2. tail' \in TailRow /\ tail'.pending = <<>> /\ tail'.pc \in {"switch", "idle"} /\ tail'.file = tail.file
    <3> DEFINE pc == IF tail.replaced THEN "switch" ELSE "idle"
    <3>1. <<>> \in Seq(LineSet) /\ pc \in {"switch", "idle"} /\ tail' = [tail EXCEPT !.pending = <<>>, !.pc = pc]
      BY <2>1
    <3> HIDE DEF pc
    <3>2. QED
      BY <1>5, <3>1 DEF TailRow
  <2>3. \A m \in ToSet(tail.pending) : Covered(m)
    BY <1>1, <1>5, <1>6, SetOfLines DEF RequestsHold
  <2>4. LogTypeOK'
    <3>1. TailTypeOK' /\ TailHolds'
      BY <1>1, <1>5, <2>1, <2>2 DEF LogTypeOK, TailTypeOK, TailHolds, fileVars
    <3>2. req' \in [Appends -> RequestRow]
      BY <1>1, <1>2, <1>3 DEF LogTypeOK
    <3>3. QED
      BY <1>1, <1>2, <3>1, <3>2 DEF LogTypeOK
  <2>5. \A p \in Appends : ~req'[p].client
    BY <1>1, <1>3, <1>6 DEF RequestsHold
  <2>6. RequestsHold'
    <3>1. \A p \in Appends : req'[p].pc \in Relaying => Covered(Head(req[p].lines)) /\ req'[p] = req[p]
      BY <1>1, <1>3 DEF RequestsHold, Relaying
    <3>2. \A p \in Appends : req'[p].pc \in Parsing <=> req'[p].lines # <<>>
      BY <1>1, <1>3 DEF RequestsHold, Parsing
    <3>3. \A p \in Appends : req'[p].pc \in {"resend", "delete"} => req'[p] = req[p]
      BY <1>3
    <3>4. QED
      BY <1>1, <1>2, <1>4, <2>5, <3>1, <3>2, <3>3 DEF RequestsHold
  <2>7. \A m \in acked' : Covered(m)'
    BY <1>1, <1>4, <2>1, <2>3 DEF ReadIsRecorded, Covered
  <2>8. ReadIsRecorded'
    BY <1>1, <2>1, <2>2, <2>7, SetOfLines DEF ReadIsRecorded, Covered
  <2>9. RelayAccounted'
    <3>1. \A p \in Appends : InRelay(p)' = InRelay(p)
      BY <1>2, <1>3 DEF InRelay, Line
    <3>2. QED
      BY <1>1, <1>2, <3>1 DEF RelayAccounted
  <2>10. QED
    BY <2>4, <2>6, <2>8, <2>9 DEF LogInv
<1>7. CASE ~req[q].client
  <2>1. UNCHANGED <<fileVars, tailVars>> /\ tail' = tail /\ acked' = acked /\ taken' = taken
    BY <1>2, <1>7 DEF tailVars
  <2>2. LogTypeOK'
    <3>1. TailTypeOK' /\ TailHolds'
      BY <1>1, <2>1 DEF LogTypeOK, TailTypeOK, TailHolds, fileVars
    <3>2. req' \in [Appends -> RequestRow]
      BY <1>1, <1>2, <1>3 DEF LogTypeOK
    <3>3. QED
      BY <1>1, <1>2, <3>1, <3>2 DEF LogTypeOK
  <2>3. RequestsHold'
    <3>1. \A p \in Appends : req'[p].pc \in Relaying => Covered(Head(req[p].lines)) /\ req'[p] = req[p]
      BY <1>1, <1>3 DEF RequestsHold, Relaying
    <3>2. \A p \in Appends : req'[p].pc \in Parsing <=> req'[p].lines # <<>>
      BY <1>1, <1>3 DEF RequestsHold, Parsing
    <3>3. \A p \in Appends : req'[p].pc \in {"resend", "delete"} => req'[p] = req[p]
      BY <1>3
    <3>4. \A p \in Appends : req'[p].client => req'[p] = req[p]
      BY <1>3
    <3>5. QED
      BY <1>1, <1>2, <1>4, <2>1, <3>1, <3>2, <3>3, <3>4 DEF RequestsHold
  <2>4. ReadIsRecorded'
    <3>1. \A m \in acked' : Covered(m)'
      BY <1>1, <1>4, <2>1 DEF ReadIsRecorded, Covered
    <3>2. QED
      BY <1>1, <2>1, <3>1 DEF ReadIsRecorded, Covered
  <2>5. RelayAccounted'
    <3>1. \A p \in Appends : InRelay(p)' = InRelay(p)
      BY <1>2, <1>3 DEF InRelay, Line
    <3>2. QED
      BY <1>1, <1>2, <3>1 DEF RelayAccounted
  <2>6. QED
    BY <2>2, <2>3, <2>4, <2>5 DEF LogInv
<1>8. QED
  BY <1>6, <1>7



(* The tailer, the game and the host move; no request does.                 *)
LEMMA TailerStep ==
    ASSUME LogInv, TailStep \/ (FileStep /\ UNCHANGED <<req, relayVars, relayOn, faultVars>>)
    PROVE  LogInv'
<1>1. LogTypeOK /\ RequestsHold /\ ReadIsRecorded /\ RelayAccounted /\ TailTypeOK /\ TailHolds /\ tail \in TailRow
  BY DEF LogInv, LogTypeOK, TailTypeOK
<1>2. UNCHANGED <<req, relayVars, relayOn, faultVars>> /\ acked' = acked
  BY DEF TailStep, FileStep, Open, SwitchToReplacement, Read, WriteLine, Rotate, CreateFile, Truncate, tailVars
<1>3. \A m : Covered(m) <=> Covered(m)'
  BY <1>2 DEF Covered, relayVars, faultVars
<1>4. /\ TailTypeOK' /\ TailHolds' /\ taken' \subseteq acked' \cup ToSet(tail'.pending)
      /\ tail.pc = "upload" => tail' = tail
  <2>1. CASE FileStep
    <3>1. tail' = tail /\ taken' = taken
      BY <2>1 DEF FileStep, WriteLine, Rotate, CreateFile, Truncate, tailVars
    <3>2. written' \in 0..MaxLines /\ files' \in Seq(Seq(LineSet)) /\ Len(files') >= Len(files) /\ path' \in 0..Len(files')
      <4>1. CASE WriteLine
        <5>1. path \in 1..Len(files) /\ written + 1 \in LineSet /\ written' = written + 1 /\ path' = path
              /\ files' = [files EXCEPT ![path] = Append(files[path], written + 1)]
          BY <1>1, <4>1, TailAssumption DEF WriteLine, TailTypeOK, LineSet
        <5>2. files[path] \in Seq(LineSet) /\ Append(files[path], written + 1) \in Seq(LineSet)
          BY <1>1, <5>1 DEF TailTypeOK
        <5>3. files' \in Seq(Seq(LineSet)) /\ Len(files') = Len(files)
          BY <1>1, <5>1, <5>2 DEF TailTypeOK
        <5>4. QED
          BY <1>1, <5>1, <5>3 DEF TailTypeOK, LineSet
      <4>2. CASE Rotate
        BY <1>1, <4>2 DEF Rotate, TailTypeOK
      <4>3. CASE CreateFile
        <5>1. files' = Append(files, <<>>) /\ path' = Len(files') /\ written' = written
          BY <4>3 DEF CreateFile
        <5>2. <<>> \in Seq(LineSet) /\ files' \in Seq(Seq(LineSet)) /\ Len(files') = Len(files) + 1
          BY <1>1, <5>1 DEF TailTypeOK
        <5>3. QED
          BY <1>1, <5>1, <5>2 DEF TailTypeOK
      <4>4. CASE Truncate
        <5>1. path \in 1..Len(files) /\ files' = [files EXCEPT ![path] = <<>>] /\ written' = written /\ path' = path
          BY <1>1, <4>4 DEF Truncate, TailTypeOK
        <5>2. <<>> \in Seq(LineSet) /\ files' \in Seq(Seq(LineSet)) /\ Len(files') = Len(files)
          BY <1>1, <5>1 DEF TailTypeOK
        <5>3. QED
          BY <1>1, <5>1, <5>2 DEF TailTypeOK
      <4>5. QED
        BY <2>1, <4>1, <4>2, <4>3, <4>4 DEF FileStep
    <3>3. TailTypeOK'
      BY <1>1, <1>2, <3>1, <3>2 DEF TailTypeOK
    <3>4. QED
      BY <1>1, <1>2, <3>1, <3>3 DEF TailHolds, ReadIsRecorded
  <2>2. CASE Open
    <3> DEFINE offset == StartOffset
               row == [NewTailer EXCEPT !.file = path, !.offset = offset, !.initialized = TRUE, !.pending = tail.pending]
    <3>1. tail' = row /\ tail.pc = "idle" /\ path \in 1..Len(files) /\ UNCHANGED <<fileVars, acked, taken>>
      BY <1>1, <2>2 DEF Open, TailTypeOK
    <3>2. offset \in Nat
      <4>1. Len(files[path]) \in Nat
        BY <1>1, <3>1 DEF TailTypeOK
      <4>2. QED
        BY <4>1, TailAssumption DEF StartOffset
    <3> HIDE DEF offset
    <3>3. row \in TailRow /\ row.file = path /\ row.pending = tail.pending /\ row.pc = "idle"
      <4>1. path \in Nat /\ tail.pending \in Seq(LineSet)
        BY <1>1, <3>1 DEF TailRow
      <4>2. NewTailer \in TailRow /\ NewTailer.pc = "idle"
        <5>1. <<>> \in Seq(LineSet)
          OBVIOUS
        <5>2. QED
          BY <5>1 DEF NewTailer, TailRow
      <4>3. QED
        BY <3>2, <4>1, <4>2 DEF TailRow
    <3> HIDE DEF row
    <3>4. TailTypeOK' /\ TailHolds'
      BY <1>1, <3>1, <3>3 DEF TailTypeOK, TailHolds, fileVars
    <3>5. QED
      BY <1>1, <3>1, <3>3, <3>4 DEF ReadIsRecorded
  <2>3. CASE SwitchToReplacement
    <3>1. tail.pc = "switch" /\ tail.pending = <<>> /\ UNCHANGED <<fileVars, acked, taken>> /\ path \in 0..Len(files)
      BY <1>1, <2>3 DEF SwitchToReplacement, TailHolds, TailTypeOK
    <3>2. tail' \in TailRow /\ tail'.file \in 0..Len(files) /\ tail'.pending = <<>> /\ tail'.pc = "idle"
      <4>1. CASE path = 0
        BY <1>1, <2>3, <3>1, <4>1 DEF SwitchToReplacement, TailRow, TailTypeOK
      <4>2. CASE path # 0
        <5>1. tail' = [NewTailer EXCEPT !.file = path, !.initialized = TRUE]
          BY <2>3, <4>2 DEF SwitchToReplacement
        <5>2. <<>> \in Seq(LineSet) /\ path \in Nat
          BY <3>1
        <5>3. QED
          BY <3>1, <5>1, <5>2 DEF NewTailer, TailRow
      <4>3. QED
        BY <4>1, <4>2
    <3>3. TailTypeOK' /\ TailHolds'
      BY <1>1, <3>1, <3>2 DEF TailTypeOK, TailHolds, fileVars
    <3>4. QED
      BY <1>1, <3>1, <3>2, <3>3 DEF ReadIsRecorded
  <2>4. ASSUME NEW late \in BOOLEAN, Read(late) 
        PROVE  /\ TailTypeOK' /\ TailHolds' /\ taken' \subseteq acked' \cup ToSet(tail'.pending)
               /\ tail.pc = "upload" => tail' = tail
    <3>1. /\ \E lines \in Seq(LineSet) : tail'.pending = tail.pending \o lines /\ taken' = taken \cup ToSet(lines)
          /\ tail' \in TailRow /\ tail'.file = tail.file
          /\ TailHolds' /\ UNCHANGED <<fileVars, acked>> /\ tail.pc = "idle"
      BY <1>1, <2>4, ReadStep DEF Read
    <3>2. PICK lines \in Seq(LineSet) : tail'.pending = tail.pending \o lines /\ taken' = taken \cup ToSet(lines)
      BY <3>1
    <3>3. ToSet(tail'.pending) = ToSet(tail.pending) \cup ToSet(lines) /\ ToSet(lines) \subseteq LineSet
      BY <1>1, <3>2, SetOfLines DEF TailRow
    <3>4. TailTypeOK'
      BY <1>1, <3>1, <3>2, <3>3 DEF TailTypeOK, fileVars
    <3>5. QED
      BY <1>1, <3>1, <3>2, <3>3, <3>4 DEF ReadIsRecorded
  <2>5. QED
    BY <2>1, <2>2, <2>3, <2>4 DEF TailStep
<1>5. LogTypeOK'
  BY <1>1, <1>2, <1>4 DEF LogTypeOK, relayVars, faultVars
<1>6. RequestsHold'
  <2>1. fate' = fate /\ req' = req
    BY <1>2 DEF relayVars
  <2>2. \A q \in Appends : req[q].client => tail' = tail
    BY <1>1, <1>4 DEF RequestsHold
  <2>3. QED
    BY <1>1, <1>3, <2>1, <2>2 DEF RequestsHold
<1>7. ReadIsRecorded'
  <2>1. \A m \in acked' : Covered(m)'
    BY <1>1, <1>2, <1>3 DEF ReadIsRecorded, Covered
  <2>2. QED
    BY <1>4, <2>1 DEF ReadIsRecorded, Covered
<1>8. RelayAccounted'
  BY <1>1, <1>2 DEF RelayAccounted, InRelay, Line, relayVars
<1>9. QED
  BY <1>5, <1>6, <1>7, <1>8 DEF LogInv

(* A chunk is uploaded.                                                     *)
LEMMA AppendStep == ASSUME LogInv, NEW q \in Appends, AppendChunk(q) PROVE LogInv'
<1> DEFINE row == [pc |-> "chat", lines |-> tail.pending, todo |-> {}, client |-> TRUE]
<1>1. LogTypeOK /\ RequestsHold /\ ReadIsRecorded /\ RelayAccounted /\ TailTypeOK /\ TailHolds /\ tail \in TailRow
  BY DEF LogInv, LogTypeOK, TailTypeOK
<1>2. /\ tail.pc = "flush" /\ req[q].pc = "idle" /\ tail' = [tail EXCEPT !.pc = "upload"]
      /\ req' = [req EXCEPT ![q] = row]
      /\ UNCHANGED <<fileVars, acked, taken, relayVars, relayOn, faultVars>>
  BY DEF AppendChunk, Doing
<1>3. tail' \in TailRow /\ tail'.pc = "upload" /\ tail'.pending = tail.pending /\ tail'.file = tail.file /\ tail.pending # <<>>
  BY <1>1, <1>2 DEF TailRow, TailHolds
<1>4. row \in RequestRow /\ row.pc = "chat" /\ row.lines = tail.pending /\ row.client /\ "chat" \in Parsing /\ "chat" \notin Relaying
  BY <1>1 DEF RequestRow, TailRow, Parsing, Relaying
<1> HIDE DEF row
<1>5. \A p \in Appends : req'[p] = IF p = q THEN row ELSE req[p]
  BY <1>1, <1>2 DEF LogTypeOK
<1>6. \A m : Covered(m) <=> Covered(m)'
  BY <1>2 DEF Covered, relayVars, faultVars
<1>7. LogTypeOK'
  <2>1. TailTypeOK' /\ TailHolds'
    BY <1>1, <1>2, <1>3 DEF TailTypeOK, TailHolds, fileVars
  <2>2. req' \in [Appends -> RequestRow]
    BY <1>1, <1>2, <1>4 DEF LogTypeOK
  <2>3. QED
    BY <1>1, <1>2, <2>1, <2>2 DEF LogTypeOK, relayVars, faultVars
<1>8. RequestsHold'
  <2>1. \A p \in Appends : ~req[p].client
    BY <1>1, <1>2 DEF RequestsHold
  <2>2. \A p \in Appends : req'[p].client => p = q
    BY <1>5, <2>1
  <2>3. fate' = fate /\ tail'.pc = "upload" /\ "chat" \notin {"idle", "resend", "delete"}
    BY <1>2, <1>3 DEF relayVars
  <2>4. \A p \in Appends : p # q => req'[p] = req[p]
    BY <1>5
  <2>5. req'[q] = row
    BY <1>5
  <2>6. QED
    BY <1>1, <1>3, <1>4, <1>6, <2>2, <2>3, <2>4, <2>5 DEF RequestsHold
<1>9. ReadIsRecorded'
  <2>1. \A m \in acked' : Covered(m)'
    BY <1>1, <1>2, <1>6 DEF ReadIsRecorded, Covered
  <2>2. QED
    BY <1>1, <1>2, <1>3, <2>1 DEF ReadIsRecorded, Covered
<1>10. RelayAccounted'
  <2>1. \A p \in Appends : InRelay(p) \subseteq InRelay(p)'
    BY <1>2, <1>5 DEF InRelay, Line
  <2>2. QED
    BY <1>1, <1>2, <2>1 DEF RelayAccounted, relayVars
<1>11. QED
  BY <1>7, <1>8, <1>9, <1>10 DEF LogInv



(* The upload fails or times out, or a process dies.                        *)
LEMMA FaultStep == ASSUME LogInv, UploadLost \/ RestartControlPlane \/ RestartAgent PROVE LogInv'
<1>1. LogTypeOK /\ RequestsHold /\ ReadIsRecorded /\ RelayAccounted /\ TailTypeOK /\ TailHolds /\ tail \in TailRow
  BY DEF LogInv, LogTypeOK, TailTypeOK
<1>2. NoRequest \in RequestRow /\ NoRequest.pc = "idle" /\ NoRequest.lines = <<>> /\ NoRequest.client = FALSE
      /\ "idle" \notin Parsing \cup Relaying
  BY DEF NoRequest, RequestRow, Parsing, Relaying
<1>3. UNCHANGED <<chat, relayPending, relayOn, expired, unparsed, fileVars, acked>>
  BY DEF UploadLost, RestartControlPlane, RestartAgent, UploadFails, StopAgent, relayVars, tailVars
<1>4. \A m : Covered(m) <=> Covered(m)'
  BY <1>3 DEF Covered
<1>5. TailTypeOK' /\ TailHolds' /\ taken' \subseteq acked' \cup ToSet(tail'.pending)
  <2>1. CASE UploadFails
    <3>1. tail' = [tail EXCEPT !.pc = "idle"] /\ taken' = taken
      BY <2>1 DEF UploadFails
    <3>2. tail' \in TailRow /\ tail'.pc = "idle" /\ tail'.pending = tail.pending /\ tail'.file = tail.file
      BY <1>1, <3>1 DEF TailRow
    <3>3. QED
      BY <1>1, <1>3, <3>1, <3>2 DEF TailTypeOK, TailHolds, ReadIsRecorded, fileVars
  <2>2. CASE UNCHANGED tailVars
    BY <1>1, <1>3, <2>2 DEF TailTypeOK, TailHolds, ReadIsRecorded, fileVars, tailVars
  <2>3. CASE StopAgent
    <3>1. tail' = NewTailer /\ taken' = acked
      BY <2>3 DEF StopAgent
    <3>2. <<>> \in Seq(LineSet) /\ NewTailer \in TailRow /\ NewTailer.pc = "idle" /\ NewTailer.file = 0
      <4>1. <<>> \in Seq(LineSet)
        OBVIOUS
      <4>2. QED
        BY <4>1 DEF NewTailer, TailRow
    <3>3. Len(files) \in Nat
      BY <1>1 DEF TailTypeOK
    <3>4. QED
      BY <1>1, <1>3, <3>1, <3>2, <3>3 DEF TailTypeOK, TailHolds, fileVars
  <2>4. QED
    BY <2>1, <2>2, <2>3 DEF UploadLost, RestartControlPlane, RestartAgent, tailVars
<1>6. ReadIsRecorded'
  <2>1. \A m \in acked' : Covered(m)'
    BY <1>1, <1>3, <1>4 DEF ReadIsRecorded, Covered
  <2>2. QED
    BY <1>5, <2>1 DEF ReadIsRecorded, Covered
<1>7. CASE UploadLost \/ RestartAgent
  <2>1. req' = Unheard /\ fate' = fate
    BY <1>7 DEF UploadLost, RestartAgent, relayVars
  <2>2. \A q \in Appends : /\ req'[q] \in RequestRow /\ req'[q].pc = req[q].pc /\ req'[q].lines = req[q].lines
                           /\ req'[q].todo = req[q].todo /\ ~req'[q].client
    BY <1>1, <2>1 DEF Unheard, LogTypeOK, RequestRow
  <2>3. req' \in [Appends -> RequestRow]
    BY <2>1, <2>2 DEF Unheard
  <2>4. LogTypeOK'
    BY <1>1, <1>3, <1>5, <2>1, <2>3 DEF LogTypeOK
  <2>5. RequestsHold'
    <3>1. \A q \in Appends : req[q].pc \in Relaying => Covered(Head(req[q].lines))
      BY <1>1 DEF RequestsHold
    <3>2. \A q \in Appends : req'[q].pc \in Relaying => Covered(Head(req[q].lines))'
      BY <1>4, <2>2, <3>1
    <3>3. QED
      BY <1>1, <2>1, <2>2, <3>2 DEF RequestsHold
  <2>6. RelayAccounted'
    <3>1. \A q \in Appends : InRelay(q)' = InRelay(q)
      BY <2>2 DEF InRelay, Line
    <3>2. QED
      BY <1>1, <1>3, <2>1, <3>1 DEF RelayAccounted
  <2>7. QED
    BY <1>6, <2>4, <2>5, <2>6 DEF LogInv
<1>8. CASE RestartControlPlane
  <2>1. req' = [q \in Appends |-> NoRequest] /\ fate' = Dropped(UNION {InRelay(q) : q \in Appends})
    BY <1>8 DEF RestartControlPlane
  <2>2. \A q \in Appends : req'[q] = NoRequest
    BY <2>1
  <2>3. /\ fate' \in [LineSet -> Fates] /\ \A m \in LineSet : fate[m] # "none" => fate'[m] # "none"
        /\ \A q \in Appends : \A m \in InRelay(q) : m \in LineSet => fate'[m] # "none"
    BY <1>1, <2>1 DEF Dropped, LogTypeOK, Fates, LineSet
  <2>4. LogTypeOK'
    BY <1>1, <1>2, <1>3, <1>5, <2>1, <2>3 DEF LogTypeOK
  <2>5. RequestsHold'
    BY <1>2, <2>2 DEF RequestsHold, Parsing, Relaying
  <2>6. RelayAccounted'
    BY <1>1, <1>3, <2>3 DEF RelayAccounted, LogTypeOK
  <2>7. QED
    BY <1>6, <2>4, <2>5, <2>6 DEF LogInv
<1>9. QED
  BY <1>7, <1>8

LEMMA LogInvariant == Spec => []LogInv
<1>1. Init => LogInv
  <2> SUFFICES ASSUME Init PROVE LogInv
    OBVIOUS
  <2>1. /\ TailInit /\ req = [q \in Appends |-> NoRequest] /\ chat = {} /\ relayPending = {}
        /\ fate = [m \in 1..MaxLines |-> "none"] /\ expired = {} /\ unparsed = {}
    BY DEF Init
  <2>2. /\ NoRequest \in RequestRow /\ NoRequest.pc = "idle" /\ NoRequest.lines = <<>> /\ NoRequest.client = FALSE
        /\ "idle" \notin Parsing \cup Relaying
    BY DEF NoRequest, RequestRow, Parsing, Relaying
  <2>3. TailTypeOK /\ TailHolds
    <3>1. <<>> \in Seq(LineSet)
      OBVIOUS
    <3>2. NewTailer \in TailRow /\ NewTailer.pc = "idle" /\ NewTailer.file = 0
      BY <3>1 DEF NewTailer, TailRow
    <3>3. << <<>> >> \in Seq(Seq(LineSet)) /\ Len(<< <<>> >>) = 1
      BY <3>1
    <3>4. QED
      BY <2>1, <3>2, <3>3, TailAssumption DEF TailInit, TailTypeOK, TailHolds
  <2>4. LogTypeOK
    BY <2>1, <2>2, <2>3 DEF LogTypeOK, Fates, LineSet
  <2>5. RequestsHold
    BY <2>1, <2>2 DEF RequestsHold
  <2>6. ReadIsRecorded /\ RelayAccounted
    BY <2>1 DEF TailInit, ReadIsRecorded, RelayAccounted
  <2>7. QED
    BY <2>4, <2>5, <2>6 DEF LogInv
<1>2. LogInv /\ [Next]_vars => LogInv'
  <2> SUFFICES ASSUME LogInv, [Next]_vars PROVE LogInv'
    OBVIOUS
  <2>1. CASE UNCHANGED vars
    BY <2>1 DEF vars, fileVars, tailVars, relayVars, faultVars, LogInv, LogTypeOK, TailTypeOK, TailHolds, RequestsHold,
                Covered, ReadIsRecorded, RelayAccounted, InRelay, Line
  <2>2. CASE UpdateChatSettings
    BY <2>2 DEF UpdateChatSettings, fileVars, tailVars, relayVars, faultVars, LogInv, LogTypeOK, TailTypeOK, TailHolds,
                RequestsHold, Covered, ReadIsRecorded, RelayAccounted, InRelay, Line
  <2>3. CASE TailStep \/ (FileStep /\ UNCHANGED <<req, relayVars, relayOn, faultVars>>)
    BY <2>3, TailerStep
  <2>4. CASE UploadLost \/ RestartControlPlane \/ RestartAgent
    BY <2>4, FaultStep
  <2>5. ASSUME NEW q \in Appends, AppendChunk(q) \/ RequestStep(q) \/ ParseFails(q) PROVE LogInv'
    <3>1. CASE AppendChunk(q)
      BY <3>1, AppendStep
    <3>2. CASE ParseFails(q)
      BY <3>2, ParseStep
    <3>3. CASE RequestStep(q)
      BY <3>3, ParseStep, RetryStep, AnswerStep DEF RequestStep
    <3>4. QED
      BY <2>5, <3>1, <3>2, <3>3
  <2>6. QED
    BY <2>1, <2>2, <2>3, <2>4, <2>5 DEF Next
<1>3. QED
  BY <1>1, <1>2, PTL DEF Spec

(* Whatever uploads fail, time out or are answered twice, and however the   *)
(* file is rotated and truncated meanwhile, the agent forgets a line it has *)
(* read only when its second has a chat event or its parsing was given up   *)
(* (logtail, and append, parseChat and prune of logs.service.ts).           *)
THEOREM ReadLinesAreRecorded == Spec => []ReadIsRecorded
<1>1. LogInv => ReadIsRecorded
  BY DEF LogInv
<1>2. QED
  BY <1>1, LogInvariant, PTL

(* A recorded chat line has been relayed, moderated or dropped, waits for a *)
(* retry, or is in a request that still relays it: no interleaving of the   *)
(* requests and of their retries loses one without a trace                  *)
(* (relayPlayerChat and retryChatRelays).                                   *)
THEOREM RelaysAreAccounted == Spec => []RelayAccounted
<1>1. LogInv => RelayAccounted
  BY DEF LogInv
<1>2. QED
  BY <1>1, LogInvariant, PTL

\* What was acknowledged and what is held was read since the agent was started.
HeldWasRead == acked \subseteq taken /\ ToSet(tail.pending) \subseteq taken

(* Steps that leave the tailer's lines alone.                               *)
LEMMA LinesUntouched ==
    ASSUME HeldWasRead, UNCHANGED <<acked, taken>>, tail'.pending \in {tail.pending, <<>>}
    PROVE  HeldWasRead' /\ IntakeStep
<1>1. ToSet(tail'.pending) \subseteq ToSet(tail.pending)
  BY SetOfLines
<1>2. QED
  BY <1>1 DEF HeldWasRead, IntakeStep

(* The answer to a chunk acknowledges all that was read, none of which the  *)
(* request has left out.                                                    *)
LEMMA AnswerTakesAll ==
    ASSUME LogInv, HeldWasRead, NEW q \in Appends, NEW upto \in 0..Oldest, Answer(q, upto)
    PROVE  HeldWasRead' /\ IntakeStep
<1>1. CASE req[q].client
  <2>1. /\ acked' = acked \cup ToSet(tail.pending) /\ taken' = taken /\ req[q].pc = "done"
        /\ tail' = [tail EXCEPT !.pending = <<>>, !.pc = IF tail.replaced THEN "switch" ELSE "idle"]
    BY <1>1 DEF Answer, Uploaded, Doing
  <2>2. tail \in TailRow /\ req[q].lines = <<>>
    BY <2>1 DEF LogInv, LogTypeOK, TailTypeOK, RequestsHold, Parsing
  <2>3. tail'.pending = <<>> /\ ToSet(<<>>) = {}
    BY <2>1, <2>2, SetOfLines DEF TailRow
  <2>4. acked' = taken
    BY <2>1 DEF HeldWasRead, LogInv, ReadIsRecorded
  <2>5. \A m \in taken : Covered(m)
    <3>1. \A m \in acked : Covered(m)
      BY DEF LogInv, ReadIsRecorded
    <3>2. \A m \in ToSet(tail.pending) : Covered(m)
      BY <1>1, <2>2, <2>3 DEF LogInv, RequestsHold
    <3>3. QED
      BY <3>1, <3>2 DEF LogInv, ReadIsRecorded
  <2>6. QED
    BY <2>1, <2>3, <2>4, <2>5 DEF HeldWasRead, IntakeStep
<1>2. CASE ~req[q].client
  <2>1. UNCHANGED <<acked, taken, tail>>
    BY <1>2 DEF Answer, tailVars
  <2>2. QED
    BY <2>1, LinesUntouched
<1>3. QED
  BY <1>1, <1>2

(* Every step reads, acknowledges or forgets as the agent may.              *)
LEMMA IntakeSteps ==
    ASSUME LogInv, HeldWasRead, [Next]_vars
    PROVE  HeldWasRead' /\ [IntakeStep]_<<taken, acked>>
<1>1. tail \in TailRow /\ TailTypeOK
  BY DEF LogInv, LogTypeOK, TailTypeOK
<1>2. ASSUME UNCHANGED tailVars PROVE HeldWasRead' /\ IntakeStep
  BY <1>2, LinesUntouched DEF tailVars
<1>3. ASSUME UploadFails PROVE HeldWasRead' /\ IntakeStep
  <2>1. UNCHANGED <<acked, taken>> /\ tail' = [tail EXCEPT !.pc = "idle"]
    BY <1>3 DEF UploadFails
  <2>2. tail'.pending = tail.pending
    BY <1>1, <2>1 DEF TailRow
  <2>3. QED
    BY <2>1, <2>2, LinesUntouched
<1>4. CASE TailStep
  <2>1. CASE Open \/ SwitchToReplacement
    <3>1. UNCHANGED <<acked, taken>>
      BY <2>1 DEF Open, SwitchToReplacement
    <3>2. tail'.pending \in {tail.pending, <<>>}
      BY <1>1, <2>1 DEF Open, SwitchToReplacement, NewTailer, TailRow
    <3>3. QED
      BY <3>1, <3>2, LinesUntouched
  <2>2. ASSUME NEW late \in BOOLEAN, Read(late) PROVE HeldWasRead' /\ IntakeStep
    <3>1. PICK lines \in Seq(LineSet) :
              tail'.pending = tail.pending \o lines /\ taken' = taken \cup ToSet(lines)
      BY <1>1, <2>2, ReadStep
    <3>2. acked' = acked /\ tail.pending \in Seq(LineSet)
      BY <1>1, <2>2 DEF Read, TailRow
    <3>3. ToSet(tail'.pending) = ToSet(tail.pending) \cup ToSet(lines)
      BY <3>1, <3>2, SetOfLines
    <3>4. QED
      BY <3>1, <3>2, <3>3 DEF HeldWasRead, IntakeStep
  <2>3. QED
    BY <1>4, <2>1, <2>2 DEF TailStep
<1>5. CASE FileStep \/ UpdateChatSettings
  BY <1>2, <1>5 DEF FileStep, WriteLine, Rotate, CreateFile, Truncate, UpdateChatSettings
<1>6. CASE UploadLost
  BY <1>3, <1>6 DEF UploadLost
<1>7. CASE RestartControlPlane
  BY <1>2, <1>3, <1>7 DEF RestartControlPlane
<1>8. CASE RestartAgent
  <2>1. tail' = NewTailer /\ taken' = acked /\ acked' = acked
    BY <1>8 DEF RestartAgent, StopAgent
  <2>2. tail'.pending = <<>> /\ ToSet(<<>>) = {}
    BY <2>1, SetOfLines DEF NewTailer
  <2>3. QED
    BY <2>1, <2>2 DEF HeldWasRead, IntakeStep
<1>9. ASSUME NEW q \in Appends, AppendChunk(q) PROVE HeldWasRead' /\ IntakeStep
  <2>1. UNCHANGED <<acked, taken>> /\ tail' = [tail EXCEPT !.pc = "upload"]
    BY <1>9 DEF AppendChunk
  <2>2. tail'.pending = tail.pending
    BY <1>1, <2>1 DEF TailRow
  <2>3. QED
    BY <2>1, <2>2, LinesUntouched
<1>10. ASSUME NEW q \in Appends, ParseFails(q) PROVE HeldWasRead' /\ IntakeStep
  BY <1>2, <1>10 DEF ParseFails
<1>11. ASSUME NEW q \in Appends, RequestStep(q) PROVE HeldWasRead' /\ IntakeStep
  <2>1. ASSUME NEW upto \in 0..Oldest, Answer(q, upto) PROVE HeldWasRead' /\ IntakeStep
    BY <2>1, AnswerTakesAll
  <2>2. CASE CheckDuplicate(q) \/ CreateEvent(q) \/ NotePending(q) \/ RetryRead(q) \/ DeletePending(q)
    BY <1>2, <2>2 DEF CheckDuplicate, CreateEvent, NotePending, RetryRead, DeletePending
  <2>3. ASSUME NEW hit \in BOOLEAN, ModerateChat(q, hit) PROVE HeldWasRead' /\ IntakeStep
    BY <1>2, <2>3 DEF ModerateChat
  <2>4. ASSUME NEW ok \in BOOLEAN, NEW arrived \in BOOLEAN, RelayLine(q, ok, arrived) \/ Resend(q, ok, arrived)
        PROVE  HeldWasRead' /\ IntakeStep
    BY <1>2, <2>4 DEF RelayLine, Resend
  <2>5. QED
    BY <1>11, <2>1, <2>2, <2>3, <2>4 DEF RequestStep
<1>12. CASE UNCHANGED vars
  BY <1>2, <1>12 DEF vars
<1>13. QED
  BY <1>4, <1>5, <1>6, <1>7, <1>8, <1>9, <1>10, <1>11, <1>12 DEF Next

(* The agent has all it read acknowledged at once, and only when every line *)
(* of it is recorded or given up; short of that it forgets a line only by   *)
(* dying (logtail's flush and append of logs.service.ts).                   *)
THEOREM ChunksAreTakenWhole == Spec => WholeChunks
<1>1. Init => HeldWasRead
  BY SetOfLines DEF Init, TailInit, NewTailer, HeldWasRead
<1>2. LogInv /\ HeldWasRead /\ [Next]_vars => HeldWasRead' /\ [IntakeStep]_<<taken, acked>>
  BY IntakeSteps
<1>3. QED
  BY <1>1, <1>2, LogInvariant, PTL DEF Spec, WholeChunks

-----------------------------------------------------------------------------
(* The page that follows a log.                                            *)

LogRow == [server : Watched, at : Nat, id : RowIds]
Mine == {r \in page.shown : r.server = page.server}
AllRows == stored \cup page.shown \cup fetch.rows

ViewTypeOK ==
    /\ stored \subseteq LogRow /\ IsFiniteSet(stored) /\ stamp \in Nat
    /\ page \in [server : Watched, latest : Nat, shown : SUBSET LogRow, paused : BOOLEAN]
    /\ IsFiniteSet(page.shown)
    /\ fetch \in [pc : {"idle", "asked", "answered"}, server : Watched \cup {"none"},
                  initial : BOOLEAN, after : Nat, rows : SUBSET LogRow]
    /\ IsFiniteSet(fetch.rows)
    /\ skipped \in BOOLEAN

\* A row is one row wherever it is, its id was given out, and no time is later than now.
RowsAgree ==
    /\ \A r, o \in AllRows : r.id = o.id => r = o
    /\ \A r \in AllRows : r.id \in usedIds /\ r.at <= stamp
    /\ page.latest \in usedIds \cup {0}

\* A page with rows of its server has no other poll in flight than its own next one.
PollContinues ==
    Mine # {} => \/ fetch.pc = "idle"
                 \/ /\ fetch.server = page.server /\ ~fetch.initial /\ fetch.after = page.latest

\* No row that is shown is later than the last row of the page, and when one is earlier the
\* last row is shown itself.
LatestIsLast ==
    ~skipped /\ Mine # {} =>
        \A r \in stored : r.id = page.latest =>
            /\ r.server = page.server
            /\ \A a \in Mine : a.at <= r.at /\ (a.at < r.at => r \in Mine)

\* An answer has no hole, and continues what is shown without one.
AnswerContinues ==
    fetch.pc = "answered" =>
        /\ \A r \in fetch.rows : r.server = fetch.server
        /\ \A r \in stored, a, b \in fetch.rows :
               r.server = fetch.server /\ a.at < r.at /\ r.at < b.at => r \in fetch.rows
        /\ ~skipped => \A a \in Mine, b \in fetch.rows :
               /\ a.at <= b.at
               /\ \A r \in stored : r.server = page.server /\ a.at < r.at /\ r.at < b.at => r \in Mine \cup fetch.rows

ViewInv == ViewTypeOK /\ RowsAgree /\ PollContinues /\ LatestIsLast /\ AnswerContinues /\ NoHole

(* Of the first rows the earlier ones are among the first, of the last rows *)
(* the later ones; and a set of rows that is not empty has a newest one.    *)
LEMMA FirstAndLastRows ==
    ASSUME NEW rows \in SUBSET LogRow, IsFiniteSet(rows), NEW n \in Nat
    PROVE  /\ FirstRows(rows, n) \subseteq rows /\ LastRows(rows, n) \subseteq rows
           /\ \A r \in FirstRows(rows, n), o \in rows : o.at < r.at => o \in FirstRows(rows, n)
           /\ \A r \in LastRows(rows, n), o \in rows : r.at < o.at => o \in LastRows(rows, n)
<1>0. \A r \in rows : r.at \in Nat /\ r.id \in Nat
  BY LogViewAssumption DEF LogRow
<1>1. \A s \in SUBSET rows, t \in SUBSET rows : s \subseteq t => Cardinality(s) \in Nat /\ Cardinality(t) \in Nat /\ Cardinality(s) <= Cardinality(t)
  BY FS_Subset, FS_CardinalityType
<1>2. ASSUME NEW r \in FirstRows(rows, n), NEW o \in rows, o.at < r.at PROVE o \in FirstRows(rows, n)
  <2> DEFINE s == {p \in rows : Before(p, o)}
             t == {p \in rows : Before(p, r)}
  <2>1. s \subseteq t
    BY <1>0, <1>2 DEF Before, FirstRows
  <2>2. Cardinality(t) < n
    BY DEF FirstRows
  <2>3. s \in SUBSET rows /\ t \in SUBSET rows
    OBVIOUS
  <2> HIDE DEF s, t
  <2>4. Cardinality(s) < n
    BY <1>1, <2>1, <2>2, <2>3
  <2>5. QED
    BY <2>4 DEF FirstRows, s
<1>3. ASSUME NEW r \in LastRows(rows, n), NEW o \in rows, r.at < o.at PROVE o \in LastRows(rows, n)
  <2> DEFINE s == {p \in rows : Before(o, p)}
             t == {p \in rows : Before(r, p)}
  <2>1. s \subseteq t
    BY <1>0, <1>3 DEF Before, LastRows
  <2>2. Cardinality(t) < n
    BY DEF LastRows
  <2>3. s \in SUBSET rows /\ t \in SUBSET rows
    OBVIOUS
  <2> HIDE DEF s, t
  <2>4. Cardinality(s) < n
    BY <1>1, <2>1, <2>2, <2>3
  <2>5. QED
    BY <2>4 DEF LastRows, s
<1>4. QED
  BY <1>2, <1>3 DEF FirstRows, LastRows

LEMMA NewestRow ==
    ASSUME NEW rows \in SUBSET LogRow, IsFiniteSet(rows), rows # {}
    PROVE  Newest(rows) \in rows /\ \A r \in rows : r.at <= Newest(rows).at
<1>0. \A r \in rows : r.at \in Nat /\ r.id \in Nat
  BY LogViewAssumption DEF LogRow
<1> DEFINE after(r) == {o \in rows : Before(r, o)}
           count(r) == Cardinality(after(r))
           counts == {count(r) : r \in rows}
           R == {p \in Nat \X Nat : p[1] < p[2]}
<1>1. \A r \in rows : count(r) \in Nat
  BY FS_Subset, FS_CardinalityType
<1>2. \E m \in counts : \A k \in counts : <<k, m>> \notin R
  <2>1. R = OpToRel(<, Nat)
    BY DEF OpToRel
  <2>2. IsWellFoundedOn(R, Nat)
    BY <2>1, NatLessThanWellFounded
  <2>3. counts \subseteq Nat /\ counts # {}
    BY <1>1
  <2> HIDE DEF R, counts
  <2>4. QED
    BY <2>2, <2>3, WFMin
<1>3. PICK r \in rows : \A o \in rows : count(r) <= count(o)
  <2>1. PICK r \in rows : \A o \in rows : <<count(o), count(r)>> \notin R
    BY <1>2
  <2>2. \A x, y \in Nat : <<y, x>> \notin R => x <= y
    OBVIOUS
  <2> HIDE DEF count, R
  <2>3. QED
    BY <1>1, <2>1, <2>2
<1>4. ASSUME NEW o \in rows, Before(r, o) PROVE FALSE
  <2>1. after(o) \subseteq after(r) /\ o \in after(r) /\ o \notin after(o) /\ after(r) \subseteq rows
    BY <1>0, <1>4 DEF Before
  <2> HIDE DEF after
  <2>2. IsFiniteSet(after(r)) /\ after(o) \in SUBSET after(r)
    BY <2>1, FS_Subset
  <2>3. Cardinality(after(o)) <= Cardinality(after(r)) /\ Cardinality(after(r)) # Cardinality(after(o))
    BY <2>1, <2>2, FS_Subset
  <2>4. QED
    BY <1>1, <1>3, <2>3
<1>5. Newest(rows) \in rows /\ \A o \in rows : ~Before(Newest(rows), o)
  BY <1>4 DEF Newest
<1>6. QED
  BY <1>0, <1>5 DEF Before



(* A row is stored, rows are pruned, and time passes.                       *)
LEMMA RowsStep ==
    ASSUME ViewInv
    PROVE  /\ \A server \in Watched, id \in RowIds : StoreRow(server, id) => ViewInv'
           /\ \A before \in Nat : PruneRows(before) => ViewInv'
           /\ NextStamp => ViewInv'
<1>0. ViewTypeOK /\ RowsAgree /\ PollContinues /\ LatestIsLast /\ AnswerContinues /\ NoHole
  BY DEF ViewInv
<1>1. ASSUME NEW server \in Watched, NEW id \in RowIds, StoreRow(server, id) PROVE ViewInv'
  <2> DEFINE row == [server |-> server, at |-> stamp, id |-> id]
  <2>1. /\ id \notin usedIds /\ usedIds' = usedIds \cup {id} /\ stored' = stored \cup {row}
        /\ UNCHANGED <<stamp, page, fetch, skipped>>
    BY <1>1 DEF StoreRow
  <2>2. row \in LogRow /\ row.at = stamp /\ row.id = id /\ row.server = server /\ id # 0
    BY <1>0, LogViewAssumption DEF ViewTypeOK, LogRow
  <2> HIDE DEF row
  <2>3. IsFiniteSet(stored')
    BY <1>0, <2>1, FS_AddElement DEF ViewTypeOK
  <2>4. ViewTypeOK'
    BY <1>0, <2>1, <2>2, <2>3 DEF ViewTypeOK
  <2>5. AllRows' = AllRows \cup {row} /\ Mine' = Mine
    BY <2>1 DEF AllRows, Mine
  <2>6. RowsAgree'
    <3>1. \A r \in AllRows : r.id # row.id
      BY <1>0, <2>1, <2>2 DEF RowsAgree
    <3>2. row.at <= stamp
      BY <1>0, <2>2 DEF ViewTypeOK
    <3>3. QED
      BY <1>0, <2>1, <2>2, <2>5, <3>1, <3>2 DEF RowsAgree
  <2>7. PollContinues'
    BY <1>0, <2>1, <2>5 DEF PollContinues
  <2>8. page.latest # row.id
    BY <1>0, <2>1, <2>2 DEF RowsAgree
  <2>9. LatestIsLast'
    BY <1>0, <2>1, <2>5, <2>8 DEF LatestIsLast
  <2>10. \A b \in AllRows : ~(row.at < b.at)
    <3>1. \A b \in AllRows : b.at <= stamp /\ b.at \in Nat
      BY <1>0 DEF RowsAgree, AllRows, ViewTypeOK, LogRow
    <3>2. QED
      BY <1>0, <2>2, <3>1 DEF ViewTypeOK
  <2>11. \A b \in Mine \cup fetch.rows : b \in AllRows
    BY DEF Mine, AllRows
  <2>12. AnswerContinues'
    BY <1>0, <2>1, <2>5, <2>10, <2>11 DEF AnswerContinues
  <2>13. NoHole'
    BY <1>0, <2>1, <2>5, <2>10, <2>11 DEF NoHole, Mine
  <2>14. QED
    BY <2>4, <2>6, <2>7, <2>9, <2>12, <2>13 DEF ViewInv
<1>2. ASSUME NEW before \in Nat, PruneRows(before) PROVE ViewInv'
  <2>1. stored' \subseteq stored /\ UNCHANGED <<usedIds, stamp, page, fetch, skipped>>
    BY <1>2 DEF PruneRows
  <2>2. IsFiniteSet(stored')
    BY <1>0, <2>1, FS_Subset DEF ViewTypeOK
  <2>3. AllRows' \subseteq AllRows /\ Mine' = Mine
    BY <2>1 DEF AllRows, Mine
  <2>4. ViewTypeOK'
    BY <1>0, <2>1, <2>2 DEF ViewTypeOK
  <2>5. RowsAgree' /\ PollContinues'
    BY <1>0, <2>1, <2>3 DEF RowsAgree, PollContinues
  <2>6. LatestIsLast' /\ AnswerContinues'
    BY <1>0, <2>1, <2>3 DEF LatestIsLast, AnswerContinues
  <2>7. NoHole'
    BY <1>0, <2>1 DEF NoHole
  <2>8. QED
    BY <2>4, <2>5, <2>6, <2>7 DEF ViewInv
<1>3. ASSUME NextStamp PROVE ViewInv'
  <2>1. stamp' = stamp + 1 /\ UNCHANGED <<stored, usedIds, page, fetch, skipped>>
    BY <1>3 DEF NextStamp
  <2>2. ViewTypeOK' /\ AllRows' = AllRows /\ Mine' = Mine
    BY <1>0, <2>1 DEF ViewTypeOK, AllRows, Mine
  <2>3. RowsAgree'
    <3>1. \A b \in AllRows : b.at <= stamp /\ b.at \in Nat
      BY <1>0 DEF RowsAgree, AllRows, ViewTypeOK, LogRow
    <3>2. QED
      BY <1>0, <2>1, <2>2, <3>1 DEF RowsAgree, ViewTypeOK
  <2>4. PollContinues' /\ LatestIsLast' /\ AnswerContinues' /\ NoHole'
    BY <1>0, <2>1, <2>2 DEF PollContinues, LatestIsLast, AnswerContinues, NoHole
  <2>5. QED
    BY <2>2, <2>3, <2>4 DEF ViewInv
<1>4. QED
  BY <1>1, <1>2, <1>3

(* The control plane serves a poll.                                         *)
LEMMA ServeStep == ASSUME ViewInv, ListServes PROVE ViewInv'
<1> DEFINE mine == {r \in stored : r.server = fetch.server}
           cursor == {r \in mine : r.id = fetch.after}
           later == {r \in mine \ cursor : \A c \in cursor : r.at >= c.at}
           answer == ListRows(fetch.server, fetch.after, PageSize)
<1>0. ViewTypeOK /\ RowsAgree /\ PollContinues /\ LatestIsLast /\ AnswerContinues /\ NoHole
  BY DEF ViewInv
<1>1. /\ fetch.pc = "asked" /\ fetch' = [fetch EXCEPT !.pc = "answered", !.rows = answer]
      /\ skipped' = (skipped \/ CursorLost)
      /\ UNCHANGED <<stored, usedIds, stamp, page>>
  BY DEF ListServes
<1>2. answer = IF cursor # {} THEN FirstRows(later, PageSize) ELSE LastRows(mine, PageSize)
  BY DEF ListRows
<1> HIDE DEF answer
<1>3. /\ mine \in SUBSET LogRow /\ IsFiniteSet(mine) /\ later \in SUBSET LogRow /\ IsFiniteSet(later)
      /\ later \subseteq mine /\ mine \subseteq stored /\ PageSize \in Nat
      /\ \A r \in stored : r.at \in Nat /\ r.id \in Nat
  <2>1. mine \subseteq stored /\ later \subseteq stored /\ stored \subseteq LogRow /\ IsFiniteSet(stored)
    BY <1>0 DEF ViewTypeOK
  <2>2. IsFiniteSet(mine) /\ IsFiniteSet(later)
    BY <2>1, FS_Subset
  <2>3. QED
    BY <2>1, <2>2, LogViewAssumption DEF LogRow
<1>4. answer \subseteq mine /\ IsFiniteSet(answer)
  <2>1. answer \subseteq mine
    <3>1. FirstRows(later, PageSize) \subseteq later /\ LastRows(mine, PageSize) \subseteq mine
      BY DEF FirstRows, LastRows
    <3>2. QED
      BY <1>2, <1>3, <3>1
  <2>2. QED
    BY <1>3, <2>1, FS_Subset
<1>5. /\ fetch'.pc = "answered" /\ fetch'.rows = answer /\ fetch'.server = fetch.server
      /\ fetch'.initial = fetch.initial /\ fetch'.after = fetch.after
      /\ fetch' \in [pc : {"idle", "asked", "answered"}, server : Watched \cup {"none"},
                     initial : BOOLEAN, after : Nat, rows : SUBSET LogRow]
  <2>1. answer \in SUBSET LogRow
    BY <1>3, <1>4
  <2>2. QED
    BY <1>0, <1>1, <2>1 DEF ViewTypeOK
<1>6. ViewTypeOK'
  <2>1. skipped' \in BOOLEAN
    BY <1>0, <1>1 DEF ViewTypeOK, CursorLost
  <2>2. QED
    BY <1>0, <1>1, <1>4, <1>5, <2>1 DEF ViewTypeOK
<1>7. RowsAgree' /\ PollContinues'
  <2>1. AllRows' \subseteq AllRows /\ Mine' = Mine
    BY <1>1, <1>3, <1>4, <1>5 DEF AllRows, Mine
  <2>2. QED
    BY <1>0, <1>1, <1>5, <2>1 DEF RowsAgree, PollContinues
<1>8. skipped' = FALSE => skipped = FALSE
  BY <1>0, <1>1 DEF ViewTypeOK
<1>9. LatestIsLast' /\ NoHole'
  BY <1>0, <1>1, <1>8 DEF LatestIsLast, NoHole, Mine
<1>10. \A r \in later, b \in answer : cursor # {} /\ r.at < b.at => r \in answer
  BY <1>2, <1>3, FirstAndLastRows
<1>11. \A r \in mine, a, b \in answer : a.at < r.at /\ r.at < b.at => r \in answer
  <2>1. CASE cursor # {}
    <3>1. answer \subseteq later
      BY <1>2, <2>1 DEF FirstRows
    <3>2. \A r \in mine, a \in later : a.at < r.at => r \in later
      <4>1. ASSUME NEW r \in mine, NEW a \in later, a.at < r.at PROVE \A c \in cursor : c.at < r.at
        <5>1. \A c \in cursor : a.at >= c.at /\ c.at \in Nat
          BY <1>3
        <5>2. a.at \in Nat /\ r.at \in Nat
          BY <1>3
        <5>3. QED
          BY <4>1, <5>1, <5>2
      <4>2. ASSUME NEW r \in mine, NEW a \in later, a.at < r.at PROVE r \in later
        <5>1. \A c \in cursor : c.at < r.at /\ c.at \in Nat /\ r.at \in Nat
          BY <1>3, <4>1, <4>2
        <5>2. QED
          BY <5>1
      <4>3. QED
        BY <4>2
    <3> HIDE DEF later, mine, cursor
    <3>3. QED
      BY <1>10, <2>1, <3>1, <3>2
  <2>2. CASE cursor = {}
    <3>1. answer = LastRows(mine, PageSize)
      BY <1>2, <2>2
    <3> HIDE DEF mine
    <3>2. QED
      BY <1>3, <3>1, FirstAndLastRows
  <2>3. QED
    BY <2>1, <2>2
<1>12. ASSUME ~skipped', NEW a \in Mine, NEW b \in answer
       PROVE  /\ a.at <= b.at
              /\ \A r \in stored : r.server = page.server /\ a.at < r.at /\ r.at < b.at => r \in Mine \cup answer
  <2>1. ~skipped /\ ~CursorLost /\ fetch.server = page.server /\ fetch.after = page.latest
    BY <1>0, <1>1, <1>12 DEF PollContinues
  <2>2. PICK c \in stored : c.id = fetch.after
    BY <2>1 DEF CursorLost, Mine
  <2>3. c.server = page.server /\ \A d \in Mine : d.at <= c.at /\ (d.at < c.at => c \in Mine)
    BY <1>0, <1>12, <2>1, <2>2 DEF LatestIsLast
  <2>4. cursor = {c}
    BY <1>0, <2>1, <2>2, <2>3 DEF RowsAgree, AllRows
  <2>5. b \in later /\ b \in stored
    BY <1>2, <1>3, <1>12, <2>4 DEF FirstRows
  <2>6. a.at \in Nat /\ b.at \in Nat /\ c.at \in Nat /\ c.at <= b.at
    BY <1>0, <1>3, <2>2, <2>4, <2>5 DEF Mine, ViewTypeOK, LogRow
  <2>7. ASSUME NEW r \in stored, r.server = page.server, a.at < r.at, r.at < b.at PROVE r \in Mine \cup answer
    <3>0. r.at \in Nat
      BY <1>3
    <3>1. CASE r.at < c.at
      <4>1. c \in Mine
        BY <2>3, <2>6, <2>7, <3>0, <3>1
      <4>2. QED
        BY <1>0, <2>1, <2>7, <3>1, <4>1 DEF NoHole, Mine
    <3>2. CASE r = c
      BY <2>3, <2>7, <3>2
    <3>3. CASE r # c /\ r.at >= c.at
      <4>1. r \in later
        BY <2>1, <2>4, <2>7, <3>3
      <4> HIDE DEF later, cursor
      <4>2. QED
        BY <1>10, <2>4, <2>7, <4>1
    <3>4. QED
      BY <2>6, <3>0, <3>1, <3>2, <3>3
  <2>8. QED
    BY <2>3, <2>6, <2>7
<1>13. AnswerContinues'
  <2>1. Mine' = Mine /\ page' = page /\ stored' = stored
    BY <1>1 DEF Mine
  <2>2. \A r \in answer : r.server = fetch.server
    BY <1>4
  <2>3. \A r \in stored : r.server = fetch.server => r \in mine
    OBVIOUS
  <2> HIDE DEF mine, cursor, later
  <2>4. QED
    BY <1>5, <1>11, <1>12, <2>1, <2>2, <2>3 DEF AnswerContinues
<1>14. QED
  BY <1>6, <1>7, <1>9, <1>13 DEF ViewInv



(* The page polls, is paused, or shows another server.                      *)
LEMMA PageStep ==
    ASSUME ViewInv, LoadLogs \/ LogsFail \/ TogglePause \/ \E server \in Watched : SelectServer(server)
    PROVE  ViewInv'
<1>0. ViewTypeOK /\ RowsAgree /\ PollContinues /\ LatestIsLast /\ AnswerContinues /\ NoHole
  BY DEF ViewInv
<1> DEFINE FetchRow == [pc : {"idle", "asked", "answered"}, server : Watched \cup {"none"},
                        initial : BOOLEAN, after : Nat, rows : SUBSET LogRow]
<1>1. NoFetch \in FetchRow /\ NoFetch.pc = "idle" /\ NoFetch.rows = {}
  BY DEF NoFetch
<1>2. IsFiniteSet({}) /\ page.server \in Watched /\ page.latest \in Nat
  BY <1>0, FS_EmptySet DEF ViewTypeOK
<1>3. ASSUME page' = page, skipped' = skipped, UNCHANGED <<stored, usedIds, stamp>>,
             fetch' = NoFetch \/ fetch' = Asks(page.server, FALSE, page.latest)
      PROVE  ViewInv'
  <2>1. /\ fetch' \in FetchRow /\ fetch'.pc \in {"idle", "asked"} /\ fetch'.rows = {}
        /\ fetch'.pc = "asked" => fetch'.server = page.server /\ ~fetch'.initial /\ fetch'.after = page.latest
    <3>1. CASE fetch' = NoFetch
      BY <1>1, <3>1
    <3>2. CASE fetch' = Asks(page.server, FALSE, page.latest)
      BY <1>2, <3>2 DEF Asks
    <3>3. QED
      BY <1>3, <3>1, <3>2
  <2>2. ViewTypeOK'
    BY <1>0, <1>2, <1>3, <2>1 DEF ViewTypeOK
  <2>3. AllRows' \subseteq AllRows /\ Mine' = Mine
    BY <1>3, <2>1 DEF AllRows, Mine
  <2>4. RowsAgree' /\ LatestIsLast' /\ NoHole'
    BY <1>0, <1>3, <2>3 DEF RowsAgree, LatestIsLast, NoHole
  <2>5. PollContinues' /\ AnswerContinues'
    BY <1>3, <2>1 DEF PollContinues, AnswerContinues
  <2>6. QED
    BY <2>2, <2>4, <2>5 DEF ViewInv
<1>4. CASE LoadLogs
  BY <1>3, <1>4 DEF LoadLogs
<1>5. CASE LogsFail
  BY <1>3, <1>5 DEF LogsFail
<1>6. CASE TogglePause
  <2>1. page' = [page EXCEPT !.paused = ~page.paused] /\ UNCHANGED <<stored, usedIds, stamp, fetch, skipped>>
    BY <1>6 DEF TogglePause
  <2>2. /\ page' \in [server : Watched, latest : Nat, shown : SUBSET LogRow, paused : BOOLEAN]
        /\ page'.server = page.server /\ page'.latest = page.latest /\ page'.shown = page.shown
    BY <1>0, <2>1 DEF ViewTypeOK
  <2>3. ViewTypeOK'
    BY <1>0, <2>1, <2>2 DEF ViewTypeOK
  <2>4. AllRows' = AllRows /\ Mine' = Mine
    BY <2>1, <2>2 DEF AllRows, Mine
  <2>5. RowsAgree' /\ PollContinues' /\ LatestIsLast' /\ AnswerContinues' /\ NoHole'
    BY <1>0, <2>1, <2>2, <2>4 DEF RowsAgree, PollContinues, LatestIsLast, AnswerContinues, NoHole
  <2>6. QED
    BY <2>3, <2>5 DEF ViewInv
<1>7. ASSUME NEW server \in Watched, SelectServer(server) PROVE ViewInv'
  <2>1. /\ page' = [page EXCEPT !.server = server, !.latest = 0, !.shown = {}]
        /\ fetch' = IF fetch.pc = "idle" /\ ~page.paused THEN Asks(server, TRUE, 0) ELSE fetch
        /\ skipped' = FALSE /\ UNCHANGED <<stored, usedIds, stamp>>
    BY <1>7 DEF SelectServer
  <2>2. /\ page' \in [server : Watched, latest : Nat, shown : SUBSET LogRow, paused : BOOLEAN]
        /\ page'.latest = 0 /\ page'.shown = {}
    BY <1>0, <2>1 DEF ViewTypeOK
  <2>3. fetch' \in FetchRow /\ IsFiniteSet(fetch'.rows) /\ fetch'.rows \subseteq fetch.rows
        /\ (fetch'.pc = "answered" => fetch' = fetch)
    <3>1. CASE fetch' = fetch
      BY <1>0, <3>1 DEF ViewTypeOK
    <3>2. CASE fetch' = Asks(server, TRUE, 0)
      BY <1>2, <3>2 DEF Asks
    <3>3. QED
      BY <2>1, <3>1, <3>2
  <2>4. ViewTypeOK'
    BY <1>0, <1>2, <2>1, <2>2, <2>3 DEF ViewTypeOK
  <2>5. Mine' = {} /\ AllRows' \subseteq AllRows
    BY <2>1, <2>2, <2>3 DEF Mine, AllRows
  <2>6. RowsAgree'
    BY <1>0, <2>1, <2>2, <2>5 DEF RowsAgree
  <2>7. PollContinues' /\ LatestIsLast' /\ NoHole'
    BY <2>2, <2>5 DEF PollContinues, LatestIsLast, NoHole
  <2>8. AnswerContinues'
    BY <1>0, <2>1, <2>3, <2>5 DEF AnswerContinues
  <2>9. QED
    BY <2>4, <2>6, <2>7, <2>8 DEF ViewInv
<1>8. QED
  BY <1>4, <1>5, <1>6, <1>7

(* The answer arrives at the page.                                          *)
LEMMA ArriveStep == ASSUME ViewInv, LogsArrive PROVE ViewInv'
<1>0. ViewTypeOK /\ RowsAgree /\ PollContinues /\ LatestIsLast /\ AnswerContinues /\ NoHole
  BY DEF ViewInv
<1> DEFINE rows == fetch.rows
           both == page.shown \cup rows
           shown == IF fetch.initial THEN rows ELSE LastRows(both, ViewSize)
<1>1. fetch.pc = "answered" /\ fetch' = NoFetch /\ UNCHANGED <<stored, usedIds, stamp, skipped>>
  BY DEF LogsArrive
<1>2. /\ fetch' \in [pc : {"idle", "asked", "answered"}, server : Watched \cup {"none"},
                     initial : BOOLEAN, after : Nat, rows : SUBSET LogRow]
      /\ fetch'.pc = "idle" /\ fetch'.rows = {} /\ IsFiniteSet({})
  BY <1>1, FS_EmptySet DEF NoFetch
<1>3. \A r \in AllRows : r \in LogRow /\ r.at \in Nat /\ r.id \in Nat
  BY <1>0, LogViewAssumption DEF ViewTypeOK, AllRows, LogRow
<1>4. CASE rows = {}
  <2>1. /\ page' \in [server : Watched, latest : Nat, shown : SUBSET LogRow, paused : BOOLEAN]
        /\ page'.server = page.server /\ page'.latest = page.latest
        /\ page'.shown \in {page.shown, {}}
    BY <1>0, <1>4 DEF LogsArrive, ViewTypeOK
  <2>2. ViewTypeOK'
    BY <1>0, <1>1, <1>2, <2>1 DEF ViewTypeOK
  <2>3. AllRows' \subseteq AllRows /\ Mine' \in {Mine, {}}
    BY <1>1, <1>2, <2>1 DEF AllRows, Mine
  <2>4. RowsAgree' /\ PollContinues' /\ LatestIsLast' /\ AnswerContinues'
    BY <1>0, <1>1, <1>2, <2>1, <2>3 DEF RowsAgree, PollContinues, LatestIsLast, AnswerContinues
  <2>5. NoHole'
    BY <1>0, <1>1, <2>1 DEF NoHole
  <2>6. QED
    BY <2>2, <2>4, <2>5 DEF ViewInv
<1>5. CASE rows # {}
  <2> DEFINE last == Newest(rows)
  <2>1. page' = [page EXCEPT !.latest = last.id, !.shown = shown]
    BY <1>5 DEF LogsArrive
  <2>2. last \in rows /\ \A r \in rows : r.at <= last.at
    BY <1>0, <1>5, NewestRow DEF ViewTypeOK
  <2>3. both \in SUBSET LogRow /\ IsFiniteSet(both) /\ rows \subseteq AllRows /\ both \subseteq AllRows /\ ViewSize \in Nat
    BY <1>0, FS_Union, LogViewAssumption DEF ViewTypeOK, AllRows
  <2>4. shown \subseteq both /\ IsFiniteSet(shown)
    <3>1. shown \subseteq both
      BY DEF LastRows
    <3> HIDE DEF shown, both
    <3>2. QED
      BY <2>3, <3>1, FS_Subset
  <2>5. \A r \in shown, o \in both : ~fetch.initial /\ r.at < o.at => o \in shown
    <3> HIDE DEF both
    <3> QED
      BY <2>3, FirstAndLastRows
  <2>6. fetch.initial => shown = rows
    OBVIOUS
  <2> HIDE DEF last, shown
  <2>7. /\ page' \in [server : Watched, latest : Nat, shown : SUBSET LogRow, paused : BOOLEAN]
        /\ page'.server = page.server /\ page'.latest = last.id /\ page'.shown = shown
    <3>1. shown \in SUBSET LogRow /\ last.id \in Nat
      BY <1>3, <2>2, <2>3, <2>4
    <3>2. QED
      BY <1>0, <2>1, <3>1 DEF ViewTypeOK
  <2>8. ViewTypeOK'
    BY <1>0, <1>1, <1>2, <2>4, <2>7 DEF ViewTypeOK
  <2>9. AllRows' \subseteq AllRows
    BY <1>1, <1>2, <2>4, <2>7 DEF AllRows
  <2>10. RowsAgree'
    <3>1. last \in AllRows
      BY <2>2, <2>3
    <3>2. QED
      BY <1>0, <1>1, <2>7, <2>9, <3>1 DEF RowsAgree
  <2>11. PollContinues' /\ AnswerContinues'
    BY <1>2 DEF PollContinues, AnswerContinues
  <2>12. Mine' = {r \in shown : r.server = page.server} /\ Mine' \subseteq Mine \cup rows
    BY <2>4, <2>7 DEF Mine
  <2>13. \A r \in rows : r.server = fetch.server
    BY <1>0, <1>1 DEF AnswerContinues
  <2>14. CASE fetch.server # page.server
    <3>1. Mine' = {}
      BY <1>0, <1>1, <2>12, <2>13, <2>14 DEF PollContinues
    <3>2. QED
      BY <2>7, <2>8, <2>10, <2>11, <3>1 DEF ViewInv, LatestIsLast, NoHole, Mine
  <2>15. CASE fetch.server = page.server /\ ~skipped
    <3>1. \A a \in Mine \cup rows : a.at <= last.at /\ a.at \in Nat /\ a \in both /\ a \in AllRows
      BY <1>0, <1>1, <1>3, <2>2, <2>3, <2>15 DEF AnswerContinues, Mine, AllRows
    <3>2. \A a \in Mine', r \in Mine \cup rows : a.at < r.at => r \in Mine'
      <4>1. \A r \in Mine \cup rows : r.server = page.server
        BY <2>13, <2>15 DEF Mine
      <4>2. CASE fetch.initial
        <5>1. Mine = {}
          BY <1>0, <1>1, <4>2 DEF PollContinues
        <5>2. QED
          BY <2>6, <2>12, <4>1, <4>2, <5>1
      <4>3. CASE ~fetch.initial
        <5>1. \A a \in Mine' : a \in shown
          BY <2>12
        <5> HIDE DEF both
        <5>2. QED
          BY <2>5, <2>12, <3>1, <4>1, <4>3, <5>1
      <4>4. QED
        BY <4>2, <4>3
    <3>3. LatestIsLast'
      <4>1. \A r \in stored : r.id = last.id => r = last
        BY <1>0, <2>2, <2>3 DEF RowsAgree, AllRows
      <4>2. last.server = page.server /\ \A a \in Mine' : a.at <= last.at /\ (a.at < last.at => last \in Mine')
        BY <2>2, <2>12, <2>13, <2>15, <3>1, <3>2
      <4>3. QED
        BY <1>1, <2>7, <4>1, <4>2 DEF LatestIsLast
    <3>4. \A r \in stored, a, b \in Mine \cup rows :
              r.server = page.server /\ a.at < r.at /\ r.at < b.at => r \in Mine \cup rows
      <4> SUFFICES ASSUME NEW r \in stored, NEW a \in Mine \cup rows, NEW b \in Mine \cup rows,
                          r.server = page.server, a.at < r.at, r.at < b.at
                   PROVE  r \in Mine \cup rows
        OBVIOUS
      <4>0. a.at \in Nat /\ b.at \in Nat /\ r.at \in Nat
        BY <1>3, <3>1 DEF AllRows
      <4>1. CASE a \in Mine /\ b \in Mine
        BY <1>0, <2>15, <4>1 DEF NoHole, Mine
      <4>2. CASE a \in Mine /\ b \in rows
        BY <1>0, <1>1, <2>15, <4>2 DEF AnswerContinues
      <4>3. CASE a \in rows /\ b \in rows
        BY <1>0, <1>1, <2>15, <4>3 DEF AnswerContinues
      <4>4. CASE a \in rows /\ b \in Mine
        <5>1. b.at <= a.at
          BY <1>0, <1>1, <2>15, <4>4 DEF AnswerContinues
        <5>2. QED
          BY <4>0, <5>1
      <4>5. QED
        BY <4>1, <4>2, <4>3, <4>4
    <3>5. \A r \in stored, a, b \in Mine' :
              r.server = page.server /\ a.at < r.at /\ r.at < b.at => r \in Mine'
      BY <2>12, <3>2, <3>4
    <3>6. NoHole'
      BY <1>1, <2>7, <3>5 DEF NoHole, Mine
    <3>7. QED
      BY <2>8, <2>10, <2>11, <3>3, <3>6 DEF ViewInv
  <2>16. CASE skipped
    BY <1>1, <2>8, <2>10, <2>11, <2>16 DEF ViewInv, LatestIsLast, NoHole
  <2>17. QED
    BY <2>14, <2>15, <2>16
<1>6. QED
  BY <1>4, <1>5

LEMMA ViewInvariant == LogViewSpec => []ViewInv
<1>1. LogViewInit => ViewInv
  <2> SUFFICES ASSUME LogViewInit PROVE ViewInv
    OBVIOUS
  <2> DEFINE s == CHOOSE w \in Watched : TRUE
  <2>1. s \in Watched
    BY LogViewAssumption
  <2>2. /\ stored = {} /\ usedIds = {} /\ stamp = 1 /\ skipped = FALSE
        /\ page = [server |-> s, latest |-> 0, shown |-> {}, paused |-> FALSE]
        /\ fetch = Asks(s, TRUE, 0)
    BY DEF LogViewInit
  <2> HIDE DEF s
  <2>3. ViewTypeOK
    BY <2>1, <2>2, FS_EmptySet DEF ViewTypeOK, Asks
  <2>4. AllRows = {} /\ Mine = {} /\ page.latest = 0 /\ fetch.pc = "asked" /\ page.shown = {}
    BY <2>2 DEF AllRows, Mine, Asks
  <2>5. QED
    BY <2>2, <2>3, <2>4 DEF ViewInv, RowsAgree, PollContinues, LatestIsLast, AnswerContinues, NoHole
<1>2. ViewInv /\ [LogViewNext]_viewVars => ViewInv'
  <2> SUFFICES ASSUME ViewInv, [LogViewNext]_viewVars PROVE ViewInv'
    OBVIOUS
  <2>1. CASE UNCHANGED viewVars
    BY <2>1 DEF viewVars, ViewInv, ViewTypeOK, RowsAgree, AllRows, PollContinues, LatestIsLast, AnswerContinues, NoHole, Mine
  <2>2. ASSUME NEW before \in 2..stamp, PruneRows(before) PROVE ViewInv'
    <3>1. before \in Nat
      BY DEF ViewInv, ViewTypeOK
    <3>2. QED
      BY <2>2, <3>1, RowsStep
  <2>3. CASE LogsArrive
    BY <2>3, ArriveStep
  <2>4. CASE ListServes
    BY <2>4, ServeStep
  <2>5. QED
    BY <2>1, <2>2, <2>3, <2>4, RowsStep, PageStep DEF LogViewNext
<1>3. QED
  BY <1>1, <1>2, PTL DEF LogViewSpec

(* The page that follows a log has no hole: whatever rows are written and   *)
(* pruned while a poll is in flight, and whichever server is selected       *)
(* meanwhile, unless the page's last row was pruned before the next poll    *)
(* (loadLogs of logs/page.tsx and list of logs.service.ts).                 *)
THEOREM PageHasNoHole == LogViewSpec => []NoHole
<1>1. ViewInv => NoHole
  BY DEF ViewInv
<1>2. QED
  BY <1>1, ViewInvariant, PTL


-----------------------------------------------------------------------------
(* The keyword rules.                                                      *)

Text == Seq(Letters)
RuleRow == [keyword : Text, caseSensitive : BOOLEAN, enabled : BOOLEAN]
ScanRow == [pc : {"idle", "rules", "match", "over"}, prior : Text, searchable : Text,
            size : Nat, rule : RuleRow]

KeywordTypeOK ==
    /\ keywordRule \in RuleRow /\ (keywordRule = NoKeywordRule \/ keywordRule.keyword \in Phrases)
    /\ scanTail \in Text /\ logText \in Text /\ noticed \in BOOLEAN
    /\ scan \in ScanRow /\ (scan.pc \in {"match", "over"} => scan.rule.keyword \in Phrases)

\* The first text ends the second.
Ends(s, t) == Len(s) <= Len(t) /\ \A k \in 1..Len(s) : s[k] = t[Len(t) - Len(s) + k]

\* What is kept ends the log, and is all of it or as long as the tail may be.
TailIsKept ==
    Ends(scanTail, logText) /\ (Len(scanTail) = TailSize \/ scanTail = logText)

\* What is searched ends the log: the chunk, and before it the tail.
SearchedIsLast ==
    scan.pc # "idle" =>
        /\ Ends(scan.searchable, logText) /\ Len(scan.searchable) = Len(scan.prior) + scan.size
        /\ Len(scan.prior) = TailSize \/ Len(scan.searchable) = Len(logText)

MatchIsNoticed ==
    scan.pc = "over" => (noticed <=> Matches(scan.rule, scan.prior, scan.searchable))

KeywordInv == KeywordTypeOK /\ TailIsKept /\ SearchedIsLast /\ MatchIsNoticed

(* A part of a text is a word exactly when it has the letters of the word.  *)
LEMMA PartIsWord ==
    ASSUME NEW s \in Text, NEW w \in Text, NEW i \in 1..Len(s), i + Len(w) - 1 <= Len(s)
    PROVE  SubSeq(s, i, i + Len(w) - 1) = w <=> \A k \in 1..Len(w) : s[i + k - 1] = w[k]
<1> DEFINE n == i + Len(w) - 1
           part == SubSeq(s, i, n)
<1>1. Len(w) \in Nat /\ Len(s) \in Nat /\ i \in Nat /\ n \in 0..Len(s)
  BY DEF Text
<1>2. /\ part \in Text /\ Len(part) = Len(w)
      /\ \A k \in 1..Len(w) : part[k] = s[i + k - 1]
  <2>1. \A k \in i..n : s[k] \in Letters
    BY <1>1 DEF Text
  <2>2. /\ part \in Seq(Letters) /\ Len(part) = IF i <= n THEN n - i + 1 ELSE 0
        /\ \A k \in 1 .. n - i + 1 : part[k] = s[i + k - 1]
    BY <1>1, <2>1, SubSeqProperties DEF Text
  <2>3. QED
    BY <1>1, <2>2 DEF Text
<1> HIDE DEF part
<1>3. part = w <=> \A k \in 1..Len(w) : part[k] = w[k]
  BY <1>1, <1>2, SeqEqual DEF Text
<1>4. QED
  BY <1>2, <1>3 DEF part

(* A text in small letters has the same length.                             *)
LEMMA SmallLetters ==
    ASSUME NEW s \in Text
    PROVE  /\ LowerCase(s) \in Text /\ Len(LowerCase(s)) = Len(s)
           /\ \A k \in 1..Len(s) : LowerCase(s)[k] = Lower[s[k]]
<1>1. LowerCase(s) = [k \in 1..Len(s) |-> Lower[s[k]]] /\ Len(s) \in Nat
  BY DEF LowerCase, Text
<1>2. \A k \in 1..Len(s) : Lower[s[k]] \in Letters
  BY KeywordsAssumption DEF Text
<1>3. QED
  BY <1>1, <1>2, IsASeq DEF Text

(* Numbers that are bounded have a greatest one.                            *)
LEMMA GreatestNumber ==
    ASSUME NEW n \in Nat, NEW S \in SUBSET (1..n), S # {}
    PROVE  \E m \in S : \A x \in S : x <= m
<1> DEFINE R == {p \in Nat \X Nat : p[1] < p[2]}
           T == {k \in 0..n : n - k \in S}
<1>1. IsWellFoundedOn(R, Nat)
  BY NatLessThanWellFounded DEF OpToRel
<1>2. \A t, u \in Nat : <<u, t>> \notin R => t <= u
  OBVIOUS
<1> HIDE DEF R
<1>3. PICK x \in S : TRUE
  OBVIOUS
<1>4. n - x \in 0..n /\ n - (n - x) = x
  BY <1>3
<1>5. T \subseteq Nat /\ n - x \in T
  BY <1>3, <1>4
<1>6. PICK t \in T : \A u \in T : ~(<<u, t>> \in R)
  BY <1>1, <1>5, WFMin
<1>7. \A u \in T : t <= u
  BY <1>2, <1>5, <1>6
<1>8. \A y \in S : n - y \in 0..n /\ n - (n - y) = y /\ y \in Nat
  OBVIOUS
<1>9. \A y \in S : t <= n - y
  BY <1>7, <1>8
<1>10. n - t \in S /\ t \in 0..n
  OBVIOUS
<1>11. \A y \in S : y <= n - t
  BY <1>8, <1>9, <1>10
<1>12. QED
  BY <1>10, <1>11

(* The last occurrence of a word starts where no later one does, and none   *)
(* is told apart from the first letter.                                     *)
LEMMA LastOccurrence ==
    ASSUME NEW s \in Text, NEW w \in Text
    PROVE  LET Found == {i \in 1..Len(s) : i + Len(w) - 1 <= Len(s)
                                           /\ \A k \in 1..Len(w) : s[i + k - 1] = w[k]}
               last == LastIndexOf(s, w)
           IN (Found = {} => last = 0) /\ (Found # {} => last \in Found /\ \A i \in Found : i <= last)
<1> DEFINE Found == {i \in 1..Len(s) : i + Len(w) - 1 <= Len(s)
                                       /\ \A k \in 1..Len(w) : s[i + k - 1] = w[k]}
           Starts == {i \in 1..Len(s) : i + Len(w) - 1 <= Len(s)
                                        /\ SubSeq(s, i, i + Len(w) - 1) = w}
<1>1. Starts = Found
  BY PartIsWord
<1>2. Len(s) \in Nat /\ Found \in SUBSET (1..Len(s))
  BY DEF Text
<1>3. LastIndexOf(s, w) = IF Found = {} THEN 0 ELSE CHOOSE i \in Found : \A j \in Found : j <= i
  <2>1. LastIndexOf(s, w) = IF Starts = {} THEN 0 ELSE CHOOSE i \in Starts : \A j \in Starts : j <= i
    BY DEF LastIndexOf
  <2> HIDE DEF Starts, Found
  <2>2. QED
    BY <1>1, <2>1
<1> HIDE DEF Found
<1>4. Found # {} => \E m \in Found : \A x \in Found : x <= m
  BY <1>2, GreatestNumber
<1>5. QED
  BY <1>3, <1>4 DEF Found

(* What a rule looks for in a text, where its last occurrence starts.       *)
LEMMA Occurrences ==
    ASSUME NEW r \in RuleRow, NEW s \in Text, r.keyword # <<>>,
           NEW prior \in Text
    PROVE  Matches(r, prior, s) <=>
               \E i \in 1..Len(s) :
                   /\ i + Len(r.keyword) - 1 <= Len(s)
                   /\ i + Len(r.keyword) - 1 > Len(prior)
                   /\ \A k \in 1..Len(r.keyword) :
                          IF r.caseSensitive THEN s[i + k - 1] = r.keyword[k]
                          ELSE Lower[s[i + k - 1]] = Lower[r.keyword[k]]
<1> DEFINE key == r.keyword
           haystack == IF r.caseSensitive THEN s ELSE LowerCase(s)
           needle == IF r.caseSensitive THEN key ELSE LowerCase(key)
           Found == {i \in 1..Len(haystack) : i + Len(needle) - 1 <= Len(haystack)
                                   /\ \A k \in 1..Len(needle) : haystack[i + k - 1] = needle[k]}
           last == LastIndexOf(haystack, needle)
           Same(i) == \A k \in 1..Len(key) :
                          IF r.caseSensitive THEN s[i + k - 1] = key[k]
                          ELSE Lower[s[i + k - 1]] = Lower[key[k]]
<1>1. key \in Text /\ Len(key) \in Nat \ {0} /\ r.caseSensitive \in BOOLEAN
  BY DEF RuleRow, Text
<1>2. Len(s) \in Nat /\ Len(prior) \in Nat
  BY DEF Text
<1>3. haystack \in Text /\ needle \in Text /\ Len(haystack) = Len(s) /\ Len(needle) = Len(key)
  BY <1>1, SmallLetters
<1>4. Found = {i \in 1..Len(s) : i + Len(key) - 1 <= Len(s) /\ Same(i)}
  <2>1. ASSUME NEW i \in 1..Len(s), i + Len(key) - 1 <= Len(s)
        PROVE  (\A k \in 1..Len(needle) : haystack[i + k - 1] = needle[k]) <=> Same(i)
    <3>1. \A k \in 1..Len(key) : i + k - 1 \in 1..Len(s)
      BY <1>1, <1>2, <2>1
    <3>2. CASE r.caseSensitive
      BY <3>2
    <3>3. CASE ~r.caseSensitive
      <4>1. \A k \in 1..Len(key) : haystack[i + k - 1] = Lower[s[i + k - 1]] /\ needle[k] = Lower[key[k]]
        BY <1>1, <3>1, <3>3, SmallLetters
      <4> HIDE DEF haystack, needle
      <4>2. QED
        BY <1>3, <3>3, <4>1
    <3>4. QED
      BY <1>1, <3>2, <3>3
  <2> HIDE DEF Same, haystack, needle
  <2>2. QED
    BY <1>3, <2>1
<1>5. (Found = {} => last = 0) /\ (Found # {} => last \in Found /\ \A i \in Found : i <= last)
  <2> HIDE DEF haystack, needle
  <2>1. QED
    BY <1>3, LastOccurrence
<1>6. Matches(r, prior, s) <=> last > 0 /\ last - 1 + Len(key) > Len(prior)
  <2>1. Matches(r, prior, s) <=> last > 0 /\ last - 1 + Len(needle) > Len(prior)
    BY DEF Matches
  <2>2. QED
    BY <1>3, <2>1
<1> HIDE DEF last, Same, haystack, needle
<1>7. Found = {i \in 1..Len(s) : i + Len(key) - 1 <= Len(s) /\ Same(i)}
  BY <1>4
<1> HIDE DEF Found
<1>8. Matches(r, prior, s) <=> \E i \in Found : i + Len(key) - 1 > Len(prior)
  BY <1>1, <1>2, <1>5, <1>6, <1>7, SMTT(30)
<1>9. QED
  BY <1>7, <1>8 DEF Same


(* The end of a text, and what a chunk added to a text and to its end does. *)
LEMMA SuffixEnds ==
    ASSUME NEW s \in Text
    PROVE  /\ Suffix(s, TailSize) \in Text /\ Ends(Suffix(s, TailSize), s)
           /\ Len(Suffix(s, TailSize)) = TailSize \/ Suffix(s, TailSize) = s
           /\ Len(s) >= TailSize => Len(Suffix(s, TailSize)) = TailSize
<1>1. Len(s) \in Nat /\ TailSize \in Nat
  BY KeywordsAssumption DEF Text
<1>2. CASE Len(s) <= TailSize
  BY <1>1, <1>2 DEF Suffix, Ends
<1>3. CASE Len(s) > TailSize
  <2> DEFINE m == Len(s) - TailSize + 1
             part == SubSeq(s, m, Len(s))
  <2>1. m \in 1..(Len(s) + 1) /\ \A k \in m..Len(s) : s[k] \in Letters
    BY <1>1, <1>3 DEF Text
  <2>2. /\ part \in Seq(Letters) /\ Len(part) = IF m <= Len(s) THEN Len(s) - m + 1 ELSE 0
        /\ \A k \in 1 .. Len(s) - m + 1 : part[k] = s[m + k - 1]
    <3> DEFINE last == Len(s)
               first == Len(s) - TailSize + 1
    <3>1. first \in 1..(Len(s) + 1) /\ last \in first-1..Len(s) /\ \A k \in first..last : s[k] \in Letters
          /\ s \in Seq(Letters)
      BY <1>1, <1>3, <2>1 DEF Text
    <3> HIDE DEF first, last
    <3>2. /\ SubSeq(s, first, last) \in Seq(Letters)
          /\ Len(SubSeq(s, first, last)) = IF first <= last THEN last - first + 1 ELSE 0
          /\ \A k \in 1 .. last - first + 1 : SubSeq(s, first, last)[k] = s[first + k - 1]
      BY <1>1, <3>1, SubSeqProperties
    <3>3. QED
      BY <3>2 DEF first, last
  <2>3. Suffix(s, TailSize) = part
    BY <1>1, <1>3 DEF Suffix
  <2> HIDE DEF part
  <2>4. Len(part) = TailSize /\ \A k \in 1..TailSize : part[k] = s[Len(s) - TailSize + k]
    BY <1>1, <1>3, <2>2
  <2>5. Ends(part, s)
    BY <1>1, <1>3, <2>4 DEF Ends
  <2>6. QED
    BY <2>2, <2>3, <2>4, <2>5 DEF Text
<1>4. QED
  BY <1>1, <1>2, <1>3

LEMMA ChunkAdded ==
    ASSUME NEW s \in Text, NEW t \in Text, NEW c \in Text, Ends(s, t)
    PROVE  /\ s \o c \in Text /\ Len(s \o c) = Len(s) + Len(c)
           /\ t \o c \in Text /\ Len(t \o c) = Len(t) + Len(c) /\ Ends(s \o c, t \o c)
<1>1. /\ s \o c \in Text /\ Len(s \o c) = Len(s) + Len(c)
      /\ t \o c \in Text /\ Len(t \o c) = Len(t) + Len(c)
      /\ \A k \in 1 .. Len(s) + Len(c) : (s \o c)[k] = IF k <= Len(s) THEN s[k] ELSE c[k - Len(s)]
      /\ \A k \in 1 .. Len(t) + Len(c) : (t \o c)[k] = IF k <= Len(t) THEN t[k] ELSE c[k - Len(t)]
  BY ConcatProperties DEF Text
<1>2. Len(s) \in Nat /\ Len(t) \in Nat /\ Len(c) \in Nat
  BY DEF Text
<1> DEFINE sc == s \o c
           tc == t \o c
<1> HIDE DEF sc, tc
<1>3. Len(sc) <= Len(tc) /\ Len(sc) = Len(s) + Len(c) /\ Len(tc) = Len(t) + Len(c)
  BY <1>1, <1>2 DEF Ends, sc, tc
<1>4. ASSUME NEW k \in 1..Len(sc) PROVE sc[k] = tc[Len(tc) - Len(sc) + k]
  <2>1. Len(tc) - Len(sc) + k = Len(t) - Len(s) + k
        /\ Len(t) - Len(s) + k \in 1 .. Len(t) + Len(c) /\ Len(s) <= Len(t)
    BY <1>2, <1>3
  <2>2. CASE k <= Len(s)
    <3>1. sc[k] = s[k] /\ s[k] = t[Len(t) - Len(s) + k] /\ Len(t) - Len(s) + k <= Len(t)
      BY <1>1, <1>2, <1>3, <2>2 DEF Ends, sc
    <3>2. QED
      BY <1>1, <2>1, <3>1 DEF tc
  <2>3. CASE k > Len(s)
    <3>1. sc[k] = c[k - Len(s)] /\ ~(Len(t) - Len(s) + k <= Len(t))
          /\ Len(t) - Len(s) + k - Len(t) = k - Len(s)
      BY <1>1, <1>2, <1>3, <2>3 DEF sc
    <3>2. tc[Len(t) - Len(s) + k] = c[Len(t) - Len(s) + k - Len(t)]
      BY <1>1, <2>1, <3>1 DEF tc
    <3>3. QED
      BY <2>1, <3>1, <3>2
  <2>4. QED
    BY <1>2, <2>2, <2>3
<1>5. Ends(sc, tc)
  BY <1>3, <1>4 DEF Ends
<1>6. QED
  BY <1>1, <1>5 DEF sc, tc

(* A chunk is put after the tail and after the log.                         *)
LEMMA ScanChunkStep ==
    ASSUME KeywordInv, NEW content \in Text, ScanChunk(content)
    PROVE  KeywordInv'
<1>0. KeywordTypeOK /\ TailIsKept
  BY DEF KeywordInv
<1> DEFINE searchable == scanTail \o content
           log == logText \o content
           row == [NoScan EXCEPT !.pc = "rules", !.prior = scanTail, !.searchable = searchable,
                                 !.size = Len(content)]
<1>1. /\ scan' = row /\ scanTail' = Suffix(searchable, TailSize) /\ logText' = log
      /\ noticed' = FALSE /\ keywordRule' = keywordRule
  BY DEF ScanChunk
<1>2. Ends(scanTail, logText) /\ (Len(scanTail) = TailSize \/ scanTail = logText)
      /\ scanTail \in Text /\ logText \in Text
  BY <1>0 DEF TailIsKept, KeywordTypeOK
<1>3. /\ searchable \in Text /\ Len(searchable) = Len(scanTail) + Len(content)
      /\ log \in Text /\ Len(log) = Len(logText) + Len(content) /\ Ends(searchable, log)
  BY <1>2, ChunkAdded
<1>4. scanTail = logText => searchable = log
  OBVIOUS
<1>5. Len(content) \in Nat /\ Len(scanTail) \in Nat /\ TailSize \in Nat /\ Len(logText) \in Nat
  BY <1>2, KeywordsAssumption DEF Text
<1> DEFINE kept == Suffix(searchable, TailSize)
<1> HIDE DEF searchable, log
<1>6. /\ kept \in Text /\ Ends(kept, searchable)
      /\ Len(kept) = TailSize \/ kept = searchable
      /\ Len(searchable) >= TailSize => Len(kept) = TailSize
  BY <1>3, SuffixEnds
<1> HIDE DEF kept
<1>7. <<>> \in Text
  BY DEF Text
<1>8. /\ row \in ScanRow /\ row.pc = "rules" /\ row.prior = scanTail
      /\ row.searchable = searchable /\ row.size = Len(content)
  BY <1>2, <1>3, <1>5, <1>7 DEF NoScan, NoKeywordRule, ScanRow, RuleRow
<1> HIDE DEF row
<1>9. KeywordTypeOK'
  BY <1>0, <1>1, <1>3, <1>6, <1>8 DEF KeywordTypeOK, kept
<1>10. Ends(kept, log)
  <2>1. Len(kept) \in Nat /\ Len(searchable) \in Nat /\ Len(log) \in Nat
    BY <1>3, <1>6 DEF Text
  <2>2. Len(kept) <= Len(searchable) /\ Len(searchable) <= Len(log)
    BY <1>3, <1>6 DEF Ends
  <2>3. ASSUME NEW k \in 1..Len(kept) PROVE kept[k] = log[Len(log) - Len(kept) + k]
    <3>1. Len(searchable) - Len(kept) + k \in 1..Len(searchable)
          /\ Len(log) - Len(searchable) + (Len(searchable) - Len(kept) + k) = Len(log) - Len(kept) + k
      BY <2>1, <2>2
    <3>2. kept[k] = searchable[Len(searchable) - Len(kept) + k]
      BY <1>6 DEF Ends
    <3>3. searchable[Len(searchable) - Len(kept) + k]
          = log[Len(log) - Len(searchable) + (Len(searchable) - Len(kept) + k)]
      BY <1>3, <3>1 DEF Ends
    <3>4. QED
      BY <3>1, <3>2, <3>3
  <2>4. QED
    BY <2>1, <2>2, <2>3 DEF Ends
<1>11. Len(kept) = TailSize \/ kept = log
  BY <1>2, <1>3, <1>4, <1>5, <1>6
<1>12. TailIsKept'
  BY <1>1, <1>10, <1>11 DEF TailIsKept, kept
<1>13. SearchedIsLast'
  BY <1>1, <1>2, <1>3, <1>4, <1>8 DEF SearchedIsLast
<1>14. MatchIsNoticed'
  BY <1>1, <1>8 DEF MatchIsNoticed
<1>15. QED
  BY <1>9, <1>12, <1>13, <1>14 DEF KeywordInv


(* A scan reads the rules, looks for the keyword and ends; the rule is      *)
(* changed; the control plane is started again.                             *)
LEMMA ScanStep ==
    ASSUME KeywordInv,
           \/ KeywordRequest \/ ReadKeywordRules \/ MatchRule \/ ScanEnds \/ RestartScanner
           \/ UNCHANGED keywordVars
    PROVE  KeywordInv'
<1>0. KeywordTypeOK /\ TailIsKept /\ SearchedIsLast /\ MatchIsNoticed
  BY DEF KeywordInv
<1>1. <<>> \in Text
  BY DEF Text
<1> DEFINE empty == <<>>
<1>1a. Ends(empty, empty)
  BY DEF Ends
<1>2. /\ NoKeywordRule \in RuleRow /\ ~NoKeywordRule.enabled
      /\ NoScan \in ScanRow /\ NoScan.pc = "idle"
  BY <1>1 DEF NoKeywordRule, NoScan, RuleRow, ScanRow
<1>3. ASSUME scan' = NoScan, logText' = logText, scanTail' = scanTail, noticed' = noticed,
             keywordRule' = keywordRule
      PROVE  KeywordInv'
  BY <1>0, <1>2, <1>3 DEF KeywordInv, KeywordTypeOK, TailIsKept, SearchedIsLast, MatchIsNoticed
<1>4. CASE KeywordRequest
  <2>1. /\ keywordRule' \in RuleRow /\ (keywordRule' = NoKeywordRule \/ keywordRule'.keyword \in Phrases)
        /\ UNCHANGED <<scanTail, logText, scan, noticed>>
    <3>1. ASSUME NEW keyword \in Phrases, NEW caseSensitive \in BOOLEAN,
                 CreateKeywordRule(keyword, caseSensitive)
          PROVE  <2>1
      BY <3>1, KeywordsAssumption DEF CreateKeywordRule, RuleRow, Text
    <3>2. ASSUME NEW enabled \in BOOLEAN, SetKeywordRuleEnabled(enabled) PROVE <2>1
      BY <1>0, <3>2 DEF SetKeywordRuleEnabled, RuleRow, KeywordTypeOK, NoKeywordRule
    <3>3. CASE DeleteKeywordRule
      BY <1>2, <3>3 DEF DeleteKeywordRule
    <3>4. QED
      BY <1>4, <3>1, <3>2, <3>3 DEF KeywordRequest
  <2>2. QED
    BY <1>0, <2>1 DEF KeywordInv, KeywordTypeOK, TailIsKept, SearchedIsLast, MatchIsNoticed
<1>5. CASE ReadKeywordRules
  <2>1. CASE ~keywordRule.enabled
    BY <1>3, <1>5, <2>1 DEF ReadKeywordRules
  <2>2. CASE keywordRule.enabled
    <3>1. /\ scan' = [scan EXCEPT !.pc = "match", !.rule = keywordRule] /\ scan.pc = "rules"
          /\ UNCHANGED <<keywordRule, scanTail, logText, noticed>>
      BY <1>5, <2>2 DEF ReadKeywordRules
    <3>2. /\ scan' \in ScanRow /\ scan'.pc = "match" /\ scan'.rule = keywordRule
          /\ scan'.prior = scan.prior /\ scan'.searchable = scan.searchable /\ scan'.size = scan.size
      BY <1>0, <3>1 DEF KeywordTypeOK, ScanRow
    <3>3. QED
      BY <1>0, <1>2, <2>2, <3>1, <3>2
         DEF KeywordInv, KeywordTypeOK, TailIsKept, SearchedIsLast, MatchIsNoticed
  <2>3. QED
    BY <2>1, <2>2
<1>6. CASE MatchRule
  <2>1. /\ scan' = [scan EXCEPT !.pc = "over"] /\ scan.pc = "match"
        /\ noticed' = Matches(scan.rule, scan.prior, scan.searchable)
        /\ UNCHANGED <<keywordRule, scanTail, logText>>
    BY <1>6 DEF MatchRule
  <2>2. /\ scan' \in ScanRow /\ scan'.pc = "over" /\ scan'.rule = scan.rule
        /\ scan'.prior = scan.prior /\ scan'.searchable = scan.searchable /\ scan'.size = scan.size
    BY <1>0, <2>1 DEF KeywordTypeOK, ScanRow
  <2>3. noticed' \in BOOLEAN
    BY <2>1 DEF Matches
  <2>4. KeywordTypeOK' /\ TailIsKept' /\ SearchedIsLast'
    BY <1>0, <2>1, <2>2, <2>3 DEF KeywordTypeOK, TailIsKept, SearchedIsLast
  <2>5. MatchIsNoticed'
    BY <2>1, <2>2 DEF MatchIsNoticed
  <2>6. QED
    BY <2>4, <2>5 DEF KeywordInv
<1>7. CASE ScanEnds
  BY <1>3, <1>7 DEF ScanEnds
<1>8. CASE RestartScanner
  <2>1. /\ scan' = NoScan /\ scanTail' = empty /\ logText' = empty /\ noticed' = FALSE
        /\ keywordRule' = keywordRule
    BY <1>8 DEF RestartScanner
  <2> HIDE DEF empty
  <2>2. empty \in Text
    BY <1>1 DEF empty
  <2>3. QED
    BY <1>0, <1>1a, <1>2, <2>1, <2>2
       DEF KeywordInv, KeywordTypeOK, TailIsKept, SearchedIsLast, MatchIsNoticed
<1>9. CASE UNCHANGED keywordVars
  BY <1>0, <1>9 DEF keywordVars, KeywordInv, KeywordTypeOK, TailIsKept, SearchedIsLast, MatchIsNoticed
<1>10. QED
  BY <1>4, <1>5, <1>6, <1>7, <1>8, <1>9

LEMMA KeywordInvariant == KeywordsSpec => []KeywordInv
<1>1. KeywordsInit => KeywordInv
  <2> SUFFICES ASSUME KeywordsInit PROVE KeywordInv
    OBVIOUS
  <2>1. <<>> \in Text
    BY DEF Text
  <2> DEFINE empty == <<>>
  <2>2. Ends(empty, empty)
    BY DEF Ends
  <2>3. /\ scan = NoScan /\ scanTail = empty /\ logText = empty /\ noticed = FALSE
        /\ keywordRule = NoKeywordRule
    BY DEF KeywordsInit
  <2>4. NoKeywordRule \in RuleRow /\ NoScan \in ScanRow /\ NoScan.pc = "idle"
    BY <2>1 DEF NoKeywordRule, NoScan, RuleRow, ScanRow
  <2> HIDE DEF empty
  <2>5. empty \in Text
    BY <2>1 DEF empty
  <2>6. QED
    BY <2>2, <2>3, <2>4, <2>5
       DEF KeywordInv, KeywordTypeOK, TailIsKept, SearchedIsLast, MatchIsNoticed
<1>2. KeywordInv /\ [KeywordsNext]_keywordVars => KeywordInv'
  BY ScanChunkStep, ScanStep, KeywordsAssumption DEF KeywordsNext, Text
<1>3. QED
  BY <1>1, <1>2, PTL DEF KeywordsSpec

(* In the whole log the keyword ends in the chunk exactly when it does in   *)
(* the tail and the chunk: an occurrence that ends in the chunk starts no   *)
(* further back than the tail goes.                                         *)
LEMMA FoundInTheLog ==
    ASSUME NEW r \in RuleRow, r.keyword \in Phrases, NEW prior \in Text, NEW s \in Text,
           NEW t \in Text, NEW size \in Nat, Ends(s, t), Len(s) = Len(prior) + size,
           Len(prior) = TailSize \/ Len(s) = Len(t)
    PROVE  Matches(r, prior, s) <=>
               \E i \in 1..Len(t), j \in (Len(t) - size + 1)..Len(t) : SameText(r, SubSeq(t, i, j))
<1> DEFINE key == r.keyword
           n == Len(key)
           ls == Len(s)
           lt == Len(t)
           lp == Len(prior)
           away == lt - ls
           Same(a, b) == IF r.caseSensitive THEN a = b ELSE Lower[a] = Lower[b]
           Here(i) == \A k \in 1..n : Same(t[i + k - 1], key[k])
<1>2. /\ key \in Text /\ key # <<>> /\ n \in Nat /\ n >= 1 /\ n <= TailSize
      /\ TailSize \in Nat /\ ls \in Nat /\ lt \in Nat /\ lp \in Nat
      /\ ls <= lt /\ ls = lp + size /\ (lp = TailSize \/ ls = lt)
  BY KeywordsAssumption DEF Text, Ends
<1>3. ASSUME NEW i \in 1..lt, NEW j \in 1..lt
      PROVE  SameText(r, SubSeq(t, i, j)) <=> j = i + n - 1 /\ Here(i)
  <2> DEFINE part == SubSeq(t, i, j)
             m == Len(part)
  <2>1. i \in Int /\ j \in Int /\ \A k \in i..j : t[k] \in Letters
    BY <1>2 DEF Text
  <2>2. /\ part \in Seq(Letters) /\ m = IF i <= j THEN j - i + 1 ELSE 0
        /\ \A k \in 1 .. j - i + 1 : part[k] = t[i + k - 1]
    BY <2>1, SubSeqProperties
  <2> HIDE DEF part
  <2>3. DOMAIN part = 1..m
    BY <2>2
  <2>4. SameText(r, part) <=> m = n /\ \A k \in 1..m : Same(part[k], key[k])
    BY <2>3 DEF SameText
  <2> HIDE DEF Same, m, n, lt, key
  <2>5. m = n <=> j = i + n - 1
    BY <1>2, <2>1, <2>2
  <2>6. m = n => \A k \in 1..n : part[k] = t[i + k - 1]
    BY <1>2, <2>1, <2>2
  <2>7. QED
    BY <2>4, <2>5, <2>6 DEF part
<1>4. ASSUME NEW i \in 1..ls, i + n - 1 <= ls
      PROVE  Here(i + away) <=> \A k \in 1..n : Same(s[i + k - 1], key[k])
  <2>1. \A k \in 1..ls : s[k] = t[away + k]
    BY <1>2 DEF Ends
  <2> HIDE DEF Same, n, ls, lt, key
  <2>2. ASSUME NEW k \in 1..n PROVE s[i + k - 1] = t[i + away + k - 1]
    <3>1. i + k - 1 \in 1..ls /\ away + (i + k - 1) = i + away + k - 1
      BY <1>2, <1>4
    <3>2. s[i + k - 1] = t[away + (i + k - 1)]
      BY <2>1, <3>1
    <3>3. QED
      BY <3>1, <3>2
  <2> HIDE DEF away
  <2>3. QED
    BY <2>2
<1>5. Matches(r, prior, s) <=>
          \E i \in 1..ls : /\ i + n - 1 <= ls /\ i + n - 1 > lp
                           /\ \A k \in 1..n : Same(s[i + k - 1], key[k])
  BY <1>2, Occurrences
<1> HIDE DEF Here, Same, n, ls, lt, lp, key
<1>6. Matches(r, prior, s) <=>
          \E i \in 1..ls : i + n - 1 <= ls /\ i + n - 1 > lp /\ Here(i + away)
  <2> HIDE DEF away
  <2>1. QED
    BY <1>4, <1>5
<1>7. ASSUME NEW i \in 1..ls, i + n - 1 <= ls, i + n - 1 > lp, Here(i + away)
      PROVE  \E m \in 1..lt, j \in (lt - size + 1)..lt : SameText(r, SubSeq(t, m, j))
  <2> DEFINE m == i + away
             j == i + away + n - 1
  <2>1. m \in 1..lt /\ j \in 1..lt /\ j \in (lt - size + 1)..lt /\ j = m + n - 1
    BY <1>2, <1>7
  <2>2. Here(m)
    BY <1>7
  <2> HIDE DEF m, j
  <2>3. QED
    BY <1>3, <2>1, <2>2
<1>8. ASSUME NEW m \in 1..lt, NEW j \in (lt - size + 1)..lt, SameText(r, SubSeq(t, m, j))
      PROVE  \E i \in 1..ls : i + n - 1 <= ls /\ i + n - 1 > lp /\ Here(i + away)
  <2> DEFINE i == m - away
  <2>1. j \in 1..lt
    BY <1>2
  <2>2. j = m + n - 1 /\ Here(m)
    BY <1>3, <1>8, <2>1
  <2>3. i \in 1..ls /\ i + n - 1 <= ls /\ i + n - 1 > lp /\ i + away = m
    BY <1>2, <2>1, <2>2
  <2> HIDE DEF i
  <2>4. QED
    BY <2>2, <2>3
<1>9. QED
  BY <1>6, <1>7, <1>8 DEF lt

(* A keyword is noticed however the log was cut: every chunk that completes *)
(* an occurrence of an enabled rule's keyword makes an event and no other   *)
(* does (matchKeywordAlerts of logs.service.ts), for every log, keyword,    *)
(* cut into chunks and length of the tail that no keyword exceeds.          *)
THEOREM KeywordsAreNoticed == KeywordsSpec => []KeywordNoticed
<1>1. ASSUME KeywordInv, scan.pc = "over" PROVE KeywordNoticed
  <2>1. /\ scan.rule \in RuleRow /\ scan.rule.keyword \in Phrases /\ scan.prior \in Text
        /\ scan.searchable \in Text /\ logText \in Text /\ scan.size \in Nat
        /\ Ends(scan.searchable, logText) /\ Len(scan.searchable) = Len(scan.prior) + scan.size
        /\ Len(scan.prior) = TailSize \/ Len(scan.searchable) = Len(logText)
    BY <1>1 DEF KeywordInv, KeywordTypeOK, SearchedIsLast, ScanRow
  <2> DEFINE r == scan.rule
             prior == scan.prior
             s == scan.searchable
             size == scan.size
  <2> HIDE DEF r, prior, s, size
  <2>2. Matches(r, prior, s) <=>
            \E i \in 1..Len(logText), j \in (Len(logText) - size + 1)..Len(logText) :
                SameText(r, SubSeq(logText, i, j))
    BY <2>1, FoundInTheLog DEF r, prior, s, size
  <2>3. QED
    BY <1>1, <2>2 DEF KeywordInv, MatchIsNoticed, KeywordNoticed, r, prior, s, size
<1>2. KeywordInv => KeywordNoticed
  BY <1>1 DEF KeywordNoticed
<1>3. QED
  BY <1>2, KeywordInvariant, PTL


-----------------------------------------------------------------------------
(* The limiter of the alerts.                                              *)

Times == 0..MaxTime
WindowRow == [count : Nat, start : Nat]

\* The messages of a rule from one time until before another.
Sent(f, a, b) == SumOf(f, {u \in Times : a <= u /\ u < b})

\* What an open window says of the messages: it counts those since its start, the first
\* of which opened it, none is later than its end, and when it opened less than the
\* limit had been sent in as long a stretch before.
WindowCounts(w, f, now) ==
    /\ w \in WindowRow /\ w.start <= now /\ w.count <= MaxPerWindow
    /\ 1 <= f[w.start] /\ Sent(f, w.start, MaxTime + 1) = w.count
    /\ \A u \in Times : u >= w.start + RateWindow => f[u] = 0
    /\ \A t \in Times : t <= w.start /\ w.start < t + RateWindow => Sent(f, t, w.start) < MaxPerWindow

\* One rule: its window and its messages.
Limited(w, f, now) ==
    /\ f \in [Times -> Nat] /\ now \in Times
    /\ \A t \in Times : Sent(f, t, t + RateWindow) < 2 * MaxPerWindow
    /\ w = Never => \A u \in Times : f[u] = 0
    /\ w # Never => WindowCounts(w, f, now)

AlertsInv ==
    /\ alertClock \in Times
    /\ window \in [RuleIds -> {Never} \cup WindowRow] /\ sent \in [RuleIds -> [Times -> Nat]]
    /\ \A r \in RuleIds : Limited(window[r], sent[r], alertClock)

(* The times are finitely many numbers.                                     *)
LEMMA TimesAreFew == IsFiniteSet(Times) /\ Times \subseteq Nat /\ MaxTime \in Nat
<1>1. MaxTime \in Nat
  BY AlertsAssumption
<1>2. IsFiniteSet(0..MaxTime)
  BY <1>1, FS_Interval
<1>3. QED
  BY <1>1, <1>2 DEF Times

(* Sums over stretches of time: they are numbers, they grow with the        *)
(* stretch and add up.                                                      *)
LEMMA SentStretches ==
    ASSUME NEW f \in [Times -> Nat]
    PROVE  \A a, b, c \in Nat :
               /\ Sent(f, a, b) \in Nat
               /\ a <= b /\ b <= c => Sent(f, a, c) = Sent(f, a, b) + Sent(f, b, c)
<1> SUFFICES ASSUME NEW a \in Nat, NEW b \in Nat, NEW c \in Nat
    PROVE /\ Sent(f, a, b) \in Nat
          /\ a <= b /\ b <= c => Sent(f, a, c) = Sent(f, a, b) + Sent(f, b, c)
  OBVIOUS
<1> DEFINE During(x, y) == {u \in Times : x <= u /\ u < y}
<1>1. IsFiniteSet(Times) /\ \A u \in Times : f[u] \in Nat
  BY TimesAreFew
<1>2. ASSUME NEW x \in Nat, NEW y \in Nat
      PROVE  IsFiniteSet(During(x, y)) /\ During(x, y) \subseteq Times
  <2>1. During(x, y) \subseteq Times
    OBVIOUS
  <2> HIDE DEF During
  <2>2. QED
    BY <1>1, <2>1, FS_Subset
<1>3. Sent(f, a, b) \in Nat
  <2>1. IsFiniteSet(During(a, b)) /\ \A u \in During(a, b) : f[u] \in Nat
    BY <1>1, <1>2
  <2> HIDE DEF During
  <2>2. SumOf(f, During(a, b)) \in Nat
    BY <2>1, SumNat
  <2>3. QED
    BY <2>2 DEF Sent, During
<1>4. ASSUME a <= b, b <= c PROVE Sent(f, a, c) = Sent(f, a, b) + Sent(f, b, c)
  <2>1. During(a, c) = During(a, b) \cup During(b, c) /\ During(a, b) \cap During(b, c) = {}
    BY <1>4 DEF Times
  <2>2. \A u \in During(a, b) \cup During(b, c) : f[u] \in Nat
    BY <1>1
  <2>3. Sent(f, a, c) = SumOf(f, During(a, c)) /\ Sent(f, a, b) = SumOf(f, During(a, b))
        /\ Sent(f, b, c) = SumOf(f, During(b, c))
    BY DEF Sent
  <2>a. IsFiniteSet(During(a, b)) /\ IsFiniteSet(During(b, c))
    BY <1>2
  <2> HIDE DEF During
  <2>4. SumOf(f, During(a, b) \cup During(b, c)) = SumOf(f, During(a, b)) + SumOf(f, During(b, c))
    BY <2>a, <2>1, <2>2, SumUnion
  <2>5. QED
    BY <2>1, <2>3, <2>4
<1>5. QED
  BY <1>3, <1>4

(* A message more in a stretch.                                             *)
OneMore(g, f, now) == \A u \in Times : g[u] = IF u = now THEN f[u] + 1 ELSE f[u]

LEMMA SentMore ==
    ASSUME NEW f \in [Times -> Nat], NEW g, NEW now \in Times, OneMore(g, f, now),
           NEW a \in Nat, NEW b \in Nat
    PROVE  /\ a <= now /\ now < b => Sent(g, a, b) = Sent(f, a, b) + 1
           /\ ~(a <= now /\ now < b) => Sent(g, a, b) = Sent(f, a, b)
<1> DEFINE During == {u \in Times : a <= u /\ u < b}
<1>1. IsFiniteSet(During) /\ \A u \in During : f[u] \in Nat
  BY TimesAreFew, FS_Subset
<1>2. \A u \in During : g[u] = IF u = now THEN f[u] + 1 ELSE f[u]
  BY DEF OneMore
<1>3. now \in During <=> a <= now /\ now < b
  OBVIOUS
<1>4. Sent(f, a, b) = SumOf(f, During) /\ Sent(g, a, b) = SumOf(g, During)
  BY DEF Sent
<1> HIDE DEF During
<1>5. SumOf(g, During) = SumOf(f, During) + (IF now \in During THEN 1 ELSE 0)
  BY <1>1, <1>2, SumChange
<1>6. SumOf(f, During) \in Nat
  BY <1>1, SumNat
<1>7. QED
  BY <1>3, <1>4, <1>5, <1>6

(* A stretch in which no message was sent.                                  *)
LEMMA SentNone ==
    ASSUME NEW f, NEW a, NEW b, \A u \in Times : a <= u /\ u < b => f[u] = 0
    PROVE  Sent(f, a, b) = 0
<1> DEFINE During == {u \in Times : a <= u /\ u < b}
<1>1. IsFiniteSet(During) /\ \A u \in During : f[u] = 0
  BY TimesAreFew, FS_Subset
<1>2. SumOf(f, During) = 0
  <2> HIDE DEF During
  <2>1. QED
    BY <1>1, SumZero
<1>3. QED
  BY <1>2 DEF Sent

(* A stretch has the messages of its first moment.                          *)
LEMMA SentAtStart ==
    ASSUME NEW f \in [Times -> Nat], NEW a \in Times, NEW b \in Nat, a < b
    PROVE  f[a] <= Sent(f, a, b)
<1> DEFINE During == {u \in Times : a <= u /\ u < b}
           Rest == During \ {a}
<1>1. IsFiniteSet(During) /\ \A u \in During : f[u] \in Nat
  BY TimesAreFew, FS_Subset
<1>2. a \in During
  BY TimesAreFew
<1>3. Sent(f, a, b) = SumOf(f, During)
  BY DEF Sent
<1> HIDE DEF During
<1>4. \A x \in During : SumOf(f, During) = f[x] + SumOf(f, During \ {x})
  BY <1>1, SumAny
<1>5. IsFiniteSet(Rest) /\ \A u \in Rest : f[u] \in Nat
  BY <1>1, FS_Subset
<1>6. SumOf(f, During) = f[a] + SumOf(f, Rest)
  BY <1>2, <1>4
<1> HIDE DEF Rest
<1>7. SumOf(f, Rest) \in Nat /\ f[a] \in Nat
  BY <1>1, <1>2, <1>5, SumNat
<1>8. QED
  BY <1>3, <1>6, <1>7

(* A window opens: the one before it is over.                               *)
LEMMA WindowOpens ==
    ASSUME NEW w, NEW f, NEW now, Limited(w, f, now), w \in {Never} \cup WindowRow,
           w # Never => now - w.start >= RateWindow
    PROVE  Limited([count |-> 1, start |-> now], [f EXCEPT ![now] = @ + 1], now)
<1> DEFINE g == [f EXCEPT ![now] = @ + 1]
           W == RateWindow
           M == MaxPerWindow
           v == [count |-> 1, start |-> now]
<1>1. /\ f \in [Times -> Nat] /\ now \in Times /\ g \in [Times -> Nat] /\ Times \subseteq Nat
      /\ W \in Nat \ {0} /\ M \in Nat \ {0} /\ now \in Nat /\ MaxTime \in Nat /\ now <= MaxTime
  BY AlertsAssumption DEF Limited, Times
<1>2. w # Never => WindowCounts(w, f, now) /\ w.start \in Nat /\ w.start + W <= now
  BY <1>1 DEF Limited, WindowRow
<1>3. \A u \in Times : u >= now => f[u] = 0
  <2>1. CASE w = Never
    BY <2>1 DEF Limited
  <2>2. CASE w # Never
    BY <1>1, <1>2, <2>2 DEF WindowCounts
  <2>3. QED
    BY <2>1, <2>2
<1>4. ASSUME NEW t \in Times, t <= now, now < t + W
      PROVE  Sent(f, t, now) \in Nat /\ Sent(f, t, now) < M
  <2>1. t \in Nat /\ Sent(f, t, now) \in Nat
    BY <1>1, SentStretches
  <2>2. CASE w = Never
    <3>1. \A u \in Times : t <= u /\ u < now => f[u] = 0
      BY <2>2 DEF Limited
    <3>2. Sent(f, t, now) = 0
      BY <3>1, SentNone
    <3>3. QED
      BY <1>1, <2>1, <3>2
  <2>3. CASE w # Never
    <3> DEFINE s == w.start
    <3>1. s \in Nat /\ s < t /\ s <= now /\ s \in Times
      BY <1>1, <1>2, <1>4, <2>1, <2>3, SMTT(30) DEF Times
    <3>2. Sent(f, s, MaxTime + 1) <= M /\ 1 <= f[s]
      BY <1>1, <1>2, <2>3 DEF WindowCounts
    <3> DEFINE E == MaxTime + 1
    <3>a. t <= now /\ now <= E /\ t <= E /\ E \in Nat /\ s <= t
      BY <1>1, <1>4, <2>1, <3>1
    <3>3. /\ Sent(f, s, E) = Sent(f, s, t) + Sent(f, t, E)
          /\ Sent(f, t, E) = Sent(f, t, now) + Sent(f, now, E)
          /\ Sent(f, s, t) \in Nat /\ Sent(f, now, E) \in Nat /\ Sent(f, t, E) \in Nat
      <4> HIDE DEF s, E
      <4>1. Sent(f, s, E) = Sent(f, s, t) + Sent(f, t, E)
        BY <1>1, <2>1, <3>1, <3>a, SentStretches
      <4>2. Sent(f, t, E) = Sent(f, t, now) + Sent(f, now, E)
        BY <1>1, <2>1, <3>a, SentStretches
      <4>3. Sent(f, s, t) \in Nat /\ Sent(f, now, E) \in Nat /\ Sent(f, t, E) \in Nat
        BY <1>1, <2>1, <3>1, <3>a, SentStretches
      <4>4. QED
        BY <4>1, <4>2, <4>3
    <3>4. f[s] <= Sent(f, s, t) /\ f[s] \in Nat
      BY <1>1, <2>1, <3>1, SentAtStart
    <3> HIDE DEF s
    <3>5. QED
      BY <1>1, <2>1, <3>2, <3>3, <3>4
  <2>4. QED
    BY <2>2, <2>3
<1>5. OneMore(g, f, now) /\ f[now] = 0 /\ \A u \in Times : u # now => g[u] = f[u]
  BY <1>1, <1>3 DEF OneMore
<1>a. g[now] = 1 /\ \A u \in Times : u >= now + W => g[u] = 0
  BY <1>1, <1>3, <1>5
<1> HIDE DEF g
<1>6. Sent(g, now, MaxTime + 1) = 1
  <2>1. Sent(f, now, MaxTime + 1) = 0
    BY <1>3, SentNone
  <2>2. now <= now /\ now < MaxTime + 1 /\ MaxTime + 1 \in Nat
    BY <1>1
  <2>3. QED
    BY <1>1, <1>5, <2>1, <2>2, SentMore
<1>7. ASSUME NEW t \in Times, t <= now, now < t + W PROVE Sent(g, t, now) < M
  <2>1. t \in Nat /\ Sent(g, t, now) = Sent(f, t, now)
    BY <1>1, <1>5, <1>7, SentMore
  <2>2. QED
    BY <1>4, <1>7, <2>1
<1>8. ASSUME NEW t \in Times PROVE Sent(g, t, t + W) < 2 * M
  <2>1. t \in Nat /\ t + W \in Nat /\ Sent(f, t, t + W) < 2 * M /\ Sent(f, t, t + W) \in Nat
    <3>1. t \in Nat /\ t + W \in Nat /\ Sent(f, t, t + W) < 2 * M
      BY <1>1 DEF Limited
    <3>2. QED
      BY <1>1, <3>1, SentStretches
  <2>2. CASE t <= now /\ now < t + W
    <3>1. Sent(g, t, t + W) = Sent(f, t, t + W) + 1
      BY <1>1, <1>5, <2>1, <2>2, SentMore
    <3>2. Sent(f, t, t + W) = Sent(f, t, now) + Sent(f, now, t + W)
      BY <1>1, <2>1, <2>2, SentStretches
    <3>3. Sent(f, now, t + W) = 0
      BY <1>3, SentNone
    <3>4. QED
      BY <1>1, <1>4, <2>1, <2>2, <3>1, <3>2, <3>3
  <2>3. CASE ~(t <= now /\ now < t + W)
    <3>1. Sent(g, t, t + W) = Sent(f, t, t + W)
      BY <1>1, <1>5, <2>1, <2>3, SentMore
    <3>2. QED
      BY <2>1, <3>1
  <2>4. QED
    BY <2>2, <2>3
<1>9. v \in WindowRow /\ v # Never /\ v.count = 1 /\ v.start = now
  BY <1>1, AlertsAssumption DEF WindowRow
<1> HIDE DEF v
<1>10. WindowCounts(v, g, now)
  BY <1>1, <1>a, <1>6, <1>7, <1>9 DEF WindowCounts
<1>11. Limited(v, g, now)
  BY <1>1, <1>8, <1>9, <1>10 DEF Limited
<1>12. QED
  BY <1>11 DEF g, v

(* A message in the window that is open.                                    *)
LEMMA WindowFills ==
    ASSUME NEW w \in WindowRow, NEW f, NEW now, Limited(w, f, now), w # Never,
           w.count < MaxPerWindow, now - w.start < RateWindow
    PROVE  Limited([w EXCEPT !.count = @ + 1], [f EXCEPT ![now] = @ + 1], now)
<1> DEFINE g == [f EXCEPT ![now] = @ + 1]
           W == RateWindow
           M == MaxPerWindow
           s == w.start
           v == [w EXCEPT !.count = @ + 1]
<1>1. /\ f \in [Times -> Nat] /\ now \in Times /\ g \in [Times -> Nat] /\ Times \subseteq Nat
      /\ W \in Nat \ {0} /\ M \in Nat \ {0} /\ now \in Nat /\ MaxTime \in Nat /\ now <= MaxTime
  <2>1. f \in [Times -> Nat] /\ now \in Times /\ MaxTime \in Nat /\ W \in Nat \ {0} /\ M \in Nat \ {0}
    BY AlertsAssumption DEF Limited
  <2>2. g \in [Times -> Nat]
    BY <2>1
  <2> HIDE DEF g
  <2>3. Times \subseteq Nat /\ now \in Nat /\ now <= MaxTime
    BY <2>1 DEF Times
  <2>4. QED
    BY <2>1, <2>2, <2>3
<1>2. /\ WindowCounts(w, f, now) /\ s \in Nat /\ s <= now /\ s \in Times /\ now < s + W
      /\ w.count \in Nat
  BY <1>1 DEF Limited, WindowCounts, WindowRow, Times
<1>3. v \in WindowRow /\ v # Never /\ v.start = s /\ v.count = w.count + 1 /\ v.count <= M
  BY <1>1, <1>2, AlertsAssumption DEF WindowRow
<1>4. OneMore(g, f, now) /\ 1 <= g[s] /\ \A u \in Times : u >= s + W => g[u] = 0
  BY <1>1, <1>2 DEF WindowCounts, OneMore
<1> HIDE DEF g
<1>5. Sent(f, s, MaxTime + 1) = w.count
  BY <1>2 DEF WindowCounts
<1>6. Sent(g, s, MaxTime + 1) = w.count + 1
  <2>1. s <= now /\ now < MaxTime + 1 /\ MaxTime + 1 \in Nat
    BY <1>1, <1>2
  <2> HIDE DEF s
  <2>2. QED
    BY <1>1, <1>2, <1>4, <1>5, <2>1, SentMore
<1>8. ASSUME NEW t \in Times, t <= s, s < t + W PROVE Sent(g, t, s) < M
  <2>1. t \in Nat /\ Sent(f, t, s) < M /\ Sent(f, t, s) \in Nat
    BY <1>1, <1>2, <1>8, SentStretches DEF WindowCounts
  <2>2. Sent(g, t, s) = Sent(f, t, s)
    <3> HIDE DEF s
    <3>1. QED
      BY <1>1, <1>2, <1>4, <2>1, SentMore
  <2>3. QED
    BY <2>1, <2>2
<1>9. ASSUME NEW t \in Times PROVE Sent(g, t, t + W) < 2 * M
  <2>1. t \in Nat /\ t + W \in Nat /\ Sent(f, t, t + W) < 2 * M /\ Sent(f, t, t + W) \in Nat
    <3>1. t \in Nat /\ t + W \in Nat /\ Sent(f, t, t + W) < 2 * M
      BY <1>1 DEF Limited
    <3>2. QED
      BY <1>1, <3>1, SentStretches
  <2>2. CASE ~(t <= now /\ now < t + W)
    <3>1. Sent(g, t, t + W) = Sent(f, t, t + W)
      BY <1>1, <1>4, <2>1, <2>2, SentMore
    <3>2. QED
      BY <2>1, <3>1
  <2>3. ASSUME NEW a \in Nat, NEW b \in Nat, s <= a, a <= b
        PROVE  Sent(g, a, b) \in Nat /\ Sent(g, a, b) <= M
    <3>1. /\ Sent(g, a, b) \in Nat /\ Sent(g, s, a) \in Nat
      BY <1>1, <1>2, SentStretches
    <3> DEFINE E == MaxTime + 1
    <3>a. E \in Nat /\ s <= E
      BY <1>1, <1>2
    <3>2. CASE b <= E
      <4>1. /\ Sent(g, s, E) = Sent(g, s, a) + Sent(g, a, E)
            /\ Sent(g, a, E) = Sent(g, a, b) + Sent(g, b, E)
            /\ Sent(g, b, E) \in Nat
        <5>1. a <= E
          BY <1>1, <2>3, <3>2
        <5> HIDE DEF s, E
        <5>2. Sent(g, s, E) = Sent(g, s, a) + Sent(g, a, E)
          BY <1>1, <1>2, <2>3, <3>a, <5>1, SentStretches
        <5>3. Sent(g, a, E) = Sent(g, a, b) + Sent(g, b, E)
          BY <1>1, <2>3, <3>2, <3>a, SentStretches
        <5>4. Sent(g, b, E) \in Nat
          BY <1>1, <3>a, SentStretches
        <5>5. QED
          BY <5>2, <5>3, <5>4
      <4>2. QED
        BY <1>1, <1>3, <1>6, <3>1, <4>1
    <3>3. CASE b > E
      <4>1. Sent(g, s, b) = Sent(g, s, E) + Sent(g, E, b)
        <5>1. E <= b
          BY <1>1, <3>a, <3>3
        <5> HIDE DEF s, E
        <5>2. QED
          BY <1>1, <1>2, <3>a, <5>1, SentStretches
      <4>2. Sent(g, E, b) = 0
        <5>1. \A u \in Times : E <= u /\ u < b => g[u] = 0
          BY <1>1 DEF Times
        <5> HIDE DEF s
        <5>2. QED
          BY <5>1, SentNone
      <4>3. Sent(g, s, b) = Sent(g, s, a) + Sent(g, a, b)
        <5> HIDE DEF s
        <5>1. QED
          BY <1>1, <1>2, <2>3, SentStretches
      <4>4. QED
        BY <1>1, <1>2, <1>3, <1>6, <3>1, <4>1, <4>2, <4>3
    <3>4. QED
      BY <1>1, <3>2, <3>3
  <2>4. CASE t <= now /\ now < t + W /\ s <= t
    <3>1. Sent(g, t, t + W) \in Nat /\ Sent(g, t, t + W) <= M
      BY <1>1, <2>1, <2>3, <2>4
    <3>2. QED
      BY <1>1, <3>1
  <2>5. CASE t <= now /\ now < t + W /\ t < s
    <3>1. t <= s /\ s <= t + W /\ s < t + W
      BY <1>1, <1>2, <2>1, <2>5
    <3>2. /\ Sent(g, t, t + W) = Sent(g, t, s) + Sent(g, s, t + W)
          /\ Sent(g, t, s) \in Nat
      <4> DEFINE e == t + W
      <4>1. e \in Nat /\ s <= e
        BY <2>1, <3>1
      <4> HIDE DEF s, e
      <4>2. Sent(g, t, e) = Sent(g, t, s) + Sent(g, s, e)
        BY <1>1, <1>2, <2>1, <3>1, <4>1, SentStretches
      <4>3. Sent(g, t, s) \in Nat
        BY <1>1, <1>2, <2>1, SentStretches
      <4>4. QED
        BY <4>2, <4>3 DEF e
    <3>3. Sent(g, t, s) < M
      BY <1>8, <3>1
    <3>4. Sent(g, s, t + W) \in Nat /\ Sent(g, s, t + W) <= M
      BY <1>1, <1>2, <2>1, <2>3, <3>1
    <3>5. QED
      BY <1>1, <3>2, <3>3, <3>4
  <2>6. QED
    BY <1>1, <1>2, <2>1, <2>2, <2>4, <2>5
<1> HIDE DEF v, s
<1>10. WindowCounts(v, g, now)
  BY <1>1, <1>2, <1>3, <1>4, <1>6, <1>8 DEF WindowCounts
<1>11. Limited(v, g, now)
  BY <1>1, <1>3, <1>9, <1>10 DEF Limited
<1>12. QED
  BY <1>11 DEF g, v

LEMMA AlertsInvariant == AlertsSpec => []AlertsInv
<1>1. AlertsInit => AlertsInv
  <2> SUFFICES ASSUME AlertsInit PROVE AlertsInv
    OBVIOUS
  <2>1. /\ alertClock = 0 /\ alertClock \in Times
        /\ window = [r \in RuleIds |-> Never] /\ sent = [r \in RuleIds |-> [t \in Times |-> 0]]
    BY TimesAreFew DEF AlertsInit, Times
  <2>2. ASSUME NEW r \in RuleIds PROVE Limited(window[r], sent[r], alertClock)
    <3>1. window[r] = Never /\ sent[r] \in [Times -> Nat] /\ \A u \in Times : sent[r][u] = 0
      BY <2>1
    <3>2. ASSUME NEW t \in Times PROVE Sent(sent[r], t, t + RateWindow) < 2 * MaxPerWindow
      <4>1. Sent(sent[r], t, t + RateWindow) = 0
        BY <3>1, SentNone
      <4>2. MaxPerWindow \in Nat \ {0}
        BY AlertsAssumption
      <4>3. QED
        BY <4>1, <4>2
    <3>3. QED
      BY <2>1, <3>1, <3>2 DEF Limited
  <2>3. QED
    BY <2>1, <2>2 DEF AlertsInv
<1>2. AlertsInv /\ [AlertsNext]_alertVars => AlertsInv'
  <2> SUFFICES ASSUME AlertsInv, [AlertsNext]_alertVars PROVE AlertsInv'
    OBVIOUS
  <2>1. ASSUME UNCHANGED <<window, sent, alertClock>> PROVE AlertsInv'
    BY <2>1 DEF AlertsInv
  <2>2. CASE AlertTick
    <3>1. alertClock' \in Times /\ alertClock <= alertClock' /\ UNCHANGED <<window, sent>>
      BY <2>2, TimesAreFew DEF AlertTick, AlertsInv, Times
    <3>2. ASSUME NEW r \in RuleIds PROVE Limited(window'[r], sent'[r], alertClock')
      <4>1. Limited(window[r], sent[r], alertClock) /\ window[r] \in {Never} \cup WindowRow
        BY DEF AlertsInv
      <4>2. window[r] # Never => window[r].start \in Nat /\ alertClock \in Nat /\ alertClock' \in Nat
        BY <3>1, <4>1, TimesAreFew DEF WindowRow, AlertsInv
      <4>3. window[r] # Never => WindowCounts(window[r], sent[r], alertClock')
        BY <3>1, <4>1, <4>2 DEF WindowCounts, Limited
      <4>4. QED
        BY <3>1, <4>1, <4>3 DEF Limited
    <3>3. QED
      BY <3>1, <3>2 DEF AlertsInv
  <2>3. ASSUME NEW p \in Reporters, NEW r \in RuleIds, SendToRule(p, r) PROVE AlertsInv'
    <3>1. /\ alertClock' = alertClock /\ alertClock \in Times
          /\ window[r] \in {Never} \cup WindowRow /\ Limited(window[r], sent[r], alertClock)
          /\ window \in [RuleIds -> {Never} \cup WindowRow] /\ sent \in [RuleIds -> [Times -> Nat]]
      BY <2>3 DEF SendToRule, AlertsInv
    <3> DEFINE more == [sent[r] EXCEPT ![alertClock] = @ + 1]
    <3>2. ASSUME NEW w \in WindowRow, window' = [window EXCEPT ![r] = w],
                 sent' = [sent EXCEPT ![r] = more], Limited(w, more, alertClock)
          PROVE  AlertsInv'
      <4>1. more \in [Times -> Nat]
        BY <3>1
      <4> HIDE DEF more
      <4>2. /\ window' \in [RuleIds -> {Never} \cup WindowRow] /\ sent' \in [RuleIds -> [Times -> Nat]]
            /\ window'[r] = w /\ sent'[r] = more
            /\ \A q \in RuleIds : q # r => window'[q] = window[q] /\ sent'[q] = sent[q]
        BY <3>1, <3>2, <4>1
      <4>3. \A q \in RuleIds : Limited(window'[q], sent'[q], alertClock')
        BY <3>1, <3>2, <4>2 DEF AlertsInv
      <4>4. QED
        BY <3>1, <4>2, <4>3 DEF AlertsInv
    <3>3. CASE WindowFull(r) /\ UNCHANGED <<window, sent>>
      BY <2>1, <3>1, <3>3
    <3>4. CASE TryConsumeRateLimit(r) /\ sent' = [sent EXCEPT ![r][alertClock] = @ + 1]
      <4>1. sent' = [sent EXCEPT ![r] = more]
        BY <3>4
      <4>2. CASE /\ window[r] # Never => alertClock - window[r].start >= RateWindow
                 /\ window' = [window EXCEPT ![r] = [count |-> 1, start |-> alertClock]]
        <5>1. [count |-> 1, start |-> alertClock] \in WindowRow
          BY <3>1, TimesAreFew DEF WindowRow
        <5>2. Limited([count |-> 1, start |-> alertClock], more, alertClock)
          BY <3>1, <4>2, WindowOpens
        <5>3. QED
          BY <3>2, <4>1, <4>2, <5>1, <5>2
      <4>3. CASE /\ window[r] # Never /\ window[r].count < MaxPerWindow
                 /\ alertClock - window[r].start < RateWindow
                 /\ window' = [window EXCEPT ![r].count = @ + 1]
        <5> DEFINE v == [window[r] EXCEPT !.count = @ + 1]
        <5>1. window[r] \in WindowRow /\ v \in WindowRow /\ window' = [window EXCEPT ![r] = v]
          BY <3>1, <4>3 DEF WindowRow
        <5>2. Limited(v, more, alertClock)
          BY <3>1, <4>3, <5>1, WindowFills
        <5>3. QED
          BY <3>2, <4>1, <5>1, <5>2
      <4>4. QED
        BY <3>4, <4>2, <4>3 DEF TryConsumeRateLimit
    <3>5. QED
      BY <2>3, <3>3, <3>4 DEF SendToRule
  <2>4. ASSUME NEW r \in RuleIds, RuleRequest(r) PROVE UNCHANGED <<window, sent, alertClock>>
    BY <2>4 DEF RuleRequest, CreateRule, UpdateRule, DeleteRule
  <2>5. ASSUME NEW p \in Reporters, ReadRules(p) \/ Reported(p)
        PROVE  UNCHANGED <<window, sent, alertClock>>
    BY <2>5 DEF ReadRules, Reported
  <2>6. ASSUME NEW p \in Reporters, NEW type, NEW named, SendMatchingRules(p, type, named)
        PROVE  UNCHANGED <<window, sent, alertClock>>
    BY <2>6 DEF SendMatchingRules
  <2>7. ASSUME NEW p \in Reporters, NEW answer, NEW row \in BOOLEAN, Post(p, answer, row)
        PROVE  UNCHANGED <<window, sent, alertClock>>
    BY <2>7 DEF Post
  <2>8. CASE UNCHANGED alertVars
    BY <2>1, <2>8 DEF alertVars
  <2>9. QED
    BY <2>1, <2>2, <2>3, <2>4, <2>5, <2>6, <2>7, <2>8 DEF AlertsNext
<1>3. QED
  BY <1>1, <1>2, PTL DEF AlertsSpec

(* However the requests that report a player or a keyword interleave, in    *)
(* any stretch of time as long as the limiter's window a rule sends less    *)
(* than twice the limit (tryConsumeRateLimit of discord.service.ts), for    *)
(* every window, limit and number of rules and requests.                    *)
THEOREM RulesDoNotFlood == AlertsSpec => []ChannelNotFlooded
<1>1. AlertsInv => ChannelNotFlooded
  <2> SUFFICES ASSUME AlertsInv, NEW r \in RuleIds, NEW t \in 0..MaxTime
      PROVE MapThenSumSet(LAMBDA u : sent[r][u], {u \in 0..MaxTime : u >= t /\ u < t + RateWindow})
                < 2 * MaxPerWindow
    BY DEF ChannelNotFlooded
  <2>1. t \in Times /\ Sent(sent[r], t, t + RateWindow) < 2 * MaxPerWindow
    BY DEF AlertsInv, Limited, Times
  <2>2. {u \in 0..MaxTime : u >= t /\ u < t + RateWindow} = {u \in Times : t <= u /\ u < t + RateWindow}
    BY TimesAreFew DEF Times
  <2>3. QED
    BY <2>1, <2>2 DEF Sent, SumOf
<1>2. QED
  BY <1>1, AlertsInvariant, PTL

-----------------------------------------------------------------------------
(* The next time of a schedule.                                            *)

(* Division by a positive number, and what it is not.                       *)
LEMMA Division ==
    ASSUME NEW a \in Nat, NEW b \in Nat \ {0}
    PROVE  a \div b \in Nat /\ a % b \in 0..b-1 /\ a = b * (a \div b) + (a % b)
<1>1. a \div b \in Nat /\ a % b \in 0..b-1
  OBVIOUS
<1>2. a = b * (a \div b) + (a % b)
  <2>1. a \in Int /\ b \in Int /\ b > 0
    OBVIOUS
  <2>2. QED
    BY <2>1, SMTT(30)
<1>3. QED
  BY <1>1, <1>2

LEMMA DivisionIsUnique ==
    ASSUME NEW q \in Nat, NEW r \in Nat, NEW b \in Nat \ {0}, r < b
    PROVE  (b * q + r) % b = r
  OBVIOUS

LEMMA ProductGrows ==
    ASSUME NEW x \in Nat, NEW y \in Nat, NEW b \in Nat, x <= y
    PROVE  b * x \in Nat /\ b * y \in Nat /\ b * x <= b * y
<1>1. PICK d \in Nat : y = x + d
  OBVIOUS
<1>2. b * y = b * x + b * d /\ b * d \in Nat /\ b * x \in Nat
  BY <1>1
<1>3. QED
  BY <1>2

(* The multiples of a number that are not over a bound.                     *)
LEMMA Multiples ==
    ASSUME NEW m \in Nat, NEW a \in 0..m, NEW b \in Nat \ {0}
    PROVE  a % b = 0 <=> \E k \in 0..(m \div b) : a = k * b
<1> DEFINE k == a \div b
           n == m \div b
<1>1. k \in Nat /\ a % b \in Nat /\ a = b * k + (a % b)
  BY Division
<1>2. n \in Nat /\ m % b \in 0..b-1 /\ m = b * n + (m % b)
  BY Division
<1> HIDE DEF k, n
<1>3. ASSUME a % b = 0 PROVE \E j \in 0..n : a = j * b
  <2>1. a = b * k /\ a = k * b
    BY <1>1, <1>3
  <2>2. k <= n
    <3>1. SUFFICES ASSUME n + 1 <= k PROVE FALSE
      BY <1>1, <1>2
    <3>2. b * (n + 1) <= b * k /\ b * (n + 1) = b * n + b /\ b * n \in Nat
      BY <1>1, <1>2, <3>1, ProductGrows
    <3>3. QED
      BY <1>2, <2>1, <3>2
  <2>3. k \in 0..n
    BY <1>1, <1>2, <2>2
  <2>4. QED
    BY <2>1, <2>3
<1>4. ASSUME NEW j \in 0..n, a = j * b PROVE a % b = 0
  <2>1. j \in Nat /\ a = b * j + 0
    BY <1>2, <1>4
  <2>2. (b * j + 0) % b = 0
    BY <2>1, DivisionIsUnique
  <2>3. QED
    BY <2>1, <2>2
<1>5. QED
  BY <1>3, <1>4 DEF n

(* A number is in the parsed set of a valid field exactly when the field    *)
(* says so.                                                                 *)
LEMMA FieldParsed ==
    ASSUME NEW min \in Nat, NEW max \in Nat, min <= max, NEW field \in SUBSET CronItems,
           \A item \in field : ItemIsValid(item, min, max), NEW v \in min..max
    PROVE  v \in ParseSet(field, min, max) <=>
               \/ field = {}
               \/ \E item \in field :
                     \/ "number" \in DOMAIN item /\ v = item.number
                     \/ "step" \in DOMAIN item /\ (v - min) % item.step = 0
<1>1. ASSUME NEW item \in field
      PROVE  v \in ParseItem(item, min, max) <=>
                 \/ "number" \in DOMAIN item /\ v = item.number
                 \/ "step" \in DOMAIN item /\ (v - min) % item.step = 0
  <2>1. CASE item \in [number : Nat]
    BY <2>1 DEF ParseItem
  <2>2. CASE item \in [step : Nat]
    <3> DEFINE a == v - min
               m == max - min
               b == item.step
    <3>1. a \in 0..m /\ m \in Nat /\ b \in Nat \ {0}
      BY <2>2 DEF ItemIsValid
    <3>2. v \in ParseItem(item, min, max) <=> \E k \in 0..(m \div b) : v = min + k * b
      BY <2>2 DEF ParseItem
    <3>3. m \div b \in Nat
      BY <3>1, Division
    <3> HIDE DEF b, m
    <3>4. \A k \in 0..(m \div b) : v = min + k * b <=> a = k * b
      <4>1. ASSUME NEW k \in 0..(m \div b) PROVE v = min + k * b <=> a = k * b
        <5>1. k * b \in Nat
          BY <3>1, <3>3
        <5> HIDE DEF m
        <5>2. QED
          BY <5>1
      <4>2. QED
        BY <4>1
    <3>5. a % b = 0 <=> \E k \in 0..(m \div b) : a = k * b
      <4> HIDE DEF a
      <4>1. QED
        BY <3>1, Multiples
    <3>6. QED
      BY <2>2, <3>2, <3>4, <3>5 DEF b
  <2>3. QED
    BY <2>1, <2>2 DEF CronItems
<1>2. field # {} => (v \in ParseSet(field, min, max) <=> \E item \in field : v \in ParseItem(item, min, max))
  BY DEF ParseSet
<1>3. field = {} => v \in ParseSet(field, min, max)
  BY DEF ParseSet
<1>4. QED
  BY <1>1, <1>2, <1>3


(* The fields of a time are numbers of their ranges.                        *)
LEMMA FieldsInRange ==
    ASSUME NEW t \in Nat
    PROVE  /\ MinutesPerDay \in Nat \ {0}
           /\ \A f \in 1..5 : Least[f] \in Nat /\ Greatest[f] \in Nat /\ Least[f] <= Greatest[f]
                              /\ Fields5(t)[f] \in Least[f]..Greatest[f]
<1>1. /\ MinutesPerHour \in Nat \ {0} /\ HoursPerDay \in Nat \ {0} /\ DaysPerMonth \in Nat \ {0}
      /\ MonthsPerYear \in Nat \ {0} /\ DaysPerWeek \in Nat \ {0}
  BY CronAssumption
<1>2. MinutesPerDay \in Nat \ {0}
  BY <1>1 DEF MinutesPerDay
<1> DEFINE day == t \div MinutesPerDay
           month == day \div DaysPerMonth
           hour == t \div MinutesPerHour
<1>3. day \in Nat /\ hour \in Nat
  BY <1>1, <1>2, Division
<1>4. Fields5(t) = <<t % MinutesPerHour, hour % HoursPerDay, 1 + (day % DaysPerMonth),
                     1 + (month % MonthsPerYear), day % DaysPerWeek>>
  BY DEF Fields5
<1> HIDE DEF day, hour
<1>5. month \in Nat
  BY <1>1, <1>3, Division
<1> HIDE DEF month
<1>6. /\ t % MinutesPerHour \in 0..MinutesPerHour-1 /\ hour % HoursPerDay \in 0..HoursPerDay-1
      /\ day % DaysPerMonth \in 0..DaysPerMonth-1 /\ month % MonthsPerYear \in 0..MonthsPerYear-1
      /\ day % DaysPerWeek \in 0..DaysPerWeek-1
  BY <1>1, <1>3, <1>5, Division
<1> DEFINE f1 == t % MinutesPerHour
           f2 == hour % HoursPerDay
           f3 == 1 + (day % DaysPerMonth)
           f4 == 1 + (month % MonthsPerYear)
           f5 == day % DaysPerWeek
<1>7. /\ f1 \in 0..MinutesPerHour-1 /\ f2 \in 0..HoursPerDay-1 /\ f3 \in 1..DaysPerMonth
      /\ f4 \in 1..MonthsPerYear /\ f5 \in 0..DaysPerWeek-1
  BY <1>1, <1>6
<1>8. Fields5(t) = <<f1, f2, f3, f4, f5>>
  BY <1>4
<1> HIDE DEF f1, f2, f3, f4, f5
<1>9. ASSUME NEW f \in 1..5
      PROVE  Least[f] \in Nat /\ Greatest[f] \in Nat /\ Least[f] <= Greatest[f]
             /\ Fields5(t)[f] \in Least[f]..Greatest[f]
  <2>1. f \in {1, 2, 3, 4, 5}
    OBVIOUS
  <2>2. QED
    BY <1>1, <1>7, <1>8, <2>1 DEF Least, Greatest
<1>10. QED
  BY <1>2, <1>9

CronRow == [pc : {"try", "null", "found"}, expr : [1..5 -> SUBSET CronItems], now : Nat, t : Nat,
            i : Nat, window : Windows]

CronTypeOK == cron \in [pc : {"idle"}] \cup CronRow

\* The minutes that were tried do not fit.
TriedInTurn ==
    /\ cron.pc = "try" =>
        /\ Valid(cron.expr) /\ cron.i <= MaxIter /\ cron.t = cron.now + 1 + cron.i
        /\ \A u \in cron.now + 1 .. cron.t - 1 : ~Due(u)
    /\ cron.pc = "null" /\ Valid(cron.expr) =>
        \A u \in cron.now + 1 .. cron.now + MaxIter : ~Due(u)

CronInv == CronTypeOK /\ TriedInTurn /\ NextRunIsFirst

(* A minute fits the parsed sets exactly when the fields say so.            *)
LEMMA MatchesWhenDue ==
    ASSUME cron \in CronRow, Valid(cron.expr), NEW u \in Nat
    PROVE  Matches5(u) <=> Due(u)
<1>1. ASSUME NEW f \in 1..5
      PROVE  Fields5(u)[f] \in ParseSet(cron.expr[f], Least[f], Greatest[f]) <=>
                 \/ cron.expr[f] = {}
                 \/ \E item \in cron.expr[f] :
                     \/ "number" \in DOMAIN item /\ Fields5(u)[f] = item.number
                     \/ "step" \in DOMAIN item /\ (Fields5(u)[f] - Least[f]) % item.step = 0
  <2> DEFINE v == Fields5(u)[f]
             field == cron.expr[f]
             min == Least[f]
             max == Greatest[f]
  <2>1. min \in Nat /\ max \in Nat /\ min <= max /\ v \in min..max
    BY FieldsInRange
  <2>2. field \in SUBSET CronItems
    BY DEF CronRow
  <2>3. \A item \in field : ItemIsValid(item, min, max)
    BY DEF Valid
  <2> HIDE DEF v, field, min, max
  <2>4. v \in ParseSet(field, min, max) <=>
            \/ field = {}
            \/ \E item \in field :
                  \/ "number" \in DOMAIN item /\ v = item.number
                  \/ "step" \in DOMAIN item /\ (v - min) % item.step = 0
    BY <2>1, <2>2, <2>3, FieldParsed
  <2>5. QED
    BY <2>4 DEF v, field, min, max
<1>2. QED
  BY <1>1 DEF Matches5, Due


(* The window: the minute itself when it is in it or there is none, and     *)
(* otherwise the first minute of the next window.                           *)
LEMMA ClampIsFirst ==
    ASSUME NEW t \in Nat, NEW w \in Windows
    PROVE  /\ Clamp(t, w) \in Nat /\ t <= Clamp(t, w)
           /\ w = <<>> => Clamp(t, w) = t
           /\ w # <<>> /\ w[1] <= w[2] =>
                  /\ Clamp(t, w) % MinutesPerDay \in w[1]..w[2]
                  /\ \A u \in t .. Clamp(t, w) - 1 : u % MinutesPerDay \notin w[1]..w[2]
<1> DEFINE d == MinutesPerDay
           m == t % d
           q == t \div d
           c == Clamp(t, w)
<1>1. d \in Nat \ {0}
  BY FieldsInRange
<1> HIDE DEF d
<1>2. q \in Nat /\ m \in 0..d-1 /\ t = d * q + m
  BY <1>1, Division
<1> HIDE DEF q
<1>3. CASE w = <<>>
  <2>1. c = t
    BY <1>3 DEF Clamp
  <2>2. QED
    BY <1>3, <2>1
<1>4. CASE w # <<>>
  <2>1. w \in (0 .. d - 1) \X (0 .. d - 1)
    BY <1>4, CronAssumption DEF d
  <2> DEFINE a == w[1]
             b == w[2]
  <2>2. a \in 0..d-1 /\ b \in 0..d-1
    BY <2>1
  <2>3. /\ m \in a..b => c = t
        /\ m \notin a..b /\ m < a /\ a <= b => c = t - m + a
        /\ m \notin a..b /\ ~(m < a /\ a <= b) => c = t - m + d + a
    <3>1. /\ (w = <<>>) = FALSE /\ (w # <<>>) = TRUE
      BY <1>4
    <3>2. CASE m \in a..b
      <4>1. ~(m < a)
        BY <1>2, <2>2, <3>2
      <4>2. c = t
        BY <3>1, <3>2, <4>1 DEF Clamp, c, m, a, b, d
      <4>3. QED
        BY <3>2, <4>2
    <3>3. CASE m \notin a..b /\ m < a /\ a <= b
      <4>1. c = t - m + a
        BY <3>1, <3>3 DEF Clamp, c, m, a, b, d
      <4>2. QED
        BY <3>3, <4>1
    <3>4. CASE m \notin a..b /\ ~(m < a /\ a <= b)
      <4>1. c = t - m + d + a
        BY <3>1, <3>4 DEF Clamp, c, m, a, b, d
      <4>2. QED
        BY <3>4, <4>1
    <3>5. QED
      BY <3>2, <3>3, <3>4
  <2> HIDE DEF m, c, a, b
  <2>4. d * q \in Nat /\ d * (q + 1) = d * q + d /\ q + 1 \in Nat
    BY <1>1, <1>2
  <2>5. \A r \in 0..d-1 : (d * q + r) % d = r /\ (d * (q + 1) + r) % d = r
    BY <1>1, <1>2, <2>4, DivisionIsUnique
  <2> DEFINE today == d * q
             tomorrow == d * (q + 1)
  <2> HIDE DEF today, tomorrow
  <2>6. /\ today \in Nat /\ tomorrow = today + d /\ t = today + m
        /\ \A r \in 0..d-1 : (today + r) % d = r /\ (tomorrow + r) % d = r
    BY <1>2, <2>4, <2>5 DEF today, tomorrow
  <2>7. CASE m \in a..b
    <3>1. c = t /\ t % d = m
      BY <1>2, <2>3, <2>6, <2>7
    <3>2. QED
      BY <1>4, <2>7, <3>1 DEF c, a, b, d
  <2>8. CASE m \notin a..b /\ m < a /\ a <= b
    <3>1. c = today + a /\ c % d = a /\ c \in Nat /\ t <= c
      <4>1. c = today + a /\ c \in Nat /\ t <= c
        BY <1>1, <1>2, <2>2, <2>3, <2>6, <2>8
      <4>2. (today + a) % d = a
        BY <2>2, <2>6
      <4>3. QED
        BY <4>1, <4>2
    <3>2. ASSUME NEW u \in t .. c - 1 PROVE u % d \notin a..b
      <4>1. u - today \in 0..d-1 /\ u - today < a /\ u = today + (u - today)
        BY <1>1, <1>2, <2>2, <2>6, <3>1
      <4>2. u % d = u - today
        BY <2>6, <4>1
      <4>3. QED
        BY <2>2, <4>1, <4>2
    <3>3. a \in a..b
      BY <2>2, <2>8
    <3>4. QED
      BY <1>4, <2>8, <3>1, <3>2, <3>3 DEF c, a, b, d
  <2>9. CASE m \notin a..b /\ ~(m < a /\ a <= b)
    <3>1. c = tomorrow + a /\ c % d = a /\ c \in Nat /\ t <= c
      <4>1. c = tomorrow + a /\ c \in Nat /\ t <= c
        BY <1>1, <1>2, <2>2, <2>3, <2>6, <2>9
      <4>2. (tomorrow + a) % d = a
        BY <2>2, <2>6
      <4>3. QED
        BY <4>1, <4>2
    <3>2. ASSUME NEW u \in t .. c - 1, a <= b PROVE u % d \notin a..b
      <4>1. m > b
        BY <1>1, <1>2, <2>2, <2>9, <3>2
      <4>2. CASE u < tomorrow
        <5>1. u - today \in 0..d-1 /\ u - today >= m /\ u = today + (u - today)
          BY <1>1, <1>2, <2>2, <2>6, <3>1, <4>2
        <5>2. u % d = u - today
          BY <2>6, <5>1
        <5>3. QED
          BY <1>1, <1>2, <2>2, <4>1, <5>1, <5>2
      <4>3. CASE u >= tomorrow
        <5>1. u - tomorrow \in 0..d-1 /\ u - tomorrow < a /\ u = tomorrow + (u - tomorrow)
          BY <1>1, <1>2, <2>2, <2>6, <3>1, <4>3
        <5>2. u % d = u - tomorrow
          BY <2>6, <5>1
        <5>3. QED
          BY <2>2, <5>1, <5>2
      <4>4. QED
        BY <1>2, <2>6, <3>1, <4>2, <4>3
    <3>3. a <= b => a \in a..b
      BY <2>2
    <3>4. QED
      BY <1>4, <3>1, <3>2, <3>3 DEF c, a, b, d
  <2>10. QED
    BY <2>7, <2>8, <2>9
<1>5. QED
  BY <1>3, <1>4

(* A minute is tried.                                                       *)
LEMMA TryMinuteStep == ASSUME CronInv, TryMinute PROVE CronInv'
<1>1. /\ cron \in CronRow /\ cron.pc = "try" /\ Valid(cron.expr) /\ cron.i <= MaxIter
      /\ cron.t = cron.now + 1 + cron.i /\ \A u \in cron.now + 1 .. cron.t - 1 : ~Due(u)
  BY DEF CronInv, CronTypeOK, TriedInTurn, TryMinute, CronRow
<1>2. /\ cron.now \in Nat /\ cron.t \in Nat /\ cron.i \in Nat /\ cron.window \in Windows
      /\ MaxIter \in Nat
  <2>1. DaysPerMonth \in Nat /\ MonthsPerYear \in Nat /\ MinutesPerDay \in Nat
    BY CronAssumption, FieldsInRange
  <2>2. MinutesPerDay * DaysPerMonth \in Nat
    BY <2>1
  <2>3. MaxIter \in Nat
    BY <2>1, <2>2 DEF MaxIter
  <2>4. QED
    BY <1>1, <2>3 DEF CronRow
<1>3. ASSUME cron'.expr = cron.expr, NEW u \in Nat PROVE Due(u)' <=> Due(u)
  BY <1>3 DEF Due
<1>4. CASE cron.i = MaxIter
  <2>1. cron' = [cron EXCEPT !.pc = "null"]
    BY <1>4 DEF TryMinute
  <2>2. /\ cron' \in CronRow /\ cron'.pc = "null" /\ cron'.expr = cron.expr /\ cron'.now = cron.now
    BY <1>1, <2>1 DEF CronRow
  <2>3. \A u \in cron.now + 1 .. cron.now + MaxIter : u \in Nat /\ u \in cron.now + 1 .. cron.t - 1
    BY <1>1, <1>2, <1>4
  <2>4. \A u \in cron'.now + 1 .. cron'.now + MaxIter : ~Due(u)'
    BY <1>1, <1>3, <2>2, <2>3
  <2>5. CronTypeOK' /\ TriedInTurn'
    BY <2>2, <2>4 DEF CronTypeOK, TriedInTurn
  <2>6. NextRunIsFirst'
    BY <2>2, <2>4 DEF NextRunIsFirst
  <2>7. QED
    BY <2>5, <2>6 DEF CronInv
<1>5. CASE cron.i # MaxIter /\ ~Matches5(cron.t)
  <2>1. cron' = [cron EXCEPT !.i = cron.i + 1, !.t = cron.t + 1]
    BY <1>5 DEF TryMinute
  <2> DEFINE i1 == cron.i + 1
             t1 == cron.t + 1
  <2>2. /\ cron' \in CronRow /\ cron'.pc = "try" /\ cron'.expr = cron.expr /\ cron'.now = cron.now
        /\ cron'.i = i1 /\ cron'.t = t1
    <3>1. i1 \in Nat /\ t1 \in Nat /\ cron' = [cron EXCEPT !.i = i1, !.t = t1]
      BY <1>2, <2>1
    <3> HIDE DEF i1, t1
    <3>2. QED
      BY <1>1, <3>1 DEF CronRow
  <2>3. ~Due(cron.t)
    BY <1>1, <1>2, <1>5, MatchesWhenDue
  <2>4. \A u \in cron.now + 1 .. cron.t : u \in Nat /\ ~Due(u)
    <3>1. \A u \in cron.now + 1 .. cron.t : u \in Nat /\ (u = cron.t \/ u \in cron.now + 1 .. cron.t - 1)
      BY <1>2
    <3>2. QED
      BY <1>1, <2>3, <3>1
  <2>5. cron.t + 1 - 1 = cron.t
    BY <1>2
  <2>6. \A u \in cron'.now + 1 .. cron'.t - 1 : ~Due(u)'
    <3>1. \A u \in cron.now + 1 .. cron.t : ~Due(u)'
      BY <1>3, <2>2, <2>4
    <3>2. cron'.t - 1 = cron.t /\ cron'.now = cron.now
      BY <1>2, <2>2
    <3>3. QED
      BY <3>1, <3>2
  <2>7. Valid(cron.expr)'
    BY <1>1, <2>2 DEF Valid
  <2>8. cron'.i <= MaxIter /\ cron'.t = cron'.now + 1 + cron'.i
    BY <1>1, <1>2, <1>5, <2>2
  <2>9. QED
    BY <2>2, <2>6, <2>7, <2>8 DEF CronInv, CronTypeOK, TriedInTurn, NextRunIsFirst
<1>6. CASE cron.i # MaxIter /\ Matches5(cron.t)
  <2>0. PICK due \in Nat : due = cron.t
    BY <1>2
  <2>1. PICK w \in Windows : w = cron.window
    BY <1>2
  <2>2. PICK c : c = Clamp(due, w)
    OBVIOUS
  <2>3. cron' = [cron EXCEPT !.pc = "found", !.t = c]
    BY <1>6, <2>0, <2>1, <2>2 DEF TryMinute
  <2>4. /\ c \in Nat /\ due <= c
        /\ w = <<>> => c = due
        /\ w # <<>> /\ w[1] <= w[2] =>
               /\ c % MinutesPerDay \in w[1]..w[2]
               /\ \A u \in due .. c - 1 : u % MinutesPerDay \notin w[1]..w[2]
    BY <2>2, ClampIsFirst
  <2>5. /\ cron' \in CronRow /\ cron'.pc = "found" /\ cron'.expr = cron.expr /\ cron'.now = cron.now
        /\ cron'.t = c /\ cron'.window = w
    BY <1>1, <2>1, <2>3, <2>4 DEF CronRow
  <2>6. due \in cron.now + 1 .. c /\ Due(due)'
    <3>1. Due(due)
      BY <1>1, <1>6, <2>0, MatchesWhenDue
    <3>2. QED
      BY <1>1, <1>2, <1>3, <2>0, <2>4, <2>5, <3>1
  <2>7. \A u \in cron.now + 1 .. due - 1 : ~Due(u)'
    <3>1. \A u \in cron.now + 1 .. due - 1 : u \in Nat /\ ~Due(u)
      BY <1>1, <1>2, <2>0
    <3>2. QED
      BY <1>3, <2>5, <3>1
  <2>8. ASSUME ~Overnight' PROVE Open5(c)' /\ \A u \in due .. c - 1 : ~Open5(u)'
    <3>1. CASE w = <<>>
      <4>1. \A u \in due .. c - 1 : FALSE
        BY <2>4, <3>1
      <4>2. Open5(c)'
        BY <2>5, <3>1 DEF Open5
      <4>3. QED
        BY <4>1, <4>2
    <3>2. CASE w # <<>>
      <4>1. w[1] \in Nat /\ w[2] \in Nat
        <5>1. w \in (0 .. MinutesPerDay - 1) \X (0 .. MinutesPerDay - 1)
          BY <3>2, CronAssumption
        <5>2. MinutesPerDay \in Nat
          BY <2>0, FieldsInRange
        <5>3. QED
          BY <5>1, <5>2
      <4>2. w[1] <= w[2]
        BY <2>5, <2>8, <3>2, <4>1 DEF Overnight
      <4>3. QED
        BY <2>4, <2>5, <3>2, <4>2 DEF Open5
    <3>3. QED
      BY <3>1, <3>2
  <2>9. NextRunIsFirst'
    <3>1. c \in Nat /\ cron'.pc = "found" /\ cron'.now = cron.now /\ cron'.t = c
      BY <2>4, <2>5
    <3>2. (~Overnight)' => Open5(cron.t)' /\ \A u \in due .. cron'.t - 1 : ~Open5(u)'
      BY <2>8, <3>1 DEF Open5
    <3>3. due \in cron'.now + 1 .. cron'.t /\ Due(due)' /\ \A u \in cron'.now + 1 .. due - 1 : ~Due(u)'
      BY <2>6, <2>7, <3>1
    <3>4. QED
      BY <3>1, <3>2, <3>3 DEF NextRunIsFirst
  <2>10. QED
    BY <2>5, <2>9 DEF CronInv, CronTypeOK, TriedInTurn
<1>7. QED
  BY <1>4, <1>5, <1>6

LEMMA CronInvariant == CronSpec => []CronInv
<1>1. CronInit => CronInv
  BY DEF CronInit, CronInv, CronTypeOK, TriedInTurn, NextRunIsFirst
<1>2. CronInv /\ [CronNext]_cronVars => CronInv'
  <2> SUFFICES ASSUME CronInv, [CronNext]_cronVars PROVE CronInv'
    OBVIOUS
  <2>1. ASSUME NEW expr \in Expressions, NEW now \in Nows, NEW w \in Windows, GetNextCronRun(expr, now, w)
        PROVE  CronInv'
    <3>1. expr \in [1..5 -> SUBSET CronItems] /\ now \in Nat /\ w \in Windows
      BY CronAssumption
    <3> DEFINE pc == IF Valid(expr) THEN "try" ELSE "null"
               first == now + 1
    <3>2. first \in Nat /\ first = now + 1 + 0 /\ \A u \in now + 1 .. first - 1 : FALSE
      BY <3>1
    <3>3. pc \in {"try", "null"} /\ (pc = "try" <=> Valid(expr))
      OBVIOUS
    <3>4. cron' = [pc |-> pc, expr |-> expr, now |-> now, t |-> first, i |-> 0, window |-> w]
      BY <2>1 DEF GetNextCronRun
    <3> HIDE DEF pc, first
    <3>5. /\ cron' \in CronRow /\ cron'.pc = pc /\ cron'.expr = expr /\ cron'.now = now
          /\ cron'.t = first /\ cron'.i = 0
      BY <3>1, <3>2, <3>3, <3>4 DEF CronRow
    <3>6. Valid(cron.expr)' <=> pc = "try"
      BY <3>3, <3>5 DEF Valid
    <3>7. MaxIter \in Nat
      <4>1. DaysPerMonth \in Nat /\ MonthsPerYear \in Nat /\ MinutesPerDay \in Nat
        BY <3>1, CronAssumption, FieldsInRange
      <4>2. MinutesPerDay * DaysPerMonth \in Nat
        BY <4>1
      <4>3. QED
        BY <4>1, <4>2 DEF MaxIter
    <3>8. CronTypeOK'
      BY <3>5 DEF CronTypeOK
    <3>9. TriedInTurn' /\ NextRunIsFirst'
      BY <3>2, <3>3, <3>5, <3>6, <3>7 DEF TriedInTurn, NextRunIsFirst
    <3>10. QED
      BY <3>8, <3>9 DEF CronInv
  <2>2. CASE TryMinute
    BY <2>2, TryMinuteStep
  <2>3. CASE UNCHANGED cronVars
    BY <2>3, SMTT(30)
    DEF cronVars, CronInv, CronTypeOK, TriedInTurn, NextRunIsFirst, Valid, Due, Overnight, Open5
  <2>4. QED
    BY <2>1, <2>2, <2>3 DEF CronNext
<1>3. QED
  BY <1>1, <1>2, PTL DEF CronSpec

(* The next run of a schedule is the first minute of its window at or after *)
(* the first one that fits its expression, and there is none only when a    *)
(* year has none (getNextCronRun and clampToExecutionWindow of cron-next.ts *)
(* and computeNextRun of scheduler.service.ts), for every expression,       *)
(* window and minute, and every length of the hour, the day, the month and  *)
(* the year.                                                                *)
THEOREM NextRunsAreFirst == CronSpec => []NextRunIsFirst
<1>1. CronInv => NextRunIsFirst
  BY DEF CronInv
<1>2. QED
  BY <1>1, CronInvariant, PTL

=============================================================================
