-------------------------------- MODULE Logs --------------------------------
(***************************************************************************)
(* Log chunks in the control plane (logs.service.ts, the chat relay of     *)
(* alerts.service.ts and discord.service.ts), composed with the agent's    *)
(* tailer.  Every line is a chat message.  The agent waits 30 seconds for  *)
(* the answer to a chunk and then sends the chunk again, so that several   *)
(* append requests of one server may be in progress.                       *)
(***************************************************************************)
EXTENDS LogTail

CONSTANTS
    Appends,        \* append requests that may be in progress at once
    Second,         \* the first token of each line: its time, in seconds
    Oldest,         \* the lines that may become older than the retention
    MaxFailures     \* bound on calls that throw and deaths of a process

ASSUME LogsAssumption ==
    /\ Second \in [1..MaxLines -> Nat]
    /\ Oldest \in Nat /\ MaxFailures \in Nat

VARIABLES
    req,            \* the append requests
    chat,           \* lines with a player_chat event
    fate,           \* what became of a line: "posted" to Discord, "moderated", or
                    \* "dropped" when its relay ended before it had an outcome
    relayPending,   \* lines with a player_chat_relay_pending event
    relayOn,        \* a relay rule with a webhook is enabled
    expired,        \* lines whose events were older than the retention
    unparsed,       \* lines whose parsing was given up
    failures

relayVars == <<chat, fate, relayPending>>
faultVars == <<expired, unparsed, failures>>
vars == <<fileVars, tailVars, req, relayVars, relayOn, faultVars>>

NoRequest == [pc |-> "idle", lines |-> <<>>, todo |-> {}, client |-> FALSE]

Init ==
    /\ TailInit
    /\ req = [q \in Appends |-> NoRequest]
    /\ chat = {} /\ relayPending = {}
    /\ fate = [m \in 1..MaxLines |-> "none"]
    /\ relayOn = TRUE
    /\ expired = {} /\ unparsed = {}
    /\ failures = 0

Doing(q, p) == req[q].pc = p
Line(q) == Head(req[q].lines)
NextLine(q) == req' = [req EXCEPT ![q].lines = Tail(@), ![q].pc = IF Len(req[q].lines) = 1 THEN "retry" ELSE "chat"]
GoTo(q, p) == req' = [req EXCEPT ![q].pc = p]
Fail == failures < MaxFailures /\ failures' = failures + 1
Unheard == [q \in Appends |-> [req[q] EXCEPT !.client = FALSE]]

-----------------------------------------------------------------------------
(* The upload                                                              *)

\* StreamLogBytes; append stores the chunk and takes its lines.
AppendChunk(q) ==
    /\ tail.pc = "flush" /\ Doing(q, "idle")
    /\ tail' = [tail EXCEPT !.pc = "upload"]
    /\ req' = [req EXCEPT ![q] = [pc |-> "chat", lines |-> tail.pending, todo |-> {}, client |-> TRUE]]
    /\ UNCHANGED <<fileVars, acked, taken, relayVars, relayOn, faultVars>>

\* The chunk never arrives, or its answer is late: the request goes on.
UploadLost ==
    /\ Fail
    /\ UploadFails
    /\ req' = Unheard
    /\ UNCHANGED <<relayVars, relayOn, expired, unparsed>>

\* prune deletes the events that are older than the retention, those of the
\* lines up to the given one; append ends and answers.
Answer(q, upto) ==
    /\ Doing(q, "done")
    /\ IF req[q].client THEN Uploaded ELSE UNCHANGED <<fileVars, tailVars>>
    /\ req' = [req EXCEPT ![q] = NoRequest]
    /\ chat' = {m \in chat : m > upto}
    /\ relayPending' = {m \in relayPending : m > upto}
    /\ expired' = expired \cup {m \in chat : m <= upto}
    /\ UNCHANGED <<fate, relayOn, unparsed, failures>>

-----------------------------------------------------------------------------
(* parseChat                                                               *)

\* There is an event with the same first token.
Recorded(m) == \E c \in chat : Second[c] = Second[m]

CheckDuplicate(q) ==
    /\ Doing(q, "chat")
    /\ IF Recorded(Line(q)) THEN NextLine(q) ELSE GoTo(q, "create")
    /\ UNCHANGED <<fileVars, tailVars, relayVars, relayOn, faultVars>>

CreateEvent(q) ==
    /\ Doing(q, "create")
    /\ chat' = chat \cup {Line(q)}
    /\ GoTo(q, "moderate")
    /\ UNCHANGED <<fileVars, tailVars, fate, relayPending, relayOn, faultVars>>

\* moderateChat: a muted player, a blocked word or a flood.
ModerateChat(q, hit) ==
    /\ Doing(q, "moderate")
    /\ fate' = IF hit THEN [fate EXCEPT ![Line(q)] = "moderated"] ELSE fate
    /\ IF hit THEN NextLine(q) ELSE GoTo(q, "relay")
    /\ UNCHANGED <<fileVars, tailVars, chat, relayPending, relayOn, faultVars>>

\* DiscordService.send: the rate limit, three attempts and their time-outs
\* come to a message that is posted, or to an error, after which it may have
\* been posted all the same.
DiscordSend(ok, arrived) == ok => arrived

\* Without a rule there is nothing to do.
RelayPlayerChat(m, ok, arrived) ==
    /\ DiscordSend(ok, arrived)
    /\ fate' = IF ~relayOn THEN [fate EXCEPT ![m] = IF @ = "posted" THEN @ ELSE "dropped"]
               ELSE IF arrived THEN [fate EXCEPT ![m] = "posted"] ELSE fate

RelayLine(q, ok, arrived) ==
    /\ Doing(q, "relay")
    /\ RelayPlayerChat(Line(q), ok, arrived)
    /\ IF relayOn /\ ~ok THEN GoTo(q, "note") ELSE NextLine(q)
    /\ UNCHANGED <<fileVars, tailVars, chat, relayPending, relayOn, faultVars>>

NotePending(q) ==
    /\ Doing(q, "note")
    /\ relayPending' = relayPending \cup {Line(q)}
    /\ NextLine(q)
    /\ UNCHANGED <<fileVars, tailVars, chat, fate, relayOn, faultVars>>

InRelay(q) == IF req[q].pc \in {"moderate", "relay", "note"} THEN {Line(q)} ELSE {}

Dropped(lines) == [m \in 1..MaxLines |-> IF m \in lines /\ fate[m] = "none" THEN "dropped" ELSE fate[m]]

\* A call of parseChat throws; append ignores it.
ParseFails(q) ==
    /\ req[q].pc \in {"chat", "create", "relay", "note"}
    /\ Fail
    /\ unparsed' = unparsed \cup ToSet(req[q].lines)
    /\ fate' = Dropped(InRelay(q))
    /\ req' = [req EXCEPT ![q].pc = "retry", ![q].lines = <<>>]
    /\ UNCHANGED <<fileVars, tailVars, chat, relayPending, relayOn, expired>>

-----------------------------------------------------------------------------
(* retryChatRelays                                                         *)

RetryRead(q) ==
    /\ Doing(q, "retry")
    /\ req' = [req EXCEPT ![q].todo = relayPending, ![q].pc = IF relayPending = {} THEN "done" ELSE "resend"]
    /\ UNCHANGED <<fileVars, tailVars, relayVars, relayOn, faultVars>>

Retried(q, m) ==
    req' = [req EXCEPT ![q].todo = @ \ {m}, ![q].pc = IF req[q].todo = {m} THEN "done" ELSE "resend"]

\* Mutant: the row is deleted whatever the outcome.
Resend_Forgets(q, ok, arrived) ==
    /\ Doing(q, "resend")
    /\ RelayPlayerChat(Min(req[q].todo), ok, arrived)
    /\ GoTo(q, "delete")
    /\ UNCHANGED <<fileVars, tailVars, chat, relayPending, relayOn, faultVars>>

\* The oldest first; the row stays when the message is refused again.
Resend(q, ok, arrived) ==
    LET m == Min(req[q].todo) IN
    /\ Doing(q, "resend")
    /\ RelayPlayerChat(m, ok, arrived)
    /\ IF ok \/ ~relayOn THEN GoTo(q, "delete") ELSE Retried(q, m)
    /\ UNCHANGED <<fileVars, tailVars, chat, relayPending, relayOn, faultVars>>

\* A row another request has deleted is an error, and ends the retries.
DeletePending(q) ==
    LET m == Min(req[q].todo) IN
    /\ Doing(q, "delete")
    /\ relayPending' = relayPending \ {m}
    /\ IF m \in relayPending THEN Retried(q, m) ELSE GoTo(q, "done")
    /\ UNCHANGED <<fileVars, tailVars, chat, fate, relayOn, faultVars>>

-----------------------------------------------------------------------------
(* The surroundings                                                        *)

\* updateChatSettings.
UpdateChatSettings ==
    /\ relayOn' = ~relayOn
    /\ UNCHANGED <<fileVars, tailVars, req, relayVars, faultVars>>

\* The control plane is started again: requests in progress are lost.
RestartControlPlane ==
    /\ Fail
    /\ req' = [q \in Appends |-> NoRequest]
    /\ IF tail.pc = "upload" THEN UploadFails ELSE UNCHANGED <<fileVars, tailVars>>
    /\ fate' = Dropped(UNION {InRelay(q) : q \in Appends})
    /\ UNCHANGED <<chat, relayPending, relayOn, expired, unparsed>>

RestartAgent ==
    /\ Fail
    /\ StopAgent
    /\ req' = Unheard
    /\ UNCHANGED <<relayVars, relayOn, expired, unparsed>>

-----------------------------------------------------------------------------

TailStep ==
    /\ Open \/ SwitchToReplacement \/ \E late \in BOOLEAN : Read(late)
    /\ UNCHANGED <<req, relayVars, relayOn, faultVars>>

RequestStep(q) ==
    \/ CheckDuplicate(q) \/ CreateEvent(q) \/ NotePending(q) \/ RetryRead(q) \/ DeletePending(q)
    \/ \E hit \in BOOLEAN : ModerateChat(q, hit)
    \/ \E ok, arrived \in BOOLEAN : RelayLine(q, ok, arrived) \/ Resend(q, ok, arrived)
    \/ \E upto \in 0..Oldest : Answer(q, upto)

Next ==
    \/ FileStep /\ UNCHANGED <<req, relayVars, relayOn, faultVars>>
    \/ TailStep
    \/ \E q \in Appends : AppendChunk(q) \/ RequestStep(q) \/ ParseFails(q)
    \/ UploadLost \/ UpdateChatSettings \/ RestartControlPlane \/ RestartAgent

Spec == Init /\ [][Next]_vars

-----------------------------------------------------------------------------
(* Properties                                                              *)

\* A line whose second has had a chat event, or that the parser gave up.
Covered(m) == m \in unparsed \/ \E c \in chat \cup expired : Second[c] = Second[m]

\* What the tailer has read is acknowledged or still held, whatever uploads fail and
\* whatever happens to the file meanwhile; and a line is acknowledged, and then forgotten
\* by the agent, only when its second has a chat event: otherwise a call of the parser
\* threw, or the event has expired since.
ReadIsRecorded ==
    /\ taken \subseteq acked \cup ToSet(tail.pending)
    /\ \A m \in acked : Covered(m)

\* How what the agent has read and what was acknowledged may change in a step.
IntakeStep ==
    \/ taken \subseteq taken' /\ acked' = acked
    \/ taken' = taken /\ acked' = taken /\ \A m \in taken : Covered(m)
    \/ taken' = acked /\ acked' = acked

\* The agent reads lines, has everything it read acknowledged at once and only when all
\* of it is recorded, or dies and forgets the rest: no answer to an upload acknowledges
\* part of a chunk, and no failed one is taken for an answer.
WholeChunks == [][IntakeStep]_<<taken, acked>>

\* A recorded message that was not moderated is posted, waits for a retry or
\* is being relayed: only a process that died and a switched-off relay lose it.
RelayAccounted ==
    \A m \in chat : m \in relayPending \/ fate[m] # "none" \/ \E q \in Appends : m \in InRelay(q)
=============================================================================
