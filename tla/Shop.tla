-------------------------------- MODULE Shop --------------------------------
(***************************************************************************)
(* A donation of one player: the checkout of an article, Stripe's          *)
(* webhooks, the ledger and the items the donation grants (control-plane/  *)
(* src/donations and the shop grants of jobs.service.ts).  Stripe delivers *)
(* an event at least once and in any order.  Webhooks, roster results and  *)
(* results of grant jobs are handled by requests that may be in progress   *)
(* at once: each reads rows, computes from its copies and writes the       *)
(* outcome back.                                                           *)
(***************************************************************************)
EXTENDS Integers, FiniteSets, FiniteSetsExt

CONSTANTS
    Amount,         \* what the session charges
    Items,          \* the indexes of the items the article grants
    Givable,        \* the items a give command can be built for
    Handlers,       \* requests that may be in progress at once
    MaxAttempts,    \* MAX_GRANT_ATTEMPTS
    MaxFailures     \* bound on deaths of the process and calls that throw

ASSUME ShopAssumption ==
    /\ Amount \in Nat \ {0}
    /\ Items \subseteq Nat /\ IsFiniteSet(Items) /\ Givable \subseteq Items
    /\ IsFiniteSet(Handlers)
    /\ MaxAttempts \in Nat \ {0} /\ MaxFailures \in Nat

VARIABLES
    checkout,    \* "none", or how the player who paid the session was signed in
    refunds,     \* amounts Stripe has announced as refunded, cumulatively
    donation,    \* the donations row of the session
    other,       \* what another donation of the player has added to the total
    total,       \* player.totalDonatedCents; supporter is total > 0
    line,        \* the donation_lines row of the donation
    online,      \* player.online
    hand,        \* the requests in progress
    jobs,        \* grant jobs under way, by item
    sent,        \* grant jobs enqueued for an item, counted to MaxAttempts + 1
    given,       \* the items the agent has given
    lost,        \* rows some request overwrote with values computed from an older copy
    failures

stripeVars == <<checkout, refunds>>
ledgerVars == <<donation, other, total>>
jobVars == <<jobs, sent, given>>
vars == <<stripeVars, ledgerVars, line, online, hand, jobVars, lost, failures>>

Outcomes == {"delivered", "retry", "failed"}

NoGrants == [i \in {} |-> 0]
Idle == [pc |-> "idle", i |-> 0, n |-> 0, r |-> 0, copy |-> NoGrants, todo |-> {}]

Init ==
    /\ checkout = "none"
    /\ refunds = {}
    /\ donation = [status |-> "none", refunded |-> 0]
    /\ other = 0
    /\ total = 0
    /\ line = [grants |-> NoGrants, status |-> "none", fresh |-> FALSE]
    /\ online = FALSE
    /\ hand = [h \in Handlers |-> Idle]
    /\ jobs = [i \in Items |-> 0]
    /\ sent = [i \in Items |-> 0]
    /\ given = {}
    /\ lost = {}
    /\ failures = 0

Doing(h, p) == hand[h].pc = p
Begin(h, r) == Doing(h, "idle") /\ hand' = [hand EXCEPT ![h] = r]
EndRequest(h) == hand' = [hand EXCEPT ![h] = Idle]
Fail == failures < MaxFailures /\ failures' = failures + 1

-----------------------------------------------------------------------------
(* Checkout and Stripe                                                     *)

\* createCheckout and createCartCheckout by a player signed in with Steam or
\* with the Minecraft name, and the payment.  A session that is refused or
\* abandoned changes nothing.
Checkout(auth) ==
    /\ checkout = "none"
    /\ checkout' = auth
    /\ UNCHANGED <<refunds, ledgerVars, line, online, hand, jobVars, lost, failures>>

\* Stripe refunds a part or the rest of a payment, or a dispute is lost, be the
\* payment credited by then or not.
Refund(cents) ==
    /\ checkout # "none"
    /\ \A c \in refunds : cents > c
    /\ refunds' = refunds \cup {cents}
    /\ UNCHANGED <<checkout, ledgerVars, line, online, hand, jobVars, lost, failures>>

-----------------------------------------------------------------------------
(* handleWebhook                                                           *)

\* The player creditPaidSession looks for: by id and by the Steam id in the
\* metadata, which for a player signed in by name is a synthetic "mc:" id that
\* no row has.
PlayerFound == checkout = "steam"

\* creditPaidSession reads the player and looks for the donation; a session
\* it does not credit is acknowledged all the same.
CreditRead(h) ==
    /\ PlayerFound /\ donation.status = "none"
    /\ Begin(h, [Idle EXCEPT !.pc = "credit", !.n = total])
    /\ UNCHANGED <<stripeVars, ledgerVars, line, online, jobVars, lost, failures>>

\* Mutant: one delivered item settles the line.
AggregateGrantStatus_AnyDelivered(grants) ==
    LET has(st) == \E i \in DOMAIN grants : grants[i].status = st IN
    CASE DOMAIN grants = {} -> "none"
      [] has("delivered") -> "delivered"
      [] has("pending") -> "pending"
      [] has("queued") -> "queued"
      [] OTHER -> "failed"

AggregateGrantStatus(grants) ==
    LET has(st) == \E i \in DOMAIN grants : grants[i].status = st
        all(st) == \A i \in DOMAIN grants : grants[i].status = st IN
    CASE DOMAIN grants = {} -> "none"
      [] all("delivered") -> "delivered"
      [] all("failed") -> "failed"
      [] has("pending") -> "pending"
      [] has("queued") -> "queued"
      [] OTHER -> "partial"

\* buildDonationLines, from the grants of the article.
SnapshotLine(articleGrants) ==
    LET grants == [i \in articleGrants |-> [status |-> "pending", attempts |-> 0]]
    IN [grants |-> grants, status |-> AggregateGrantStatus(grants), fresh |-> FALSE]

\* The transaction: the donation with its line, and the total as it was read
\* plus the amount.  The unique session id refuses a second donation.  The
\* article may have been edited or removed since the checkout.
CreditWrite(h, articleGrants) ==
    /\ Doing(h, "credit")
    /\ IF donation.status # "none"
       THEN EndRequest(h) /\ UNCHANGED <<donation, total, line, lost>>
       ELSE /\ donation' = [donation EXCEPT !.status = "completed"]
            /\ total' = hand[h].n + Amount
            /\ line' = SnapshotLine(articleGrants)
            /\ lost' = IF total # hand[h].n THEN lost \cup {"ledger"} ELSE lost
            /\ hand' = [hand EXCEPT ![h] = [Idle EXCEPT !.pc = "grants"]]
    /\ UNCHANGED <<stripeVars, other, online, jobVars, failures>>

\* The whole of creditPaidSession for another session of the player.
OtherCredit ==
    /\ other = 0
    /\ other' = 1
    /\ total' = total + 1
    /\ UNCHANGED <<stripeVars, donation, line, online, hand, jobVars, lost, failures>>

\* refundPaymentIntent reads the donation with its player.  The event of a
\* payment without a donation, not credited yet or never, is acknowledged and
\* changes nothing; only an event sent again comes after the credit.
RefundRead(h, cents) ==
    /\ cents \in refunds /\ donation.status # "none"
    /\ Begin(h, [Idle EXCEPT !.pc = "refund", !.i = cents, !.n = total, !.r = donation.refunded])
    /\ UNCHANGED <<stripeVars, ledgerVars, line, online, jobVars, lost, failures>>

\* applyChargeRefund: Stripe's amounts are cumulative and may come in any order.
NextRefunded(refunded, cents) == Min({Amount, Max({refunded, cents})})

\* Mutant: the announced amount is taken off the total, not the difference.
RefundDelta_Announced(refunded, cents) == cents

RefundDelta(refunded, cents) == NextRefunded(refunded, cents) - refunded

RefundWrite(h) ==
    LET next == NextRefunded(hand[h].r, hand[h].i) IN
    /\ Doing(h, "refund")
    /\ EndRequest(h)
    /\ IF next = hand[h].r
       THEN UNCHANGED <<donation, total, lost>>
       ELSE /\ donation' = [status |-> IF next >= Amount THEN "refunded" ELSE "completed", refunded |-> next]
            /\ total' = Max({0, hand[h].n - RefundDelta(hand[h].r, hand[h].i)})
            /\ lost' = IF total # hand[h].n \/ donation.refunded # hand[h].r
                       THEN lost \cup {"ledger"} ELSE lost
    /\ UNCHANGED <<stripeVars, other, line, online, jobVars, failures>>

-----------------------------------------------------------------------------
(* deliverShopGrantLines, queueShopGrantJob                                *)

\* What is due in the line as it is read: pending items, and queued ones when
\* the line was queued more than five minutes ago; not beyond the attempts.
Due ==
    {i \in DOMAIN line.grants :
        /\ line.grants[i].attempts < MaxAttempts
        /\ line.grants[i].status = "pending" \/ (line.grants[i].status = "queued" /\ ~line.fresh)}

Deliverable == donation.status = "completed" /\ line.status \in {"pending", "queued"}

\* enqueueShopGrants at the end of a credit, enqueuePendingShopGrants at the
\* end of a roster result: the lines of a player who is online are read.
DeliverRead(h) ==
    /\ Doing(h, "grants") \/ (Doing(h, "idle") /\ online)
    /\ IF online /\ Deliverable /\ Due # {}
       THEN hand' = [hand EXCEPT ![h] = [Idle EXCEPT !.pc = "deliver", !.copy = line.grants, !.todo = Due]]
       ELSE EndRequest(h)
    /\ UNCHANGED <<stripeVars, ledgerVars, line, online, jobVars, lost, failures>>

\* Goes on with the next item, or ends.
Continue(h, r) == hand' = [hand EXCEPT ![h] = IF r.todo = {} THEN Idle ELSE r]

Overwrites(h) == IF line.grants # hand[h].copy THEN lost \cup {"line"} ELSE lost

\* An item no command can be built for.
DeliverInvalid(h) ==
    LET i == Min(hand[h].todo)
        grants == [hand[h].copy EXCEPT ![i].status = "failed"] IN
    /\ Doing(h, "deliver") /\ i \notin Givable
    /\ line' = [line EXCEPT !.grants = grants, !.status = AggregateGrantStatus(grants)]
    /\ lost' = Overwrites(h)
    /\ Continue(h, [hand[h] EXCEPT !.copy = grants, !.todo = @ \ {i}])
    /\ UNCHANGED <<stripeVars, ledgerVars, online, jobVars, failures>>

\* Mutant: the attempt is left to the result to count.
QueuedGrant_NotCounted(grant) == [grant EXCEPT !.status = "queued"]

QueuedGrant(grant) == [status |-> "queued", attempts |-> grant.attempts + 1]

\* The whole copy is written back with the item as queued.
MarkQueued(h) ==
    LET i == Min(hand[h].todo)
        grants == [hand[h].copy EXCEPT ![i] = QueuedGrant(@)] IN
    /\ Doing(h, "deliver") /\ i \in Givable
    /\ line' = [grants |-> grants, status |-> AggregateGrantStatus(grants), fresh |-> TRUE]
    /\ lost' = Overwrites(h)
    /\ hand' = [hand EXCEPT ![h].pc = "enqueue", ![h].i = i, ![h].copy = grants, ![h].todo = @ \ {i}]
    /\ UNCHANGED <<stripeVars, ledgerVars, online, jobVars, failures>>

\* createJob.
EnqueueGrant(h) ==
    LET i == hand[h].i IN
    /\ Doing(h, "enqueue")
    /\ jobs' = [jobs EXCEPT ![i] = @ + 1]
    /\ sent' = [sent EXCEPT ![i] = Min({@ + 1, MaxAttempts + 1})]
    /\ Continue(h, [hand[h] EXCEPT !.pc = "deliver", !.i = 0])
    /\ UNCHANGED <<stripeVars, ledgerVars, line, online, given, lost, failures>>

\* The update throws: only the status of the line is put back.
MarkFails(h) ==
    LET i == Min(hand[h].todo) IN
    /\ Doing(h, "deliver") /\ i \in Givable
    /\ Fail
    /\ line' = [line EXCEPT !.status = "pending"]
    /\ Continue(h, [hand[h] EXCEPT !.copy[i].status = "pending", !.todo = @ \ {i}])
    /\ UNCHANGED <<stripeVars, ledgerVars, online, jobVars, lost>>

\* createJob throws: in the row only the status of the line is put back, in
\* the copy the item.
EnqueueFails(h) ==
    /\ Doing(h, "enqueue")
    /\ Fail
    /\ line' = [line EXCEPT !.status = "pending"]
    /\ Continue(h, [hand[h] EXCEPT !.pc = "deliver", !.i = 0,
                        !.copy[hand[h].i] = [status |-> "pending", attempts |-> @.attempts - 1]])
    /\ UNCHANGED <<stripeVars, ledgerVars, online, jobVars, lost>>

-----------------------------------------------------------------------------
(* The job on the host, and finishShopGrant                                *)

\* The give command over RCON: it is confirmed, the player is not there, the
\* item is unknown, or the connection breaks before or after the item was
\* given.
ExecuteGrant(i, gave) ==
    /\ jobs[i] > 0
    /\ gave => online
    /\ jobs' = [jobs EXCEPT ![i] = @ - 1]
    /\ given' = IF gave THEN given \cup {i} ELSE given
    /\ UNCHANGED <<stripeVars, ledgerVars, line, online, sent, lost, failures>>

\* The job is executed and reported; finishShopGrant reads the line.
FinishRead(h, i, outcome, gave) ==
    /\ ExecuteGrant(i, gave)
    /\ outcome = "delivered" => gave
    /\ outcome = "failed" => ~gave
    /\ Begin(h, [Idle EXCEPT !.pc = outcome, !.i = i, !.copy = line.grants])

\* The job is executed and its result never arrives.
LoseResult(i, gave) == ExecuteGrant(i, gave) /\ UNCHANGED hand

\* classifyGrantOutput, and what finishShopGrant makes of it.
GrantResult(outcome) == IF outcome = "retry" THEN "pending" ELSE outcome

\* The item's result goes into the copy, and the copy into the row.
FinishWrite(h) ==
    LET grants == [hand[h].copy EXCEPT ![hand[h].i].status = GrantResult(hand[h].pc)] IN
    /\ hand[h].pc \in Outcomes
    /\ line' = [line EXCEPT !.grants = grants, !.status = AggregateGrantStatus(grants)]
    /\ lost' = Overwrites(h)
    /\ EndRequest(h)
    /\ UNCHANGED <<stripeVars, ledgerVars, online, jobVars, failures>>

-----------------------------------------------------------------------------
(* The surroundings                                                        *)

PlayerMoves ==
    /\ online' = ~online
    /\ UNCHANGED <<stripeVars, ledgerVars, line, hand, jobVars, lost, failures>>

\* A request takes less than five minutes.
FiveMinutesPass ==
    /\ \A h \in Handlers : Doing(h, "idle")
    /\ line.fresh
    /\ line' = [line EXCEPT !.fresh = FALSE]
    /\ UNCHANGED <<stripeVars, ledgerVars, online, hand, jobVars, lost, failures>>

\* The process dies: requests in progress are lost, Stripe delivers its event
\* again.
Restart ==
    /\ Fail
    /\ hand' = [h \in Handlers |-> Idle]
    /\ UNCHANGED <<stripeVars, ledgerVars, line, online, jobVars, lost>>

-----------------------------------------------------------------------------

RequestStep(h) ==
    \/ \E grants \in {Items, {}} : CreditWrite(h, grants)
    \/ RefundWrite(h) \/ DeliverInvalid(h) \/ MarkQueued(h) \/ EnqueueGrant(h) \/ FinishWrite(h)

Execute(i, gave) == LoseResult(i, gave) \/ \E h \in Handlers, o \in Outcomes : FinishRead(h, i, o, gave)

Next ==
    \/ \E auth \in {"steam", "name"} : Checkout(auth)
    \/ \E cents \in 1..Amount : Refund(cents) \/ \E h \in Handlers : RefundRead(h, cents)
    \/ OtherCredit
    \/ \E h \in Handlers : CreditRead(h) \/ DeliverRead(h) \/ RequestStep(h) \/ MarkFails(h) \/ EnqueueFails(h)
    \/ \E i \in Items, gave \in BOOLEAN : Execute(i, gave)
    \/ PlayerMoves \/ FiveMinutesPass \/ Restart

Spec == Init /\ [][Next]_vars

-----------------------------------------------------------------------------
(* Properties                                                              *)

\* The player's total is the sum of what the donations keep, whatever webhook
\* is delivered twice, late or out of order: only requests that overlap on the
\* player's row lose an amount.
LedgerAddsUp ==
    "ledger" \notin lost =>
        total = other + (IF donation.status = "none" THEN 0 ELSE Amount - donation.refunded)

\* No more jobs are sent for an item than its attempts, and so than
\* MAX_GRANT_ATTEMPTS, failed calls and restarts included: only a row
\* overwritten with an older copy gives attempts back.
GrantsCapped ==
    "line" \notin lost =>
        \A i \in DOMAIN line.grants : sent[i] <= line.grants[i].attempts /\ line.grants[i].attempts <= MaxAttempts

\* The line leaves the delivery only when each of its items is settled, and an
\* item counts as delivered only when the agent has given it.
SettledWasGiven ==
    /\ line.status \in {"delivered", "partial", "failed"} =>
        \A i \in DOMAIN line.grants : line.grants[i].status \in {"delivered", "failed"}
    /\ \A i \in DOMAIN line.grants : line.grants[i].status = "delivered" => i \in given
=============================================================================
