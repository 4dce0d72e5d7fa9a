----------------------------- MODULE ShopProofs -----------------------------
(***************************************************************************)
(* Proofs about donations (Shop), for any amount, any items and any number *)
(* of requests in progress at once.  The inductive invariant ShopInv says  *)
(* what the copies that requests hold have in common with the rows they    *)
(* were read from: one lemma per part.                                     *)
(***************************************************************************)
EXTENDS Shop, ShopFront, Milestones, Sums, TLAPS, FiniteSetTheorems

-----------------------------------------------------------------------------
(* The inductive invariant                                                 *)

GrantStatus == {"pending", "queued", "delivered", "failed"}
Grant == [status : GrantStatus, attempts : 0..MaxAttempts]

\* The grants of an article: of all its items, or of none.
Grants == [Items -> Grant] \cup {NoGrants}

Request ==
    [pc : {"idle", "credit", "grants", "refund", "deliver", "enqueue"} \cup Outcomes,
     i : Nat, n : Nat, r : Nat, copy : Grants, todo : SUBSET Items]

ShopTypeOK ==
    /\ refunds \subseteq 1..Amount
    /\ donation \in [status : {"none", "completed", "refunded"}, refunded : 0..Amount]
    /\ other \in {0, 1}
    /\ total \in Nat
    /\ line \in [grants : Grants, status : GrantStatus \cup {"none", "partial"}, fresh : BOOLEAN]
    /\ online \in BOOLEAN
    /\ hand \in [Handlers -> Request]
    /\ jobs \in [Items -> Nat]
    /\ sent \in [Items -> Nat]
    /\ given \subseteq Items
    /\ lost \subseteq {"ledger", "line"}
    /\ failures \in Nat

\* Before the donation is written nothing is refunded, sent or delivered.
NothingBefore ==
    donation.status = "none" =>
        /\ donation.refunded = 0 /\ line.grants = NoGrants
        /\ \A i \in Items : jobs[i] = 0 /\ sent[i] = 0
        /\ \A h \in Handlers : hand[h].pc \in {"idle", "credit"}

\* What a request that refunds or delivers has read.
Delivering == {"deliver", "enqueue"}

RefundsHeld ==
    \A h \in Handlers : hand[h].pc = "refund" => hand[h].i \in 1..Amount /\ hand[h].r \in 0..Amount

CopiesHeld ==
    \A h \in Handlers :
        /\ hand[h].pc \in Delivering \cup Outcomes => DOMAIN hand[h].copy = DOMAIN line.grants
        /\ hand[h].pc \in Delivering =>
              /\ hand[h].todo \subseteq DOMAIN line.grants
              /\ \A i \in hand[h].todo : hand[h].copy[i].attempts < MaxAttempts
        /\ hand[h].pc = "deliver" => hand[h].todo # {}
        /\ hand[h].pc = "enqueue" =>
              /\ hand[h].i \in DOMAIN line.grants /\ hand[h].i \notin hand[h].todo
              /\ hand[h].copy[hand[h].i].attempts > 0
        /\ hand[h].pc \in Outcomes => hand[h].i \in DOMAIN line.grants

JobsOfLine == \A i \in Items : jobs[i] > 0 => i \in DOMAIN line.grants

\* Every job sent and every job about to be sent is an attempt of its own.
Enqueuing(i) == {h \in Handlers : hand[h].pc = "enqueue" /\ hand[h].i = i}

SentCounted ==
    "line" \notin lost =>
        \A i \in DOMAIN line.grants : sent[i] + Cardinality(Enqueuing(i)) <= line.grants[i].attempts

\* What the line, a copy or a result calls delivered has been given.
DeliveredGiven ==
    /\ \A i \in DOMAIN line.grants : line.grants[i].status = "delivered" => i \in given
    /\ \A h \in Handlers : \A i \in DOMAIN hand[h].copy : hand[h].copy[i].status = "delivered" => i \in given
    /\ \A h \in Handlers : hand[h].pc = "delivered" => hand[h].i \in given

SettledLine ==
    line.status \in {"delivered", "partial", "failed"} =>
        \A i \in DOMAIN line.grants : line.grants[i].status \in {"delivered", "failed"}

ShopInv ==
    /\ ShopTypeOK /\ NothingBefore /\ RefundsHeld /\ CopiesHeld /\ JobsOfLine
    /\ LedgerAddsUp /\ SentCounted /\ DeliveredGiven /\ SettledLine

-----------------------------------------------------------------------------
(* Operators                                                               *)

(* A non-empty set of natural numbers has a minimum, and Min is one of its  *)
(* elements: the next item of a delivery is an item that is due.            *)
LEMMA MinOfNats ==
    ASSUME NEW S, S \subseteq Nat, S # {}
    PROVE  Min(S) \in S
<1> DEFINE R == {p \in Nat \X Nat : p[1] < p[2]}
<1>1. R = OpToRel(<, Nat)
  BY DEF OpToRel
<1>2. IsWellFoundedOn(R, Nat)
  BY <1>1, NatLessThanWellFounded
<1>3. \E x \in S : \A y \in S : ~ (<<y, x>> \in R)
  <2> HIDE DEF R
  <2> QED
    BY <1>2, WFMin
<1>4. \A x, y \in Nat : <<y, x>> \notin R => x =< y
  OBVIOUS
<1>5. \E x \in S : \A y \in S : x =< y
  <2> HIDE DEF R
  <2> QED
    BY <1>3, <1>4
<1>6. QED
  BY <1>5 DEF Min

(* The greater and the smaller of two numbers.                              *)
LEMMA MinMaxOfTwo ==
    ASSUME NEW a \in Int, NEW b \in Int
    PROVE  /\ Min({a, b}) = IF a <= b THEN a ELSE b
           /\ Max({a, b}) = IF a >= b THEN a ELSE b
<1>1. \A x \in {a, b} : (\A y \in {a, b} : x =< y) <=> x = IF a <= b THEN a ELSE b
  OBVIOUS
<1>2. \A x \in {a, b} : (\A y \in {a, b} : x >= y) <=> x = IF a >= b THEN a ELSE b
  OBVIOUS
<1>3. QED
  BY <1>1, <1>2 DEF Min, Max

(* applyChargeRefund: the refunded amount never goes down, whichever        *)
(* announcement comes, and never beyond what was charged.                   *)
LEMMA RefundedGrows ==
    ASSUME NEW r \in 0..Amount, NEW c \in 1..Amount
    PROVE  /\ NextRefunded(r, c) \in r..Amount
           /\ NextRefunded(r, c) >= c
           /\ RefundDelta(r, c) \in 0..(Amount - r)
<1>1. Max({r, c}) = IF r >= c THEN r ELSE c
  BY MinMaxOfTwo
<1>2. Min({Amount, Max({r, c})}) = Max({r, c})
  BY <1>1, MinMaxOfTwo, ShopAssumption
<1>3. QED
  BY <1>1, <1>2, ShopAssumption DEF NextRefunded, RefundDelta

(* What aggregateGrantStatus makes of the grants of a line.                  *)
LEMMA AggregateOf ==
    ASSUME NEW g \in Grants
    PROVE  /\ AggregateGrantStatus(g) \in GrantStatus \cup {"none", "partial"}
           /\ AggregateGrantStatus(g) \in {"delivered", "partial", "failed"} =>
                 \A i \in DOMAIN g : g[i].status \in {"delivered", "failed"}
<1>1. \A i \in DOMAIN g : g[i].status \in GrantStatus
  BY DEF Grants, Grant, NoGrants
<1>2. QED
  BY <1>1 DEF AggregateGrantStatus, GrantStatus

(* The grants of a line that is written for the first time.                  *)
LEMMA SnapshotOf ==
    ASSUME NEW A \in {Items, {}}
    PROVE  /\ SnapshotLine(A).grants \in Grants
           /\ SnapshotLine(A).fresh = FALSE
           /\ SnapshotLine(A).status \in GrantStatus \cup {"none", "partial"}
           /\ DOMAIN SnapshotLine(A).grants = A
           /\ \A i \in A : SnapshotLine(A).grants[i].status = "pending" /\ SnapshotLine(A).grants[i].attempts = 0
<1> DEFINE g == [i \in A |-> [status |-> "pending", attempts |-> 0]]
<1>1. g \in Grants
  <2>1. CASE A = Items
    BY <2>1, ShopAssumption DEF Grants, Grant, GrantStatus
  <2>2. CASE A = {}
    BY <2>2 DEF Grants, NoGrants
  <2>3. QED
    BY <2>1, <2>2
<1>2. SnapshotLine(A) = [grants |-> g, status |-> AggregateGrantStatus(g), fresh |-> FALSE]
  BY DEF SnapshotLine
<1> HIDE DEF g
<1>3. DOMAIN g = A /\ \A i \in A : g[i] = [status |-> "pending", attempts |-> 0]
  BY DEF g
<1>4. QED
  BY <1>1, <1>2, <1>3, AggregateOf

(* An entry of a copy that is changed leaves grants of the article.          *)
LEMMA ChangedGrant ==
    ASSUME NEW g \in Grants, NEW i \in DOMAIN g, NEW e \in Grant
    PROVE  /\ g \in [Items -> Grant] /\ i \in Items /\ g[i] \in Grant
           /\ [g EXCEPT ![i] = e] \in Grants
           /\ DOMAIN [g EXCEPT ![i] = e] = DOMAIN g
           /\ \A j \in DOMAIN g : [g EXCEPT ![i] = e][j] = IF j = i THEN e ELSE g[j]
BY DEF Grants, NoGrants

-----------------------------------------------------------------------------
(* One lemma per part of the invariant                                     *)

(* Every step keeps every variable in its type.                              *)
LEMMA ShopTypeStep == ShopInv /\ [Next]_vars => ShopTypeOK'
<1> SUFFICES ASSUME ShopInv, [Next]_vars PROVE ShopTypeOK'
  OBVIOUS
<1> USE ShopAssumption
<1> USE DEF ShopTypeOK, stripeVars, ledgerVars, jobVars
<1>0. ShopTypeOK /\ CopiesHeld /\ RefundsHeld
  BY DEF ShopInv
<1>1. Idle \in Request /\ NoGrants \in Grants
  BY DEF Idle, Request, Grants
<1>2. ASSUME NEW auth \in {"steam", "name"}, Checkout(auth) PROVE ShopTypeOK'
  BY <1>0, <1>2 DEF Checkout
<1>3. ASSUME NEW c \in 1..Amount, Refund(c) PROVE ShopTypeOK'
  BY <1>0, <1>3 DEF Refund
<1>4. ASSUME NEW c \in 1..Amount, NEW h \in Handlers, RefundRead(h, c) PROVE ShopTypeOK'
  <2>1. [Idle EXCEPT !.pc = "refund", !.i = c, !.n = total, !.r = donation.refunded] \in Request
    BY <1>0, <1>1, 0..Amount \subseteq Nat, 1..Amount \subseteq Nat DEF Idle, Request
  <2>2. QED
    BY <1>0, <1>4, <2>1 DEF RefundRead, Begin
<1>5. ASSUME OtherCredit PROVE ShopTypeOK'
  BY <1>0, <1>5 DEF OtherCredit
<1>6. ASSUME NEW h \in Handlers, CreditRead(h) PROVE ShopTypeOK'
  <2>1. [Idle EXCEPT !.pc = "credit", !.n = total] \in Request
    BY <1>0, <1>1 DEF Idle, Request
  <2>2. QED
    BY <1>0, <1>6, <2>1 DEF CreditRead, Begin
<1>7. ASSUME NEW h \in Handlers, NEW g \in {Items, {}}, CreditWrite(h, g) PROVE ShopTypeOK'
  <2>1. [Idle EXCEPT !.pc = "grants"] \in Request
    BY <1>1 DEF Idle, Request
  <2>2. hand' \in [Handlers -> Request]
    BY <1>0, <1>1, <1>7, <2>1 DEF CreditWrite, EndRequest
  <2>3. line' \in [grants : Grants, status : GrantStatus \cup {"none", "partial"}, fresh : BOOLEAN]
    <3>1. SnapshotLine(g) \in [grants : Grants, status : GrantStatus \cup {"none", "partial"}, fresh : BOOLEAN]
      BY SnapshotOf DEF SnapshotLine
    <3>2. line' = line \/ line' = SnapshotLine(g)
      BY <1>7 DEF CreditWrite
    <3>3. QED
      BY <1>0, <3>1, <3>2
  <2>4. hand[h].n \in Nat
    BY <1>0 DEF Request
  <2>5. total' \in Nat /\ lost' \subseteq {"ledger", "line"}
    BY <1>0, <1>7, <2>4 DEF CreditWrite
  <2>6. QED
    BY <1>0, <1>7, <2>2, <2>3, <2>5 DEF CreditWrite
<1>8. ASSUME NEW h \in Handlers, RefundWrite(h) PROVE ShopTypeOK'
  <2>1. hand[h].r \in 0..Amount /\ hand[h].i \in 1..Amount /\ hand[h].n \in Nat
    BY <1>0, <1>8 DEF RefundWrite, Doing, RefundsHeld, Request
  <2>2. /\ NextRefunded(hand[h].r, hand[h].i) \in hand[h].r..Amount
        /\ RefundDelta(hand[h].r, hand[h].i) \in 0..(Amount - hand[h].r)
    BY <2>1, RefundedGrows
  <2>3. Max({0, hand[h].n - RefundDelta(hand[h].r, hand[h].i)}) \in Nat
    <3> DEFINE d == hand[h].n - RefundDelta(hand[h].r, hand[h].i)
    <3>1. d \in Int
      BY <2>1, <2>2
    <3> HIDE DEF d
    <3>2. Max({0, d}) = IF 0 >= d THEN 0 ELSE d
      BY <3>1, MinMaxOfTwo
    <3>3. Max({0, d}) \in Nat
      BY <3>1, <3>2
    <3>4. QED
      BY <3>3 DEF d
  <2>4. total' \in Nat /\ lost' \subseteq {"ledger", "line"}
    BY <1>0, <1>8, <2>3 DEF RefundWrite
  <2>5. donation' \in [status : {"none", "completed", "refunded"}, refunded : 0..Amount]
    BY <1>0, <1>8, <2>1, <2>2 DEF RefundWrite
  <2>6. QED
    BY <1>0, <1>1, <1>8, <2>4, <2>5 DEF RefundWrite, EndRequest
<1>9. ASSUME NEW h \in Handlers, DeliverRead(h) PROVE ShopTypeOK'
  <2>1. DOMAIN line.grants \subseteq Items
    BY <1>0 DEF Grants, NoGrants
  <2>2. [Idle EXCEPT !.pc = "deliver", !.copy = line.grants, !.todo = Due] \in Request
    BY <1>0, <1>1, <2>1 DEF Idle, Request, Due
  <2>3. QED
    BY <1>0, <1>1, <1>9, <2>2 DEF DeliverRead, EndRequest
<1>10. ASSUME NEW h \in Handlers, DeliverInvalid(h) PROVE ShopTypeOK'
  <2> DEFINE i == Min(hand[h].todo)
             g == [hand[h].copy EXCEPT ![i].status = "failed"]
  <2>1. hand[h] \in Request /\ i \in DOMAIN hand[h].copy
    BY <1>0, <1>10, MinOfNats DEF DeliverInvalid, Doing, CopiesHeld, Delivering, Request
  <2>2. g \in Grants
    <3>1. hand[h].copy \in Grants
      BY <2>1 DEF Request
    <3>2. [hand[h].copy[i] EXCEPT !.status = "failed"] \in Grant
      BY <2>1, <3>1 DEF Grants, Grant, NoGrants, GrantStatus
    <3>3. QED
      BY <2>1, <3>1, <3>2, ChangedGrant
  <2>3. [hand[h] EXCEPT !.copy = g, !.todo = @ \ {i}] \in Request
    BY <2>1, <2>2 DEF Request
  <2>4. AggregateGrantStatus(g) \in GrantStatus \cup {"none", "partial"}
    BY <2>2, AggregateOf
  <2> HIDE DEF i, g
  <2>5. /\ line' = [line EXCEPT !.grants = g, !.status = AggregateGrantStatus(g)]
        /\ Continue(h, [hand[h] EXCEPT !.copy = g, !.todo = @ \ {i}])
        /\ lost' = Overwrites(h)
    BY <1>10 DEF DeliverInvalid, i, g
  <2>6. hand' \in [Handlers -> Request]
    BY <1>0, <1>1, <2>3, <2>5 DEF Continue
  <2>7. line' \in [grants : Grants, status : GrantStatus \cup {"none", "partial"}, fresh : BOOLEAN]
    BY <1>0, <2>2, <2>4, <2>5
  <2>8. QED
    BY <1>0, <1>10, <2>5, <2>6, <2>7 DEF DeliverInvalid, Overwrites
<1>11. ASSUME NEW h \in Handlers, MarkQueued(h) PROVE ShopTypeOK'
  <2> DEFINE i == Min(hand[h].todo)
             g == [hand[h].copy EXCEPT ![i] = QueuedGrant(@)]
  <2>1. hand[h] \in Request /\ i \in hand[h].todo /\ i \in DOMAIN hand[h].copy
    BY <1>0, <1>11, MinOfNats DEF MarkQueued, Doing, CopiesHeld, Delivering, Request
  <2>2. g \in Grants
    <3>1. hand[h].copy \in Grants
      BY <2>1 DEF Request
    <3>2. hand[h].copy[i].attempts < MaxAttempts
      BY <1>0, <1>11, <2>1 DEF MarkQueued, Doing, CopiesHeld, Delivering
    <3>3. \A e \in Grant : e.attempts < MaxAttempts => QueuedGrant(e) \in Grant
      BY DEF Grant, GrantStatus, QueuedGrant
    <3>4. hand[h].copy[i] \in Grant
      BY <2>1, <3>1 DEF Grants, NoGrants
    <3>5. QueuedGrant(hand[h].copy[i]) \in Grant
      BY <3>2, <3>3, <3>4
    <3>6. QED
      BY <2>1, <3>1, <3>5, ChangedGrant
  <2>3. AggregateGrantStatus(g) \in GrantStatus \cup {"none", "partial"}
    BY <2>2, AggregateOf
  <2> HIDE DEF i, g
  <2>4. /\ line' = [grants |-> g, status |-> AggregateGrantStatus(g), fresh |-> TRUE]
        /\ hand' = [hand EXCEPT ![h].pc = "enqueue", ![h].i = i, ![h].copy = g, ![h].todo = @ \ {i}]
        /\ lost' = Overwrites(h)
    BY <1>11 DEF MarkQueued, i, g
  <2>5. hand' \in [Handlers -> Request]
    BY <1>0, <2>1, <2>2, <2>4 DEF Request
  <2>6. QED
    BY <1>0, <1>11, <2>2, <2>3, <2>4, <2>5 DEF MarkQueued, Overwrites
<1>12. ASSUME NEW h \in Handlers, EnqueueGrant(h) PROVE ShopTypeOK'
  <2> DEFINE i == hand[h].i
  <2>1. hand[h] \in Request /\ i \in Items
    BY <1>0, <1>12 DEF EnqueueGrant, Doing, CopiesHeld, Delivering, Grants, NoGrants
  <2>2. Min({sent[i] + 1, MaxAttempts + 1}) \in Nat
    <3>1. sent[i] \in Nat
      BY <1>0, <2>1
    <3>2. QED
      BY <3>1, MinMaxOfTwo
  <2>3. [hand[h] EXCEPT !.pc = "deliver", !.i = 0] \in Request
    BY <2>1 DEF Request
  <2>4. QED
    BY <1>0, <1>1, <1>12, <2>1, <2>2, <2>3 DEF EnqueueGrant, Continue
<1>13. ASSUME NEW h \in Handlers, MarkFails(h) PROVE ShopTypeOK'
  <2> DEFINE i == Min(hand[h].todo)
             g == [hand[h].copy EXCEPT ![i].status = "pending"]
  <2>1. hand[h] \in Request /\ i \in DOMAIN hand[h].copy
    BY <1>0, <1>13, MinOfNats DEF MarkFails, Doing, CopiesHeld, Delivering, Request
  <2>2. g \in Grants
    <3>1. hand[h].copy \in Grants
      BY <2>1 DEF Request
    <3>2. [hand[h].copy[i] EXCEPT !.status = "pending"] \in Grant
      BY <2>1, <3>1 DEF Grants, Grant, NoGrants, GrantStatus
    <3>3. QED
      BY <2>1, <3>1, <3>2, ChangedGrant
  <2>3. [hand[h] EXCEPT !.copy[i].status = "pending", !.todo = @ \ {i}] \in Request
    BY <2>1, <2>2 DEF Request
  <2> HIDE DEF i, g
  <2>4. Continue(h, [hand[h] EXCEPT !.copy[i].status = "pending", !.todo = @ \ {i}])
    BY <1>13 DEF MarkFails, i
  <2>5. hand' \in [Handlers -> Request]
    BY <1>0, <1>1, <2>3, <2>4 DEF Continue
  <2>6. QED
    BY <1>0, <1>13, <2>5 DEF MarkFails, Fail, GrantStatus
<1>14. ASSUME NEW h \in Handlers, EnqueueFails(h) PROVE ShopTypeOK'
  <2> DEFINE i == hand[h].i
             e == [status |-> "pending", attempts |-> hand[h].copy[i].attempts - 1]
  <2>1. hand[h] \in Request /\ i \in DOMAIN hand[h].copy /\ hand[h].copy[i].attempts > 0
    BY <1>0, <1>14 DEF EnqueueFails, Doing, CopiesHeld, Delivering
  <2>2. [hand[h].copy EXCEPT ![i] = e] \in Grants
    <3>1. hand[h].copy \in Grants
      BY <2>1 DEF Request
    <3>2. hand[h].copy[i] \in Grant
      BY <2>1, <3>1 DEF Grants, NoGrants
    <3>3. e \in Grant
      BY <2>1, <3>2 DEF Grant, GrantStatus
    <3>4. QED
      BY <2>1, <3>1, <3>3, ChangedGrant
  <2>3. [hand[h] EXCEPT !.pc = "deliver", !.i = 0, !.copy[hand[h].i] = [status |-> "pending", attempts |-> @.attempts - 1]] \in Request
    BY <2>1, <2>2 DEF Request
  <2>4. QED
    BY <1>0, <1>1, <1>14, <2>3 DEF EnqueueFails, Continue, Fail, GrantStatus
<1>15. ASSUME NEW i \in Items, NEW gave \in BOOLEAN, ExecuteGrant(i, gave) PROVE jobs' \in [Items -> Nat] /\ given' \subseteq Items
  BY <1>0, <1>15 DEF ExecuteGrant
<1>16. ASSUME NEW i \in Items, NEW gave \in BOOLEAN, LoseResult(i, gave) PROVE ShopTypeOK'
  BY <1>0, <1>15, <1>16 DEF LoseResult, ExecuteGrant
<1>17. ASSUME NEW h \in Handlers, NEW i \in Items, NEW o \in Outcomes, NEW gave \in BOOLEAN, FinishRead(h, i, o, gave)
       PROVE  ShopTypeOK'
  <2>1. [Idle EXCEPT !.pc = o, !.i = i, !.copy = line.grants] \in Request
    BY <1>0, <1>1 DEF Idle, Request
  <2>2. ExecuteGrant(i, gave)
    BY <1>17 DEF FinishRead
  <2>3. QED
    BY <1>0, <1>15, <1>17, <2>1, <2>2 DEF FinishRead, ExecuteGrant, Begin
<1>18. ASSUME NEW h \in Handlers, FinishWrite(h) PROVE ShopTypeOK'
  <2> DEFINE i == hand[h].i
             g == [hand[h].copy EXCEPT ![i].status = GrantResult(hand[h].pc)]
  <2>1. hand[h] \in Request /\ i \in DOMAIN hand[h].copy
    BY <1>0, <1>18 DEF FinishWrite, CopiesHeld
  <2>2. g \in Grants
    <3>1. hand[h].copy \in Grants
      BY <2>1 DEF Request
    <3>2. [hand[h].copy[i] EXCEPT !.status = GrantResult(hand[h].pc)] \in Grant
      BY <1>18, <2>1, <3>1 DEF FinishWrite, Grants, Grant, NoGrants, GrantStatus, GrantResult, Outcomes
    <3>3. QED
      BY <2>1, <3>1, <3>2, ChangedGrant
  <2>3. AggregateGrantStatus(g) \in GrantStatus \cup {"none", "partial"}
    BY <2>2, AggregateOf
  <2> HIDE DEF i, g
  <2>4. line' = [line EXCEPT !.grants = g, !.status = AggregateGrantStatus(g)]
    BY <1>18 DEF FinishWrite, i, g
  <2>5. QED
    BY <1>0, <1>1, <1>18, <2>2, <2>3, <2>4 DEF FinishWrite, EndRequest, Overwrites
<1>19. ASSUME PlayerMoves PROVE ShopTypeOK'
  BY <1>0, <1>19 DEF PlayerMoves
<1>20. ASSUME FiveMinutesPass PROVE ShopTypeOK'
  BY <1>0, <1>20 DEF FiveMinutesPass
<1>21. ASSUME Restart PROVE ShopTypeOK'
  BY <1>0, <1>1, <1>21 DEF Restart, Fail
<1>22. CASE UNCHANGED vars
  BY <1>0, <1>22 DEF vars
<1> HIDE DEF ShopTypeOK
<1>23. QED
  BY <1>2, <1>3, <1>4, <1>5, <1>6, <1>7, <1>8, <1>9, <1>10, <1>11, <1>12, <1>13, <1>14, <1>16, <1>17, <1>18,
     <1>19, <1>20, <1>21, <1>22 DEF Next, RequestStep, Execute

(* deliverShopGrantLines reads: the request ends, or holds a copy of the    *)
(* line with what is due in it.                                            *)
LEMMA DeliverReads ==
    ASSUME ShopTypeOK, NEW h \in Handlers, DeliverRead(h)
    PROVE  /\ \A x \in Handlers \ {h} : hand'[x] = hand[x]
           /\ line' = line /\ lost' = lost /\ given' = given
           /\ \/ hand'[h] = Idle
              \/ /\ Deliverable /\ Due # {}
                 /\ hand'[h].pc = "deliver" /\ hand'[h].copy = line.grants /\ hand'[h].todo = Due
<1>1. hand \in [Handlers -> Request]
  BY DEF ShopTypeOK
<1>2. CASE online /\ Deliverable /\ Due # {}
  <2>1. hand' = [hand EXCEPT ![h] = [Idle EXCEPT !.pc = "deliver", !.copy = line.grants, !.todo = Due]]
    BY <1>2 DEF DeliverRead
  <2>2. hand'[h] = [Idle EXCEPT !.pc = "deliver", !.copy = line.grants, !.todo = Due]
    BY <1>1, <2>1
  <2>3. hand'[h].pc = "deliver" /\ hand'[h].copy = line.grants /\ hand'[h].todo = Due
    BY <2>2 DEF Idle
  <2>4. QED
    BY <1>1, <1>2, <2>1, <2>3 DEF DeliverRead, ledgerVars, jobVars
<1>3. CASE ~(online /\ Deliverable /\ Due # {})
  BY <1>1, <1>3 DEF DeliverRead, EndRequest, ledgerVars, jobVars
<1>4. QED
  BY <1>2, <1>3

(* The item that a delivery takes next, before the row is written.          *)
LEMMA NextItem ==
    ASSUME ShopTypeOK, CopiesHeld, NEW h \in Handlers, Doing(h, "deliver")
    PROVE  /\ hand[h].copy \in [Items -> Grant]
           /\ Min(hand[h].todo) \in hand[h].todo
           /\ Min(hand[h].todo) \in Items
           /\ DOMAIN line.grants = Items
           /\ hand[h].copy[Min(hand[h].todo)].attempts \in 0..(MaxAttempts - 1)
<1>1. Min(hand[h].todo) \in hand[h].todo
  BY MinOfNats, ShopAssumption DEF ShopTypeOK, Request, CopiesHeld, Doing, Delivering
<1>2. /\ hand[h].todo \subseteq DOMAIN line.grants /\ DOMAIN hand[h].copy = DOMAIN line.grants
      /\ hand[h].copy \in Grants /\ line.grants \in Grants
      /\ \A i \in hand[h].todo : hand[h].copy[i].attempts < MaxAttempts
  BY DEF ShopTypeOK, Request, CopiesHeld, Doing, Delivering
<1>3. hand[h].copy \in [Items -> Grant] /\ line.grants \in [Items -> Grant]
  BY <1>1, <1>2 DEF Grants, NoGrants
<1>4. hand[h].copy[Min(hand[h].todo)] \in Grant
  BY <1>1, <1>2, <1>3
<1>5. QED
  BY <1>1, <1>2, <1>3, <1>4, ShopAssumption DEF Grant

(* Nothing is refunded, sent or delivered before the donation is written.     *)
LEMMA NothingBeforeStep == ShopInv /\ [Next]_vars => NothingBefore'
<1> SUFFICES ASSUME ShopInv, [Next]_vars PROVE NothingBefore'
  OBVIOUS
<1> USE ShopAssumption
<1> USE DEF stripeVars, ledgerVars, jobVars, NothingBefore
<1>0. ShopTypeOK /\ NothingBefore /\ CopiesHeld /\ JobsOfLine
  BY DEF ShopInv
<1>2. ASSUME NEW auth \in {"steam", "name"}, Checkout(auth) PROVE NothingBefore'
  BY <1>0, <1>2 DEF Checkout, Doing, ShopTypeOK, Outcomes, Idle, Deliverable
<1>3. ASSUME NEW c \in 1..Amount, Refund(c) PROVE NothingBefore'
  BY <1>0, <1>3 DEF Refund, Doing, ShopTypeOK, Outcomes, Idle, Deliverable
<1>4. ASSUME NEW c \in 1..Amount, NEW h \in Handlers, RefundRead(h, c) PROVE NothingBefore'
  BY <1>0, <1>4 DEF RefundRead, Begin, Doing, ShopTypeOK, Outcomes, Idle, Deliverable
<1>5. ASSUME OtherCredit PROVE NothingBefore'
  BY <1>0, <1>5 DEF OtherCredit, Doing, ShopTypeOK, Outcomes, Idle, Deliverable
<1>6. ASSUME NEW h \in Handlers, CreditRead(h) PROVE NothingBefore'
  BY <1>0, <1>6 DEF CreditRead, Begin, Doing, ShopTypeOK, Outcomes, Idle, Deliverable
<1>7. ASSUME NEW h \in Handlers, NEW g \in {Items, {}}, CreditWrite(h, g) PROVE NothingBefore'
  BY <1>0, <1>7 DEF CreditWrite, EndRequest, Doing, ShopTypeOK, Outcomes, Idle, Deliverable
<1>8. ASSUME NEW h \in Handlers, RefundWrite(h) PROVE NothingBefore'
  BY <1>0, <1>8 DEF RefundWrite, EndRequest, Doing, ShopTypeOK, Outcomes, Idle, Deliverable
<1>9. ASSUME NEW h \in Handlers, DeliverRead(h) PROVE NothingBefore'
  BY <1>0, <1>9 DEF DeliverRead, EndRequest, Doing, ShopTypeOK, Outcomes, Idle, Deliverable
<1>10. ASSUME NEW h \in Handlers, DeliverInvalid(h) PROVE NothingBefore'
  BY <1>0, <1>10 DEF DeliverInvalid, Continue, Overwrites, Doing, ShopTypeOK, Outcomes, Idle, Deliverable
<1>11. ASSUME NEW h \in Handlers, MarkQueued(h) PROVE NothingBefore'
  BY <1>0, <1>11 DEF MarkQueued, Overwrites, Doing, ShopTypeOK, Outcomes, Idle, Deliverable
<1>12. ASSUME NEW h \in Handlers, EnqueueGrant(h) PROVE NothingBefore'
  BY <1>0, <1>12 DEF EnqueueGrant, Continue, Doing, ShopTypeOK, Outcomes, Idle, Deliverable
<1>13. ASSUME NEW h \in Handlers, MarkFails(h) PROVE NothingBefore'
  BY <1>0, <1>13 DEF MarkFails, Continue, Fail, Doing, ShopTypeOK, Outcomes, Idle, Deliverable
<1>14. ASSUME NEW h \in Handlers, EnqueueFails(h) PROVE NothingBefore'
  BY <1>0, <1>14 DEF EnqueueFails, Continue, Fail, Doing, ShopTypeOK, Outcomes, Idle, Deliverable
<1>15. ASSUME NEW i \in Items, NEW gave \in BOOLEAN, LoseResult(i, gave) PROVE NothingBefore'
  BY <1>0, <1>15 DEF LoseResult, ExecuteGrant, Doing, ShopTypeOK, Outcomes, Idle, Deliverable
<1>16. ASSUME NEW h \in Handlers, NEW i \in Items, NEW o \in Outcomes, NEW gave \in BOOLEAN, FinishRead(h, i, o, gave) PROVE NothingBefore'
  BY <1>0, <1>16 DEF FinishRead, ExecuteGrant, Begin, Doing, ShopTypeOK, Outcomes, Idle, Deliverable
<1>17. ASSUME NEW h \in Handlers, FinishWrite(h) PROVE NothingBefore'
  BY <1>0, <1>17 DEF FinishWrite, EndRequest, Overwrites, Doing, ShopTypeOK, Outcomes, Idle, Deliverable
<1>18. ASSUME PlayerMoves PROVE NothingBefore'
  BY <1>0, <1>18 DEF PlayerMoves, Doing, ShopTypeOK, Outcomes, Idle, Deliverable
<1>19. ASSUME FiveMinutesPass PROVE NothingBefore'
  BY <1>0, <1>19 DEF FiveMinutesPass, Doing, ShopTypeOK, Outcomes, Idle, Deliverable
<1>20. ASSUME Restart PROVE NothingBefore'
  BY <1>0, <1>20 DEF Restart, Fail, Doing, ShopTypeOK, Outcomes, Idle, Deliverable
<1>21. CASE UNCHANGED vars
  BY <1>0, <1>21 DEF vars, Doing, ShopTypeOK, Outcomes, Idle, Deliverable
<1> HIDE DEF NothingBefore
<1>22. QED
  BY <1>2, <1>3, <1>4, <1>5, <1>6, <1>7, <1>8, <1>9, <1>10, <1>11, <1>12, <1>13, <1>14,
     <1>15, <1>16, <1>17, <1>18, <1>19, <1>20, <1>21 DEF Next, RequestStep, Execute

(* A refund in progress holds an announced amount and an amount that was    
   refunded. *)
LEMMA RefundsHeldStep == ShopInv /\ [Next]_vars => RefundsHeld'
<1> SUFFICES ASSUME ShopInv, [Next]_vars PROVE RefundsHeld'
  OBVIOUS
<1> USE ShopAssumption
<1> USE DEF stripeVars, ledgerVars, jobVars, RefundsHeld
<1>0. ShopTypeOK /\ RefundsHeld
  BY DEF ShopInv
<1>2. ASSUME NEW auth \in {"steam", "name"}, Checkout(auth) PROVE RefundsHeld'
  BY <1>0, <1>2 DEF Checkout, Doing, ShopTypeOK, Outcomes, Idle
<1>3. ASSUME NEW c \in 1..Amount, Refund(c) PROVE RefundsHeld'
  BY <1>0, <1>3 DEF Refund, Doing, ShopTypeOK, Outcomes, Idle
<1>4. ASSUME NEW c \in 1..Amount, NEW h \in Handlers, RefundRead(h, c) PROVE RefundsHeld'
  BY <1>0, <1>4 DEF RefundRead, Begin, Doing, ShopTypeOK, Outcomes, Idle
<1>5. ASSUME OtherCredit PROVE RefundsHeld'
  BY <1>0, <1>5 DEF OtherCredit, Doing, ShopTypeOK, Outcomes, Idle
<1>6. ASSUME NEW h \in Handlers, CreditRead(h) PROVE RefundsHeld'
  BY <1>0, <1>6 DEF CreditRead, Begin, Doing, ShopTypeOK, Outcomes, Idle
<1>7. ASSUME NEW h \in Handlers, NEW g \in {Items, {}}, CreditWrite(h, g) PROVE RefundsHeld'
  BY <1>0, <1>7 DEF CreditWrite, EndRequest, Doing, ShopTypeOK, Outcomes, Idle
<1>8. ASSUME NEW h \in Handlers, RefundWrite(h) PROVE RefundsHeld'
  BY <1>0, <1>8 DEF RefundWrite, EndRequest, Doing, ShopTypeOK, Outcomes, Idle
<1>9. ASSUME NEW h \in Handlers, DeliverRead(h) PROVE RefundsHeld'
  BY <1>0, <1>9, DeliverReads DEF Idle
<1>10. ASSUME NEW h \in Handlers, DeliverInvalid(h) PROVE RefundsHeld'
  BY <1>0, <1>10 DEF DeliverInvalid, Continue, Overwrites, Doing, ShopTypeOK, Outcomes, Idle
<1>11. ASSUME NEW h \in Handlers, MarkQueued(h) PROVE RefundsHeld'
  BY <1>0, <1>11 DEF MarkQueued, Overwrites, Doing, ShopTypeOK, Outcomes, Idle
<1>12. ASSUME NEW h \in Handlers, EnqueueGrant(h) PROVE RefundsHeld'
  BY <1>0, <1>12 DEF EnqueueGrant, Continue, Doing, ShopTypeOK, Outcomes, Idle
<1>13. ASSUME NEW h \in Handlers, MarkFails(h) PROVE RefundsHeld'
  BY <1>0, <1>13 DEF MarkFails, Continue, Fail, Doing, ShopTypeOK, Outcomes, Idle
<1>14. ASSUME NEW h \in Handlers, EnqueueFails(h) PROVE RefundsHeld'
  BY <1>0, <1>14 DEF EnqueueFails, Continue, Fail, Doing, ShopTypeOK, Outcomes, Idle
<1>15. ASSUME NEW i \in Items, NEW gave \in BOOLEAN, LoseResult(i, gave) PROVE RefundsHeld'
  BY <1>0, <1>15 DEF LoseResult, ExecuteGrant, Doing, ShopTypeOK, Outcomes, Idle
<1>16. ASSUME NEW h \in Handlers, NEW i \in Items, NEW o \in Outcomes, NEW gave \in BOOLEAN, FinishRead(h, i, o, gave) PROVE RefundsHeld'
  BY <1>0, <1>16 DEF FinishRead, ExecuteGrant, Begin, Doing, ShopTypeOK, Outcomes, Idle
<1>17. ASSUME NEW h \in Handlers, FinishWrite(h) PROVE RefundsHeld'
  BY <1>0, <1>17 DEF FinishWrite, EndRequest, Overwrites, Doing, ShopTypeOK, Outcomes, Idle
<1>18. ASSUME PlayerMoves PROVE RefundsHeld'
  BY <1>0, <1>18 DEF PlayerMoves, Doing, ShopTypeOK, Outcomes, Idle
<1>19. ASSUME FiveMinutesPass PROVE RefundsHeld'
  BY <1>0, <1>19 DEF FiveMinutesPass, Doing, ShopTypeOK, Outcomes, Idle
<1>20. ASSUME Restart PROVE RefundsHeld'
  BY <1>0, <1>20 DEF Restart, Fail, Doing, ShopTypeOK, Outcomes, Idle
<1>21. CASE UNCHANGED vars
  BY <1>0, <1>21 DEF vars, Doing, ShopTypeOK, Outcomes, Idle
<1> HIDE DEF RefundsHeld
<1>22. QED
  BY <1>2, <1>3, <1>4, <1>5, <1>6, <1>7, <1>8, <1>9, <1>10, <1>11, <1>12, <1>13, <1>14,
     <1>15, <1>16, <1>17, <1>18, <1>19, <1>20, <1>21 DEF Next, RequestStep, Execute

(* Jobs are for items of the line.                                           *)
LEMMA JobsOfLineStep == ShopInv /\ [Next]_vars => JobsOfLine'
<1> SUFFICES ASSUME ShopInv, [Next]_vars PROVE JobsOfLine'
  OBVIOUS
<1> USE ShopAssumption
<1> USE DEF stripeVars, ledgerVars, jobVars, JobsOfLine
<1>0. ShopTypeOK /\ NothingBefore /\ CopiesHeld /\ JobsOfLine
  BY DEF ShopInv
<1>2. ASSUME NEW auth \in {"steam", "name"}, Checkout(auth) PROVE JobsOfLine'
  BY <1>0, <1>2 DEF Checkout, Doing, ShopTypeOK, NothingBefore, CopiesHeld, Delivering, Outcomes
<1>3. ASSUME NEW c \in 1..Amount, Refund(c) PROVE JobsOfLine'
  BY <1>0, <1>3 DEF Refund, Doing, ShopTypeOK, NothingBefore, CopiesHeld, Delivering, Outcomes
<1>4. ASSUME NEW c \in 1..Amount, NEW h \in Handlers, RefundRead(h, c) PROVE JobsOfLine'
  BY <1>0, <1>4 DEF RefundRead, Begin, Doing, ShopTypeOK, NothingBefore, CopiesHeld, Delivering, Outcomes
<1>5. ASSUME OtherCredit PROVE JobsOfLine'
  BY <1>0, <1>5 DEF OtherCredit, Doing, ShopTypeOK, NothingBefore, CopiesHeld, Delivering, Outcomes
<1>6. ASSUME NEW h \in Handlers, CreditRead(h) PROVE JobsOfLine'
  BY <1>0, <1>6 DEF CreditRead, Begin, Doing, ShopTypeOK, NothingBefore, CopiesHeld, Delivering, Outcomes
<1>7. ASSUME NEW h \in Handlers, NEW g \in {Items, {}}, CreditWrite(h, g) PROVE JobsOfLine'
  BY <1>0, <1>7 DEF CreditWrite, EndRequest, Doing, ShopTypeOK, NothingBefore, CopiesHeld, Delivering, Outcomes
<1>8. ASSUME NEW h \in Handlers, RefundWrite(h) PROVE JobsOfLine'
  BY <1>0, <1>8 DEF RefundWrite, EndRequest, Doing, ShopTypeOK, NothingBefore, CopiesHeld, Delivering, Outcomes
<1>9. ASSUME NEW h \in Handlers, DeliverRead(h) PROVE JobsOfLine'
  BY <1>0, <1>9 DEF DeliverRead, EndRequest, Doing, ShopTypeOK, NothingBefore, CopiesHeld, Delivering, Outcomes
<1>10. ASSUME NEW h \in Handlers, DeliverInvalid(h) PROVE JobsOfLine'
  BY <1>0, <1>10 DEF DeliverInvalid, Continue, Overwrites, Doing, ShopTypeOK, NothingBefore, CopiesHeld, Delivering, Outcomes
<1>11. ASSUME NEW h \in Handlers, MarkQueued(h) PROVE JobsOfLine'
  BY <1>0, <1>11 DEF MarkQueued, Overwrites, Doing, ShopTypeOK, NothingBefore, CopiesHeld, Delivering, Outcomes
<1>12. ASSUME NEW h \in Handlers, EnqueueGrant(h) PROVE JobsOfLine'
  BY <1>0, <1>12 DEF EnqueueGrant, Continue, Doing, ShopTypeOK, NothingBefore, CopiesHeld, Delivering, Outcomes
<1>13. ASSUME NEW h \in Handlers, MarkFails(h) PROVE JobsOfLine'
  BY <1>0, <1>13 DEF MarkFails, Continue, Fail, Doing, ShopTypeOK, NothingBefore, CopiesHeld, Delivering, Outcomes
<1>14. ASSUME NEW h \in Handlers, EnqueueFails(h) PROVE JobsOfLine'
  BY <1>0, <1>14 DEF EnqueueFails, Continue, Fail, Doing, ShopTypeOK, NothingBefore, CopiesHeld, Delivering, Outcomes
<1>15. ASSUME NEW i \in Items, NEW gave \in BOOLEAN, LoseResult(i, gave) PROVE JobsOfLine'
  BY <1>0, <1>15 DEF LoseResult, ExecuteGrant, Doing, ShopTypeOK, NothingBefore, CopiesHeld, Delivering, Outcomes
<1>16. ASSUME NEW h \in Handlers, NEW i \in Items, NEW o \in Outcomes, NEW gave \in BOOLEAN, FinishRead(h, i, o, gave) PROVE JobsOfLine'
  BY <1>0, <1>16 DEF FinishRead, ExecuteGrant, Begin, Doing, ShopTypeOK, NothingBefore, CopiesHeld, Delivering, Outcomes
<1>17. ASSUME NEW h \in Handlers, FinishWrite(h) PROVE JobsOfLine'
  BY <1>0, <1>17 DEF FinishWrite, EndRequest, Overwrites, Doing, ShopTypeOK, NothingBefore, CopiesHeld, Delivering, Outcomes
<1>18. ASSUME PlayerMoves PROVE JobsOfLine'
  BY <1>0, <1>18 DEF PlayerMoves, Doing, ShopTypeOK, NothingBefore, CopiesHeld, Delivering, Outcomes
<1>19. ASSUME FiveMinutesPass PROVE JobsOfLine'
  BY <1>0, <1>19 DEF FiveMinutesPass, Doing, ShopTypeOK, NothingBefore, CopiesHeld, Delivering, Outcomes
<1>20. ASSUME Restart PROVE JobsOfLine'
  BY <1>0, <1>20 DEF Restart, Fail, Doing, ShopTypeOK, NothingBefore, CopiesHeld, Delivering, Outcomes
<1>21. CASE UNCHANGED vars
  BY <1>0, <1>21 DEF vars, Doing, ShopTypeOK, NothingBefore, CopiesHeld, Delivering, Outcomes
<1> HIDE DEF JobsOfLine
<1>22. QED
  BY <1>2, <1>3, <1>4, <1>5, <1>6, <1>7, <1>8, <1>9, <1>10, <1>11, <1>12, <1>13, <1>14,
     <1>15, <1>16, <1>17, <1>18, <1>19, <1>20, <1>21 DEF Next, RequestStep, Execute

(* A copy has the items of the line, and holds what is still to be done.     *)
LEMMA CopiesHeldStep == ShopInv /\ [Next]_vars => CopiesHeld'
<1> SUFFICES ASSUME ShopInv, [Next]_vars PROVE CopiesHeld'
  OBVIOUS
<1> USE ShopAssumption
<1> USE DEF stripeVars, ledgerVars, jobVars, CopiesHeld, Delivering
<1>0. ShopTypeOK /\ NothingBefore /\ CopiesHeld /\ JobsOfLine
  BY DEF ShopInv
<1>2. ASSUME NEW auth \in {"steam", "name"}, Checkout(auth) PROVE CopiesHeld'
  BY <1>0, <1>2 DEF Checkout, Doing, ShopTypeOK, NothingBefore, JobsOfLine, Outcomes, Idle
<1>3. ASSUME NEW c \in 1..Amount, Refund(c) PROVE CopiesHeld'
  BY <1>0, <1>3 DEF Refund, Doing, ShopTypeOK, NothingBefore, JobsOfLine, Outcomes, Idle
<1>4. ASSUME NEW c \in 1..Amount, NEW h \in Handlers, RefundRead(h, c) PROVE CopiesHeld'
  BY <1>0, <1>4 DEF RefundRead, Begin, Doing, ShopTypeOK, NothingBefore, JobsOfLine, Outcomes, Idle
<1>5. ASSUME OtherCredit PROVE CopiesHeld'
  BY <1>0, <1>5 DEF OtherCredit, Doing, ShopTypeOK, NothingBefore, JobsOfLine, Outcomes, Idle
<1>6. ASSUME NEW h \in Handlers, CreditRead(h) PROVE CopiesHeld'
  BY <1>0, <1>6 DEF CreditRead, Begin, Doing, ShopTypeOK, NothingBefore, JobsOfLine, Outcomes, Idle
<1>7. ASSUME NEW h \in Handlers, NEW g \in {Items, {}}, CreditWrite(h, g) PROVE CopiesHeld'
  BY <1>0, <1>7 DEF CreditWrite, EndRequest, Doing, ShopTypeOK, NothingBefore, JobsOfLine, Outcomes, Idle
<1>8. ASSUME NEW h \in Handlers, RefundWrite(h) PROVE CopiesHeld'
  BY <1>0, <1>8 DEF RefundWrite, EndRequest, Doing, ShopTypeOK, NothingBefore, JobsOfLine, Outcomes, Idle
<1>9. ASSUME NEW h \in Handlers, DeliverRead(h) PROVE CopiesHeld'
  <2>1. CASE hand'[h] = Idle
    BY <1>0, <1>9, <2>1, DeliverReads DEF Idle, Outcomes
  <2>2. CASE hand'[h].pc = "deliver" /\ hand'[h].copy = line.grants /\ hand'[h].todo = Due /\ Due # {}
    BY <1>0, <1>9, <2>2, DeliverReads DEF Due, Outcomes
  <2>3. QED
    BY <1>0, <1>9, <2>1, <2>2, DeliverReads
<1>10. ASSUME NEW h \in Handlers, DeliverInvalid(h) PROVE CopiesHeld'
  <2> DEFINE i == Min(hand[h].todo)
             c == hand[h].copy
             g == [c EXCEPT ![i].status = "failed"]
             r == [hand[h] EXCEPT !.copy = g, !.todo = @ \ {i}]
  <2>1. Doing(h, "deliver") /\ hand[h].pc = "deliver"
    BY <1>10 DEF DeliverInvalid, Doing
  <2>2. /\ c \in [Items -> Grant] /\ i \in Items /\ DOMAIN line.grants = Items
        /\ hand[h].todo \subseteq Items /\ \A j \in hand[h].todo : c[j].attempts < MaxAttempts
    BY <1>0, <2>1, NextItem
  <2>3. /\ line' = [line EXCEPT !.grants = g, !.status = AggregateGrantStatus(g)]
        /\ hand' = [hand EXCEPT ![h] = IF r.todo = {} THEN Idle ELSE r]
    BY <1>10 DEF DeliverInvalid, Continue
  <2>4. hand[h] \in Request /\ DOMAIN line'.grants = Items
    BY <1>0, <2>2, <2>3 DEF ShopTypeOK
  <2>5. DOMAIN g = Items /\ \A j \in Items \ {i} : g[j] = c[j]
    BY <2>2
  <2> HIDE DEF i, c, g
  <2>6. r.pc = "deliver" /\ r.copy = g /\ r.todo = hand[h].todo \ {i}
    BY <2>1, <2>4 DEF Request
  <2> HIDE DEF r
  <2>7. /\ \A k \in Handlers \ {h} : hand'[k] = hand[k]
        /\ hand'[h] = Idle \/ (hand'[h] = r /\ r.todo # {})
    BY <1>0, <2>3, Zenon DEF ShopTypeOK
  <2>8. \A j \in r.todo : r.copy[j].attempts < MaxAttempts
    BY <2>2, <2>5, <2>6
  <2>9. Idle.pc = "idle"
    BY DEF Idle
  <2>10. QED
    BY <1>0, <2>2, <2>4, <2>5, <2>6, <2>7, <2>8, <2>9 DEF Outcomes
<1>11. ASSUME NEW h \in Handlers, MarkQueued(h) PROVE CopiesHeld'
  <2> DEFINE i == Min(hand[h].todo)
  <2>1. /\ hand[h].copy \in [Items -> Grant] /\ i \in hand[h].todo /\ i \in Items
        /\ DOMAIN line.grants = Items /\ hand[h].copy[i].attempts \in 0..(MaxAttempts - 1)
    BY <1>0, <1>11, NextItem DEF MarkQueued
  <2> HIDE DEF i
  <2>2. /\ hand'[h].pc = "enqueue" /\ hand'[h].i = i /\ hand'[h].todo = hand[h].todo \ {i}
        /\ hand'[h].copy = [hand[h].copy EXCEPT ![i] = QueuedGrant(@)]
        /\ line'.grants = hand'[h].copy
        /\ \A x \in Handlers \ {h} : hand'[x] = hand[x]
    BY <1>0, <1>11 DEF MarkQueued, ShopTypeOK, Request, i
  <2>3. DOMAIN line'.grants = DOMAIN line.grants
    BY <2>1, <2>2
  <2>4. hand'[h].copy[i].attempts > 0
    BY <2>1, <2>2 DEF QueuedGrant
  <2>5. \A j \in hand'[h].todo : j \in Items /\ hand'[h].copy[j].attempts < MaxAttempts
    <3>1. \A j \in hand[h].todo : j \in Items /\ hand[h].copy[j].attempts < MaxAttempts
      BY <1>0, <1>11, <2>1 DEF MarkQueued, Doing
    <3>2. QED
      BY <2>1, <2>2, <3>1
  <2>6. QED
    BY <1>0, <2>1, <2>2, <2>3, <2>4, <2>5 DEF Outcomes
<1>12. ASSUME NEW h \in Handlers, EnqueueGrant(h) PROVE CopiesHeld'
  BY <1>0, <1>12 DEF EnqueueGrant, Continue, Doing, ShopTypeOK, NothingBefore, JobsOfLine, Outcomes, Idle
<1>13. ASSUME NEW h \in Handlers, MarkFails(h) PROVE CopiesHeld'
  BY <1>0, <1>13 DEF MarkFails, Continue, Fail, Doing, ShopTypeOK, NothingBefore, JobsOfLine, Outcomes, Idle
<1>14. ASSUME NEW h \in Handlers, EnqueueFails(h) PROVE CopiesHeld'
  BY <1>0, <1>14 DEF EnqueueFails, Continue, Fail, Doing, ShopTypeOK, NothingBefore, JobsOfLine, Outcomes, Idle
<1>15. ASSUME NEW i \in Items, NEW gave \in BOOLEAN, LoseResult(i, gave) PROVE CopiesHeld'
  BY <1>0, <1>15 DEF LoseResult, ExecuteGrant, Doing, ShopTypeOK, NothingBefore, JobsOfLine, Outcomes, Idle
<1>16. ASSUME NEW h \in Handlers, NEW i \in Items, NEW o \in Outcomes, NEW gave \in BOOLEAN, FinishRead(h, i, o, gave) PROVE CopiesHeld'
  BY <1>0, <1>16 DEF FinishRead, ExecuteGrant, Begin, Doing, ShopTypeOK, NothingBefore, JobsOfLine, Outcomes, Idle
<1>17. ASSUME NEW h \in Handlers, FinishWrite(h) PROVE CopiesHeld'
  BY <1>0, <1>17 DEF FinishWrite, EndRequest, Overwrites, Doing, ShopTypeOK, NothingBefore, JobsOfLine, Outcomes, Idle
<1>18. ASSUME PlayerMoves PROVE CopiesHeld'
  BY <1>0, <1>18 DEF PlayerMoves, Doing, ShopTypeOK, NothingBefore, JobsOfLine, Outcomes, Idle
<1>19. ASSUME FiveMinutesPass PROVE CopiesHeld'
  BY <1>0, <1>19 DEF FiveMinutesPass, Doing, ShopTypeOK, NothingBefore, JobsOfLine, Outcomes, Idle
<1>20. ASSUME Restart PROVE CopiesHeld'
  BY <1>0, <1>20 DEF Restart, Fail, Doing, ShopTypeOK, NothingBefore, JobsOfLine, Outcomes, Idle
<1>21. CASE UNCHANGED vars
  BY <1>0, <1>21 DEF vars, Doing, ShopTypeOK, NothingBefore, JobsOfLine, Outcomes, Idle
<1> HIDE DEF CopiesHeld, Delivering
<1>22. QED
  BY <1>2, <1>3, <1>4, <1>5, <1>6, <1>7, <1>8, <1>9, <1>10, <1>11, <1>12, <1>13, <1>14,
     <1>15, <1>16, <1>17, <1>18, <1>19, <1>20, <1>21 DEF Next, RequestStep, Execute

(* The ledger stays right while no request has overwritten another's amount. *)
LEMMA LedgerStep == ShopInv /\ [Next]_vars => LedgerAddsUp'
<1> SUFFICES ASSUME ShopInv, [Next]_vars PROVE LedgerAddsUp'
  OBVIOUS
<1> USE ShopAssumption
<1> USE DEF stripeVars, ledgerVars, jobVars, LedgerAddsUp
<1>0. ShopTypeOK /\ NothingBefore /\ RefundsHeld /\ LedgerAddsUp
  BY DEF ShopInv
<1>2. ASSUME NEW auth \in {"steam", "name"}, Checkout(auth) PROVE LedgerAddsUp'
  BY <1>0, <1>2 DEF Checkout, Doing, ShopTypeOK, NothingBefore
<1>3. ASSUME NEW c \in 1..Amount, Refund(c) PROVE LedgerAddsUp'
  BY <1>0, <1>3 DEF Refund, Doing, ShopTypeOK, NothingBefore
<1>4. ASSUME NEW c \in 1..Amount, NEW h \in Handlers, RefundRead(h, c) PROVE LedgerAddsUp'
  BY <1>0, <1>4 DEF RefundRead, Begin, Doing, ShopTypeOK, NothingBefore
<1>5. ASSUME OtherCredit PROVE LedgerAddsUp'
  BY <1>0, <1>5 DEF OtherCredit, Doing, ShopTypeOK, NothingBefore
<1>6. ASSUME NEW h \in Handlers, CreditRead(h) PROVE LedgerAddsUp'
  BY <1>0, <1>6 DEF CreditRead, Begin, Doing, ShopTypeOK, NothingBefore
<1>7. ASSUME NEW h \in Handlers, NEW g \in {Items, {}}, CreditWrite(h, g) PROVE LedgerAddsUp'
  BY <1>0, <1>7 DEF CreditWrite, EndRequest, Doing, ShopTypeOK, NothingBefore
<1>8. ASSUME NEW h \in Handlers, RefundWrite(h) PROVE LedgerAddsUp'
  <2> DEFINE r == hand[h].r
             c == hand[h].i
             d == hand[h].n - RefundDelta(r, c)
  <2>1. r \in 0..Amount /\ c \in 1..Amount /\ hand[h].n \in Nat /\ donation.status # "none"
    BY <1>0, <1>8 DEF RefundWrite, Doing, RefundsHeld, NothingBefore, ShopTypeOK, Request
  <2>2. NextRefunded(r, c) \in r..Amount /\ RefundDelta(r, c) = NextRefunded(r, c) - r
    BY <2>1, RefundedGrows DEF RefundDelta
  <2>3. d \in Int
    BY <2>1, <2>2
  <2>4. Max({0, d}) = IF 0 >= d THEN 0 ELSE d
    <3> HIDE DEF d
    <3>1. QED
      BY <2>3, MinMaxOfTwo
  <2>5. CASE NextRefunded(r, c) = r
    BY <1>0, <1>8, <2>5 DEF RefundWrite
  <2>6. CASE NextRefunded(r, c) # r /\ "ledger" \notin lost'
    <3>1. /\ donation'.status # "none" /\ donation'.refunded = NextRefunded(r, c)
          /\ total' = Max({0, d}) /\ other' = other
          /\ "ledger" \notin lost /\ total = hand[h].n /\ donation.refunded = r
      BY <1>8, <2>6 DEF RefundWrite
    <3>2. total = other + (Amount - r) /\ other \in Nat
      BY <1>0, <2>1, <3>1 DEF ShopTypeOK
    <3>3. d = other + (Amount - NextRefunded(r, c)) /\ d >= 0
      BY <2>1, <2>2, <3>1, <3>2
    <3>4. QED
      BY <2>3, <2>4, <3>1, <3>3
  <2>7. QED
    BY <2>5, <2>6
<1>9. ASSUME NEW h \in Handlers, DeliverRead(h) PROVE LedgerAddsUp'
  BY <1>0, <1>9 DEF DeliverRead, EndRequest, Doing, ShopTypeOK, NothingBefore
<1>10. ASSUME NEW h \in Handlers, DeliverInvalid(h) PROVE LedgerAddsUp'
  BY <1>0, <1>10 DEF DeliverInvalid, Continue, Overwrites, Doing, ShopTypeOK, NothingBefore
<1>11. ASSUME NEW h \in Handlers, MarkQueued(h) PROVE LedgerAddsUp'
  BY <1>0, <1>11 DEF MarkQueued, Overwrites, Doing, ShopTypeOK, NothingBefore
<1>12. ASSUME NEW h \in Handlers, EnqueueGrant(h) PROVE LedgerAddsUp'
  BY <1>0, <1>12 DEF EnqueueGrant, Continue, Doing, ShopTypeOK, NothingBefore
<1>13. ASSUME NEW h \in Handlers, MarkFails(h) PROVE LedgerAddsUp'
  BY <1>0, <1>13 DEF MarkFails, Continue, Fail, Doing, ShopTypeOK, NothingBefore
<1>14. ASSUME NEW h \in Handlers, EnqueueFails(h) PROVE LedgerAddsUp'
  BY <1>0, <1>14 DEF EnqueueFails, Continue, Fail, Doing, ShopTypeOK, NothingBefore
<1>15. ASSUME NEW i \in Items, NEW gave \in BOOLEAN, LoseResult(i, gave) PROVE LedgerAddsUp'
  BY <1>0, <1>15 DEF LoseResult, ExecuteGrant, Doing, ShopTypeOK, NothingBefore
<1>16. ASSUME NEW h \in Handlers, NEW i \in Items, NEW o \in Outcomes, NEW gave \in BOOLEAN, FinishRead(h, i, o, gave) PROVE LedgerAddsUp'
  BY <1>0, <1>16 DEF FinishRead, ExecuteGrant, Begin, Doing, ShopTypeOK, NothingBefore
<1>17. ASSUME NEW h \in Handlers, FinishWrite(h) PROVE LedgerAddsUp'
  BY <1>0, <1>17 DEF FinishWrite, EndRequest, Overwrites, Doing, ShopTypeOK, NothingBefore
<1>18. ASSUME PlayerMoves PROVE LedgerAddsUp'
  BY <1>0, <1>18 DEF PlayerMoves, Doing, ShopTypeOK, NothingBefore
<1>19. ASSUME FiveMinutesPass PROVE LedgerAddsUp'
  BY <1>0, <1>19 DEF FiveMinutesPass, Doing, ShopTypeOK, NothingBefore
<1>20. ASSUME Restart PROVE LedgerAddsUp'
  BY <1>0, <1>20 DEF Restart, Fail, Doing, ShopTypeOK, NothingBefore
<1>21. CASE UNCHANGED vars
  BY <1>0, <1>21 DEF vars, Doing, ShopTypeOK, NothingBefore
<1> HIDE DEF LedgerAddsUp
<1>22. QED
  BY <1>2, <1>3, <1>4, <1>5, <1>6, <1>7, <1>8, <1>9, <1>10, <1>11, <1>12, <1>13, <1>14,
     <1>15, <1>16, <1>17, <1>18, <1>19, <1>20, <1>21 DEF Next, RequestStep, Execute

(* Every status written over a line is the aggregate of its items, or none   
   that ends the delivery. *)
LEMMA SettledStep == ShopInv /\ [Next]_vars => SettledLine'
<1> SUFFICES ASSUME ShopInv, [Next]_vars PROVE SettledLine'
  OBVIOUS
<1> USE ShopAssumption
<1> USE DEF stripeVars, ledgerVars, jobVars, SettledLine
<1>0. ShopTypeOK /\ CopiesHeld /\ SettledLine
  BY DEF ShopInv
<1>2. ASSUME NEW auth \in {"steam", "name"}, Checkout(auth) PROVE SettledLine'
  BY <1>0, <1>2 DEF Checkout, Doing
<1>3. ASSUME NEW c \in 1..Amount, Refund(c) PROVE SettledLine'
  BY <1>0, <1>3 DEF Refund, Doing
<1>4. ASSUME NEW c \in 1..Amount, NEW h \in Handlers, RefundRead(h, c) PROVE SettledLine'
  BY <1>0, <1>4 DEF RefundRead, Begin, Doing
<1>5. ASSUME OtherCredit PROVE SettledLine'
  BY <1>0, <1>5 DEF OtherCredit, Doing
<1>6. ASSUME NEW h \in Handlers, CreditRead(h) PROVE SettledLine'
  BY <1>0, <1>6 DEF CreditRead, Begin, Doing
<1>7. ASSUME NEW h \in Handlers, NEW g \in {Items, {}}, CreditWrite(h, g) PROVE SettledLine'
  <2> DEFINE grants == [i \in g |-> [status |-> "pending", attempts |-> 0]]
  <2>1. line' = line \/ line' = SnapshotLine(g)
    BY <1>7 DEF CreditWrite
  <2>2. SnapshotLine(g).grants \in Grants /\ SnapshotLine(g).status = AggregateGrantStatus(SnapshotLine(g).grants)
    BY SnapshotOf DEF SnapshotLine
  <2>3. QED
    BY <1>0, <2>1, <2>2, AggregateOf
<1>8. ASSUME NEW h \in Handlers, RefundWrite(h) PROVE SettledLine'
  BY <1>0, <1>8 DEF RefundWrite, EndRequest, Doing
<1>9. ASSUME NEW h \in Handlers, DeliverRead(h) PROVE SettledLine'
  BY <1>0, <1>9 DEF DeliverRead, EndRequest, Doing
<1>10. ASSUME NEW h \in Handlers, DeliverInvalid(h) PROVE SettledLine'
  <2> DEFINE i == Min(hand[h].todo)
             g == [hand[h].copy EXCEPT ![i].status = "failed"]
  <2>1. g \in Grants
    <3> DEFINE c == hand[h].copy
               v == [c[i] EXCEPT !.status = "failed"]
    <3>1. Doing(h, "deliver")
      BY <1>10 DEF DeliverInvalid
    <3>2. c \in [Items -> Grant] /\ i \in Items
      BY <1>0, <3>1, NextItem
    <3> HIDE DEF i, c
    <3>3. v \in Grant
      BY <3>2 DEF Grant, GrantStatus
    <3> HIDE DEF v
    <3>4. [c EXCEPT ![i] = v] \in [Items -> Grant]
      BY <3>2, <3>3
    <3>5. QED
      BY <3>4 DEF c, v, Grants
  <2>2. line'.grants = g /\ line'.status = AggregateGrantStatus(g)
    BY <1>0, <1>10 DEF DeliverInvalid, ShopTypeOK
  <2> HIDE DEF i, g
  <2>3. QED
    BY <2>1, <2>2, AggregateOf
<1>11. ASSUME NEW h \in Handlers, MarkQueued(h) PROVE SettledLine'
  <2> DEFINE i == Min(hand[h].todo)
             g == [hand[h].copy EXCEPT ![i] = QueuedGrant(@)]
  <2>1. g \in Grants
    <3>1. \A e \in Grant : e.attempts < MaxAttempts => QueuedGrant(e) \in Grant
      BY DEF Grant, GrantStatus, QueuedGrant
    <3>2. i \in Items /\ hand[h].copy \in [Items -> Grant] /\ hand[h].copy[i].attempts < MaxAttempts
      BY <1>0, <1>11, NextItem DEF MarkQueued
    <3>3. QED
      BY <3>1, <3>2 DEF Grants
  <2>2. line'.grants = g /\ line'.status = AggregateGrantStatus(g)
    BY <1>0, <1>11 DEF MarkQueued, ShopTypeOK
  <2> HIDE DEF i, g
  <2>3. QED
    BY <2>1, <2>2, AggregateOf
<1>12. ASSUME NEW h \in Handlers, EnqueueGrant(h) PROVE SettledLine'
  BY <1>0, <1>12 DEF EnqueueGrant, Continue, Doing
<1>13. ASSUME NEW h \in Handlers, MarkFails(h) PROVE SettledLine'
  BY <1>0, <1>13 DEF MarkFails, Continue, Fail, Doing
<1>14. ASSUME NEW h \in Handlers, EnqueueFails(h) PROVE SettledLine'
  BY <1>0, <1>14 DEF EnqueueFails, Continue, Fail, Doing
<1>15. ASSUME NEW i \in Items, NEW gave \in BOOLEAN, LoseResult(i, gave) PROVE SettledLine'
  BY <1>0, <1>15 DEF LoseResult, ExecuteGrant, Doing
<1>16. ASSUME NEW h \in Handlers, NEW i \in Items, NEW o \in Outcomes, NEW gave \in BOOLEAN, FinishRead(h, i, o, gave) PROVE SettledLine'
  BY <1>0, <1>16 DEF FinishRead, ExecuteGrant, Begin, Doing
<1>17. ASSUME NEW h \in Handlers, FinishWrite(h) PROVE SettledLine'
  <2> DEFINE i == hand[h].i
             g == [hand[h].copy EXCEPT ![i].status = GrantResult(hand[h].pc)]
  <2>1. g \in Grants
    <3>1. hand[h].copy \in Grants /\ i \in DOMAIN hand[h].copy
      BY <1>0, <1>17 DEF FinishWrite, CopiesHeld, ShopTypeOK, Request
    <3>2. hand[h].copy[i] \in Grant
      BY <3>1 DEF Grants, NoGrants
    <3>3. [hand[h].copy[i] EXCEPT !.status = GrantResult(hand[h].pc)] \in Grant
      BY <1>17, <3>2 DEF FinishWrite, Grant, GrantStatus, GrantResult, Outcomes
    <3>4. QED
      BY <3>1, <3>3, ChangedGrant
  <2>2. line'.grants = g /\ line'.status = AggregateGrantStatus(g)
    BY <1>0, <1>17 DEF FinishWrite, ShopTypeOK
  <2> HIDE DEF i, g
  <2>3. QED
    BY <2>1, <2>2, AggregateOf
<1>18. ASSUME PlayerMoves PROVE SettledLine'
  BY <1>0, <1>18 DEF PlayerMoves, Doing
<1>19. ASSUME FiveMinutesPass PROVE SettledLine'
  BY <1>0, <1>19 DEF FiveMinutesPass, Doing
<1>20. ASSUME Restart PROVE SettledLine'
  BY <1>0, <1>20 DEF Restart, Fail, Doing
<1>21. CASE UNCHANGED vars
  BY <1>0, <1>21 DEF vars, Doing
<1> HIDE DEF SettledLine
<1>22. QED
  BY <1>2, <1>3, <1>4, <1>5, <1>6, <1>7, <1>8, <1>9, <1>10, <1>11, <1>12, <1>13, <1>14,
     <1>15, <1>16, <1>17, <1>18, <1>19, <1>20, <1>21 DEF Next, RequestStep, Execute

(* Only a result of the agent calls an item delivered.                        *)
LEMMA DeliveredStep == ShopInv /\ [Next]_vars => DeliveredGiven'
<1> SUFFICES ASSUME ShopInv, [Next]_vars PROVE DeliveredGiven'
  OBVIOUS
<1> USE ShopAssumption
<1> USE DEF stripeVars, ledgerVars, jobVars, DeliveredGiven
<1>0. ShopTypeOK /\ CopiesHeld /\ DeliveredGiven
  BY DEF ShopInv
<1>2. ASSUME NEW auth \in {"steam", "name"}, Checkout(auth) PROVE DeliveredGiven'
  BY <1>0, <1>2 DEF Checkout, Doing, ShopTypeOK, Idle, NoGrants
<1>3. ASSUME NEW c \in 1..Amount, Refund(c) PROVE DeliveredGiven'
  BY <1>0, <1>3 DEF Refund, Doing, ShopTypeOK, Idle, NoGrants
<1>4. ASSUME NEW c \in 1..Amount, NEW h \in Handlers, RefundRead(h, c) PROVE DeliveredGiven'
  BY <1>0, <1>4 DEF RefundRead, Begin, Doing, ShopTypeOK, Idle, NoGrants
<1>5. ASSUME OtherCredit PROVE DeliveredGiven'
  BY <1>0, <1>5 DEF OtherCredit, Doing, ShopTypeOK, Idle, NoGrants
<1>6. ASSUME NEW h \in Handlers, CreditRead(h) PROVE DeliveredGiven'
  BY <1>0, <1>6 DEF CreditRead, Begin, Doing, ShopTypeOK, Idle, NoGrants
<1>7. ASSUME NEW h \in Handlers, NEW g \in {Items, {}}, CreditWrite(h, g) PROVE DeliveredGiven'
  <2>1. line' = line \/ line' = SnapshotLine(g)
    BY <1>7 DEF CreditWrite
  <2>2. \A i \in DOMAIN line'.grants : line'.grants[i].status = "delivered" => i \in given
    <3>1. CASE line' = line
      BY <1>0, <3>1
    <3>2. CASE line' = SnapshotLine(g)
      BY <3>2, SnapshotOf
    <3>3. QED
      BY <2>1, <3>1, <3>2
  <2>3. \A x \in Handlers : hand'[x] = hand[x] \/ (hand'[x].copy = NoGrants /\ hand'[x].pc \in {"idle", "grants"})
    BY <1>0, <1>7 DEF CreditWrite, EndRequest, Idle, ShopTypeOK
  <2>4. given' = given
    BY <1>7 DEF CreditWrite
  <2>5. QED
    BY <1>0, <2>2, <2>3, <2>4 DEF NoGrants
<1>8. ASSUME NEW h \in Handlers, RefundWrite(h) PROVE DeliveredGiven'
  BY <1>0, <1>8 DEF RefundWrite, EndRequest, Doing, ShopTypeOK, Idle, NoGrants
<1>9. ASSUME NEW h \in Handlers, DeliverRead(h) PROVE DeliveredGiven'
  BY <1>0, <1>9, DeliverReads DEF Idle, NoGrants
<1>10. ASSUME NEW h \in Handlers, DeliverInvalid(h) PROVE DeliveredGiven'
  BY <1>0, <1>10 DEF DeliverInvalid, Continue, Overwrites, Doing, ShopTypeOK, Idle, NoGrants
<1>11. ASSUME NEW h \in Handlers, MarkQueued(h) PROVE DeliveredGiven'
  <2> DEFINE i == Min(hand[h].todo)
             g == [hand[h].copy EXCEPT ![i] = QueuedGrant(@)]
  <2>1. hand[h].copy \in [Items -> Grant] /\ i \in Items
    BY <1>0, <1>11, NextItem DEF MarkQueued
  <2>2. \A j \in DOMAIN g : g[j].status = "delivered" => j \in given
    BY <1>0, <2>1 DEF QueuedGrant
  <2>3. /\ line'.grants = g /\ hand'[h].copy = g /\ hand'[h].pc = "enqueue" /\ given' = given
        /\ \A x \in Handlers \ {h} : hand'[x] = hand[x]
    BY <1>0, <1>11 DEF MarkQueued, ShopTypeOK, Request
  <2> HIDE DEF i, g
  <2>4. QED
    BY <1>0, <2>2, <2>3
<1>12. ASSUME NEW h \in Handlers, EnqueueGrant(h) PROVE DeliveredGiven'
  BY <1>0, <1>12 DEF EnqueueGrant, Continue, Doing, ShopTypeOK, Idle, NoGrants
<1>13. ASSUME NEW h \in Handlers, MarkFails(h) PROVE DeliveredGiven'
  BY <1>0, <1>13 DEF MarkFails, Continue, Fail, Doing, ShopTypeOK, Idle, NoGrants
<1>14. ASSUME NEW h \in Handlers, EnqueueFails(h) PROVE DeliveredGiven'
  BY <1>0, <1>14 DEF EnqueueFails, Continue, Fail, Doing, ShopTypeOK, Idle, NoGrants
<1>15. ASSUME NEW i \in Items, NEW gave \in BOOLEAN, LoseResult(i, gave) PROVE DeliveredGiven'
  BY <1>0, <1>15 DEF LoseResult, ExecuteGrant, Doing, ShopTypeOK, Idle, NoGrants
<1>16. ASSUME NEW h \in Handlers, NEW i \in Items, NEW o \in Outcomes, NEW gave \in BOOLEAN, FinishRead(h, i, o, gave) PROVE DeliveredGiven'
  BY <1>0, <1>16 DEF FinishRead, ExecuteGrant, Begin, Doing, ShopTypeOK, Idle, NoGrants
<1>17. ASSUME NEW h \in Handlers, FinishWrite(h) PROVE DeliveredGiven'
  <2> DEFINE i == hand[h].i
             g == [hand[h].copy EXCEPT ![i].status = GrantResult(hand[h].pc)]
  <2>1. \A j \in DOMAIN g : g[j].status = "delivered" => j \in given
    <3>1. hand[h].copy \in Grants /\ i \in DOMAIN hand[h].copy
      BY <1>0, <1>17 DEF FinishWrite, CopiesHeld, ShopTypeOK, Request
    <3>2. hand[h].copy[i] \in Grant
      BY <3>1 DEF Grants, NoGrants
    <3>3. GrantResult(hand[h].pc) = "delivered" => i \in given
      BY <1>0, <1>17 DEF GrantResult
    <3>4. QED
      BY <1>0, <3>1, <3>2, <3>3 DEF Grant
  <2>2. line'.grants = g /\ given' = given /\ hand' = [hand EXCEPT ![h] = Idle]
    BY <1>0, <1>17 DEF FinishWrite, EndRequest, ShopTypeOK
  <2> HIDE DEF i, g
  <2>3. QED
    BY <1>0, <2>1, <2>2 DEF Idle, NoGrants
<1>18. ASSUME PlayerMoves PROVE DeliveredGiven'
  BY <1>0, <1>18 DEF PlayerMoves, Doing, ShopTypeOK, Idle, NoGrants
<1>19. ASSUME FiveMinutesPass PROVE DeliveredGiven'
  BY <1>0, <1>19 DEF FiveMinutesPass, Doing, ShopTypeOK, Idle, NoGrants
<1>20. ASSUME Restart PROVE DeliveredGiven'
  BY <1>0, <1>20 DEF Restart, Fail, Doing, ShopTypeOK, Idle, NoGrants
<1>21. CASE UNCHANGED vars
  BY <1>0, <1>21 DEF vars, Doing, ShopTypeOK, Idle, NoGrants
<1> HIDE DEF DeliveredGiven
<1>22. QED
  BY <1>2, <1>3, <1>4, <1>5, <1>6, <1>7, <1>8, <1>9, <1>10, <1>11, <1>12, <1>13, <1>14,
     <1>15, <1>16, <1>17, <1>18, <1>19, <1>20, <1>21 DEF Next, RequestStep, Execute


(* The requests that are about to send a job for an item.                   *)
LEMMA EnqueuingFinite ==
    ASSUME NEW i
    PROVE  /\ IsFiniteSet(Enqueuing(i)) /\ Cardinality(Enqueuing(i)) \in Nat
           /\ IsFiniteSet(Enqueuing(i)') /\ Cardinality(Enqueuing(i)') \in Nat
<1>1. Enqueuing(i) \subseteq Handlers /\ Enqueuing(i)' \subseteq Handlers
  BY DEF Enqueuing
<1>2. QED
  BY <1>1, ShopAssumption, FS_Subset, FS_CardinalityType

(* The count holds on when no request begins to send and the row keeps its  *)
(* attempts.                                                                *)
LEMMA CountKept ==
    ASSUME ShopTypeOK, SentCounted, sent' = sent, lost \subseteq lost',
           \A h \in Handlers : hand'[h].pc = "enqueue" => hand[h].pc = "enqueue" /\ hand'[h].i = hand[h].i,
           "line" \notin lost' =>
              \A i \in DOMAIN line'.grants :
                 i \in DOMAIN line.grants /\ line'.grants[i].attempts = line.grants[i].attempts
    PROVE  SentCounted'
<1> SUFFICES ASSUME "line" \notin lost', NEW i \in DOMAIN line'.grants
             PROVE  sent'[i] + Cardinality(Enqueuing(i)') <= line'.grants[i].attempts
  BY DEF SentCounted
<1>1. Enqueuing(i)' \subseteq Enqueuing(i)
  BY DEF Enqueuing
<1>2. Cardinality(Enqueuing(i)') <= Cardinality(Enqueuing(i))
  BY <1>1, EnqueuingFinite, FS_Subset
<1>3. /\ i \in DOMAIN line.grants /\ line'.grants[i].attempts = line.grants[i].attempts
      /\ sent[i] + Cardinality(Enqueuing(i)) <= line.grants[i].attempts
  BY DEF SentCounted
<1>4. i \in Items /\ sent[i] \in Nat /\ line.grants[i].attempts \in Nat
  <2>1. line.grants \in Grants /\ i \in DOMAIN line.grants
    BY <1>3 DEF ShopTypeOK
  <2>2. i \in Items /\ line.grants[i] \in Grant
    BY <2>1 DEF Grants, NoGrants
  <2>3. QED
    BY <2>2, ShopAssumption DEF Grant, ShopTypeOK
<1>5. QED
  BY <1>2, <1>3, <1>4, EnqueuingFinite

(* No job is sent without an attempt counted in the row, unless the row was 
   overwritten with an older copy. *)
LEMMA SentStep == ShopInv /\ [Next]_vars => SentCounted'
<1> SUFFICES ASSUME ShopInv, [Next]_vars PROVE SentCounted'
  OBVIOUS
<1> USE ShopAssumption
<1> USE DEF stripeVars, ledgerVars, jobVars, SentCounted
<1>0. ShopTypeOK /\ NothingBefore /\ CopiesHeld /\ SentCounted
  BY DEF ShopInv
<1>2. ASSUME NEW auth \in {"steam", "name"}, Checkout(auth) PROVE SentCounted'
  BY <1>0, <1>2, CountKept DEF Checkout, ShopTypeOK
<1>3. ASSUME NEW c \in 1..Amount, Refund(c) PROVE SentCounted'
  BY <1>0, <1>3, CountKept DEF Refund, ShopTypeOK
<1>4. ASSUME NEW c \in 1..Amount, NEW h \in Handlers, RefundRead(h, c) PROVE SentCounted'
  BY <1>0, <1>4, CountKept DEF RefundRead, Begin, Idle, ShopTypeOK
<1>5. ASSUME OtherCredit PROVE SentCounted'
  BY <1>0, <1>5, CountKept DEF OtherCredit, ShopTypeOK
<1>6. ASSUME NEW h \in Handlers, CreditRead(h) PROVE SentCounted'
  BY <1>0, <1>6, CountKept DEF CreditRead, Begin, Idle, ShopTypeOK
<1>7. ASSUME NEW h \in Handlers, NEW g \in {Items, {}}, CreditWrite(h, g) PROVE SentCounted'
  <2>1. CASE donation.status # "none"
    BY <1>0, <1>7, <2>1, CountKept DEF CreditWrite, EndRequest, Idle, ShopTypeOK
  <2>2. CASE donation.status = "none"
    <3>1. \A i \in Items : Enqueuing(i)' = {}
      BY <1>0, <1>7, <2>2 DEF CreditWrite, Enqueuing, NothingBefore, Idle, ShopTypeOK
    <3>2. Cardinality({}) = 0
      BY FS_EmptySet
    <3>3. \A i \in Items : sent'[i] = 0
      BY <1>0, <1>7, <2>2 DEF CreditWrite, NothingBefore
    <3>4. line' = SnapshotLine(g)
      BY <1>7, <2>2 DEF CreditWrite
    <3>5. \A i \in DOMAIN line'.grants : i \in Items /\ line'.grants[i].attempts = 0
      BY <3>4, SnapshotOf
    <3>6. \A i \in DOMAIN line'.grants : Cardinality(Enqueuing(i)') = 0
      BY <3>1, <3>2, <3>5
    <3>7. \A i \in DOMAIN line'.grants :
             sent'[i] = 0 /\ Cardinality(Enqueuing(i)') = 0 /\ line'.grants[i].attempts = 0
      BY <3>3, <3>5, <3>6
    <3>8. QED
      BY <3>7
  <2>3. QED
    BY <2>1, <2>2
<1>8. ASSUME NEW h \in Handlers, RefundWrite(h) PROVE SentCounted'
  BY <1>0, <1>8, CountKept DEF RefundWrite, EndRequest, Idle, ShopTypeOK
<1>9. ASSUME NEW h \in Handlers, DeliverRead(h) PROVE SentCounted'
  <2>1. sent' = sent
    BY <1>9 DEF DeliverRead
  <2>2. QED
    BY <1>0, <1>9, <2>1, CountKept, DeliverReads DEF Idle
<1>10. ASSUME NEW h \in Handlers, DeliverInvalid(h) PROVE SentCounted'
  <2> DEFINE i == Min(hand[h].todo)
  <2>1. i \in Items /\ hand[h].copy \in [Items -> Grant]
    BY <1>0, <1>10, NextItem DEF DeliverInvalid
  <2>2. /\ line'.grants = [hand[h].copy EXCEPT ![i].status = "failed"]
        /\ lost \subseteq lost' /\ ("line" \notin lost' => line.grants = hand[h].copy)
        /\ sent' = sent
    BY <1>0, <1>10 DEF DeliverInvalid, Overwrites, ShopTypeOK
  <2>3. \A j \in Items : line'.grants[j].attempts = hand[h].copy[j].attempts
    BY <2>1, <2>2 DEF Grant
  <2>4. DOMAIN line'.grants = Items /\ DOMAIN hand[h].copy = Items
    BY <2>1, <2>2
  <2>5. \A x \in Handlers : hand'[x].pc = "enqueue" => hand[x].pc = "enqueue" /\ hand'[x].i = hand[x].i
    BY <1>0, <1>10 DEF DeliverInvalid, Continue, Idle, Doing, ShopTypeOK, Request
  <2>6. QED
    BY <1>0, <2>2, <2>3, <2>4, <2>5, CountKept
<1>11. ASSUME NEW h \in Handlers, MarkQueued(h) PROVE SentCounted'
  <2>0. PICK i \in Items : i = Min(hand[h].todo)
    BY <1>0, <1>11, NextItem DEF MarkQueued
  <2>1. /\ hand[h].copy \in [Items -> Grant] /\ i \in hand[h].todo /\ i \in Items
        /\ DOMAIN line.grants = Items /\ hand[h].copy[i].attempts \in 0..(MaxAttempts - 1)
    BY <1>0, <1>11, <2>0, NextItem DEF MarkQueued
  <2>2. /\ hand'[h].pc = "enqueue" /\ hand'[h].i = i /\ hand[h].pc = "deliver"
        /\ line'.grants = [hand[h].copy EXCEPT ![i] = QueuedGrant(@)]
        /\ \A x \in Handlers \ {h} : hand'[x] = hand[x]
        /\ lost \subseteq lost' /\ ("line" \notin lost' => line.grants = hand[h].copy)
        /\ sent' = sent
    BY <1>0, <1>11, <2>0 DEF MarkQueued, Overwrites, ShopTypeOK, Request, Doing
  <2>3. \A j \in Items : Enqueuing(j)' = IF j = i THEN Enqueuing(j) \cup {h} ELSE Enqueuing(j)
    BY <2>2 DEF Enqueuing
  <2>4. h \notin Enqueuing(i)
    BY <2>2 DEF Enqueuing
  <2>5. Cardinality(Enqueuing(i)') = Cardinality(Enqueuing(i)) + 1
    <3>1. Enqueuing(i)' = Enqueuing(i) \cup {h}
      BY <2>1, <2>3
    <3>2. IsFiniteSet(Enqueuing(i))
      BY EnqueuingFinite
    <3>3. Cardinality(Enqueuing(i) \cup {h}) = Cardinality(Enqueuing(i)) + 1
      BY <2>4, <3>2, FS_AddElement
    <3>4. QED
      BY <3>1, <3>3
  <2> SUFFICES ASSUME "line" \notin lost', NEW j \in DOMAIN line'.grants
               PROVE  sent'[j] + Cardinality(Enqueuing(j)') <= line'.grants[j].attempts
    OBVIOUS
  <2>6. j \in Items /\ line.grants = hand[h].copy /\ "line" \notin lost
    BY <2>1, <2>2
  <2>7. sent[j] + Cardinality(Enqueuing(j)) <= line.grants[j].attempts
    BY <1>0, <2>1, <2>6
  <2>8. line'.grants[j].attempts = IF j = i THEN line.grants[j].attempts + 1 ELSE line.grants[j].attempts
    BY <2>1, <2>2, <2>6 DEF QueuedGrant
  <2>9. sent[j] \in Nat /\ line.grants[j].attempts \in Nat
    <3>1. line.grants[j] \in Grant
      BY <2>1, <2>6
    <3>2. line.grants[j].attempts \in Nat
      BY <3>1, ShopAssumption DEF Grant
    <3>3. QED
      BY <1>0, <2>6, <3>2 DEF ShopTypeOK
  <2>10. CASE j = i
    <3>1. Cardinality(Enqueuing(i)) \in Nat
      BY EnqueuingFinite
    <3>2. QED
      BY <2>2, <2>5, <2>7, <2>8, <2>9, <2>10, <3>1
  <2>11. CASE j # i
    BY <2>2, <2>3, <2>6, <2>7, <2>8, <2>11
  <2>12. QED
    BY <2>10, <2>11
<1>12. ASSUME NEW h \in Handlers, EnqueueGrant(h) PROVE SentCounted'
  <2>0. PICK i : i = hand[h].i
    OBVIOUS
  <2>1. i \in DOMAIN line.grants /\ hand[h].pc = "enqueue"
    BY <1>0, <1>12, <2>0 DEF EnqueueGrant, Doing, CopiesHeld, Delivering
  <2>2. DOMAIN line.grants \subseteq Items /\ \A j \in DOMAIN line.grants : line.grants[j].attempts \in Nat
    <3>1. line.grants \in Grants
      BY <1>0 DEF ShopTypeOK
    <3>2. \A j \in DOMAIN line.grants : j \in Items /\ line.grants[j] \in Grant
      BY <3>1 DEF Grants, NoGrants
    <3>3. QED
      BY <3>2 DEF Grant
  <2>3. /\ hand'[h].pc # "enqueue"
        /\ \A x \in Handlers \ {h} : hand'[x] = hand[x]
        /\ line' = line /\ lost' = lost
        /\ sent' = [sent EXCEPT ![i] = Min({@ + 1, MaxAttempts + 1})]
    BY <1>0, <1>12, <2>0 DEF EnqueueGrant, Continue, Idle, ShopTypeOK, Request
  <2>4. sent \in [Items -> Nat]
    BY <1>0 DEF ShopTypeOK
  <2>5. sent'[i] <= sent[i] + 1 /\ sent'[i] \in Nat
    <3>1. sent[i] \in Nat
      BY <2>1, <2>2, <2>4
    <3>2. Min({sent[i] + 1, MaxAttempts + 1}) = IF sent[i] + 1 <= MaxAttempts + 1 THEN sent[i] + 1 ELSE MaxAttempts + 1
      BY <3>1, MinMaxOfTwo
    <3>3. sent'[i] = Min({sent[i] + 1, MaxAttempts + 1})
      BY <2>1, <2>2, <2>3, <2>4
    <3>4. QED
      BY <3>1, <3>2, <3>3
  <2>6. \A j \in Items : Enqueuing(j)' = IF j = i THEN Enqueuing(j) \ {h} ELSE Enqueuing(j)
    BY <2>0, <2>3 DEF Enqueuing
  <2>7. h \in Enqueuing(i)
    BY <2>0, <2>1 DEF Enqueuing
  <2>8. Cardinality(Enqueuing(i)') = Cardinality(Enqueuing(i)) - 1
    <3>1. Enqueuing(i)' = Enqueuing(i) \ {h}
      BY <2>1, <2>2, <2>6
    <3>2. IsFiniteSet(Enqueuing(i))
      BY EnqueuingFinite
    <3>3. Cardinality(Enqueuing(i) \ {h}) = Cardinality(Enqueuing(i)) - 1
      BY <2>7, <3>2, FS_RemoveElement
    <3>4. QED
      BY <3>1, <3>3
  <2> SUFFICES ASSUME "line" \notin lost', NEW j \in DOMAIN line'.grants
               PROVE  sent'[j] + Cardinality(Enqueuing(j)') <= line'.grants[j].attempts
    OBVIOUS
  <2>9. j \in Items /\ sent[j] + Cardinality(Enqueuing(j)) <= line.grants[j].attempts
    BY <1>0, <2>2, <2>3
  <2>10. sent[j] \in Nat /\ line.grants[j].attempts \in Nat /\ line'.grants[j] = line.grants[j]
    BY <2>2, <2>3, <2>4, <2>9
  <2>11. CASE j = i
    <3>1. Cardinality(Enqueuing(i)) \in Nat
      BY EnqueuingFinite
    <3>2. QED
      BY <2>5, <2>8, <2>9, <2>10, <2>11, <3>1
  <2>12. CASE j # i
    BY <2>3, <2>4, <2>6, <2>9, <2>10, <2>12
  <2>13. QED
    BY <2>11, <2>12
<1>13. ASSUME NEW h \in Handlers, MarkFails(h) PROVE SentCounted'
  BY <1>0, <1>13, CountKept DEF MarkFails, Continue, Idle, Doing, ShopTypeOK
<1>14. ASSUME NEW h \in Handlers, EnqueueFails(h) PROVE SentCounted'
  BY <1>0, <1>14, CountKept DEF EnqueueFails, Continue, Idle, ShopTypeOK
<1>15. ASSUME NEW i \in Items, NEW gave \in BOOLEAN, LoseResult(i, gave) PROVE SentCounted'
  BY <1>0, <1>15, CountKept DEF LoseResult, ExecuteGrant, ShopTypeOK
<1>16. ASSUME NEW h \in Handlers, NEW i \in Items, NEW o \in Outcomes, NEW gave \in BOOLEAN, FinishRead(h, i, o, gave) PROVE SentCounted'
  BY <1>0, <1>16, CountKept DEF FinishRead, ExecuteGrant, Begin, Idle, Outcomes, ShopTypeOK
<1>17. ASSUME NEW h \in Handlers, FinishWrite(h) PROVE SentCounted'
  <2> DEFINE i == hand[h].i
  <2>1. hand[h].copy \in Grants /\ i \in DOMAIN hand[h].copy
    BY <1>0, <1>17 DEF FinishWrite, CopiesHeld, ShopTypeOK, Request
  <2>2. hand[h].copy \in [Items -> Grant] /\ i \in Items
    BY <2>1 DEF Grants, NoGrants
  <2>3. /\ line'.grants = [hand[h].copy EXCEPT ![i].status = GrantResult(hand[h].pc)]
        /\ lost \subseteq lost' /\ ("line" \notin lost' => line.grants = hand[h].copy)
        /\ sent' = sent
    BY <1>0, <1>17 DEF FinishWrite, Overwrites, ShopTypeOK
  <2>4. \A j \in Items : line'.grants[j].attempts = hand[h].copy[j].attempts
    BY <2>2, <2>3 DEF Grant
  <2>5. DOMAIN line'.grants = Items /\ DOMAIN hand[h].copy = Items
    BY <2>2, <2>3
  <2>6. \A x \in Handlers : hand'[x].pc = "enqueue" => hand[x].pc = "enqueue" /\ hand'[x].i = hand[x].i
    BY <1>0, <1>17 DEF FinishWrite, EndRequest, Idle, ShopTypeOK
  <2>7. QED
    BY <1>0, <2>3, <2>4, <2>5, <2>6, CountKept
<1>18. ASSUME PlayerMoves PROVE SentCounted'
  BY <1>0, <1>18, CountKept DEF PlayerMoves, ShopTypeOK
<1>19. ASSUME FiveMinutesPass PROVE SentCounted'
  BY <1>0, <1>19, CountKept DEF FiveMinutesPass, ShopTypeOK
<1>20. ASSUME Restart PROVE SentCounted'
  BY <1>0, <1>20, CountKept DEF Restart, Idle, ShopTypeOK
<1>21. CASE UNCHANGED vars
  BY <1>0, <1>21, CountKept DEF vars, Enqueuing
<1> HIDE DEF SentCounted
<1>22. QED
  BY <1>2, <1>3, <1>4, <1>5, <1>6, <1>7, <1>8, <1>9, <1>10, <1>11, <1>12, <1>13, <1>14,
     <1>15, <1>16, <1>17, <1>18, <1>19, <1>20, <1>21 DEF Next, RequestStep, Execute


-----------------------------------------------------------------------------
(* The theorems                                                            *)

(* The invariant holds of a player who has not donated.                     *)
LEMMA ShopInit == Init => ShopInv
<1> SUFFICES ASSUME Init PROVE ShopInv
  OBVIOUS
<1> USE ShopAssumption DEF Init
<1>1. Idle \in Request /\ NoGrants \in Grants /\ DOMAIN NoGrants = {}
  BY DEF Idle, Request, Grants, NoGrants
<1>2. ShopTypeOK
  <2>1. donation \in [status : {"none", "completed", "refunded"}, refunded : 0..Amount]
    BY 0 \in 0..Amount
  <2>2. hand \in [Handlers -> Request] /\ jobs \in [Items -> Nat] /\ sent \in [Items -> Nat]
    BY <1>1
  <2>3. line \in [grants : Grants, status : GrantStatus \cup {"none", "partial"}, fresh : BOOLEAN]
    BY <1>1
  <2>4. QED
    BY <2>1, <2>2, <2>3 DEF ShopTypeOK
<1>3. NothingBefore /\ RefundsHeld /\ CopiesHeld /\ JobsOfLine
  BY <1>1 DEF NothingBefore, RefundsHeld, CopiesHeld, JobsOfLine, Idle, Delivering, Outcomes
<1>4. LedgerAddsUp /\ SettledLine
  BY <1>1 DEF LedgerAddsUp, SettledLine
<1>5. SentCounted /\ DeliveredGiven
  BY <1>1 DEF SentCounted, DeliveredGiven, Idle
<1>6. QED
  BY <1>2, <1>3, <1>4, <1>5 DEF ShopInv

(* The invariant is inductive, and so holds in every reachable state.       *)
LEMMA ShopInvariant == Spec => []ShopInv
<1>1. ShopInv /\ [Next]_vars => ShopInv'
  BY ShopTypeStep, NothingBeforeStep, RefundsHeldStep, CopiesHeldStep, JobsOfLineStep, LedgerStep,
     SentStep, DeliveredStep, SettledStep DEF ShopInv
<1>2. QED
  BY <1>1, ShopInit, PTL DEF Spec

(* Whatever Stripe delivers, and in whichever order, the player's total is  *)
(* what the donations keep, unless two requests overlapped on the row.      *)
THEOREM LedgerHolds == Spec => []LedgerAddsUp
BY ShopInvariant, PTL DEF ShopInv

(* An item is sent no more often than its attempts, and those are at most   *)
(* MAX_GRANT_ATTEMPTS, unless an older copy was written over the line.       *)
THEOREM GrantsAreCapped == Spec => []GrantsCapped
<1>1. ShopInv => GrantsCapped
  <2> SUFFICES ASSUME ShopInv, "line" \notin lost, NEW i \in DOMAIN line.grants
               PROVE  sent[i] <= line.grants[i].attempts /\ line.grants[i].attempts <= MaxAttempts
    BY DEF GrantsCapped
  <2>1. line.grants \in Grants /\ sent \in [Items -> Nat]
    BY DEF ShopInv, ShopTypeOK
  <2>2. i \in Items /\ line.grants[i] \in Grant
    BY <2>1 DEF Grants, NoGrants
  <2>3. sent[i] \in Nat /\ line.grants[i].attempts \in Nat /\ line.grants[i].attempts <= MaxAttempts
    BY <2>1, <2>2, ShopAssumption DEF Grant
  <2>4. sent[i] + Cardinality(Enqueuing(i)) <= line.grants[i].attempts
    BY DEF ShopInv, SentCounted
  <2>5. Cardinality(Enqueuing(i)) \in Nat
    BY EnqueuingFinite
  <2>6. QED
    BY <2>3, <2>4, <2>5
<1>2. QED
  BY <1>1, ShopInvariant, PTL

(* A line leaves the delivery with every item settled, and an item counts   *)
(* as delivered only when the agent has given it, stale copies included.     *)
THEOREM SettledMeansGiven == Spec => []SettledWasGiven
<1>1. ShopInv => SettledWasGiven
  BY DEF ShopInv, SettledLine, DeliveredGiven, SettledWasGiven
<1>2. QED
  BY <1>1, ShopInvariant, PTL


-----------------------------------------------------------------------------
(* Rewards for playing and donating                                        *)

MoverRow == [pc : {"idle", "leave", "credit", "read", "fire"}, kind : EventTypes \cup {Unset},
             prev : Nat, next : Nat, todo : SUBSET TriggerIds]

RewardTypeOK ==
    /\ trigger \in [TriggerIds -> TriggerRow \cup {Unset, Gone}]
    /\ fired \subseteq TriggerIds /\ watching \subseteq TriggerIds
    /\ amount \in [EventTypes -> Nat] /\ amount["first_join"] \in {0, 1}
    /\ playClock \in Nat /\ joinedAt \in Nat \cup {Unset}
    /\ joinedAt # Unset => joinedAt <= playClock
    /\ mover \in [Movers -> MoverRow]
    /\ slipped \in BOOLEAN

\* Who is in the middle of a request, and with what.
MoversConsistent ==
    \A m \in Movers :
        /\ mover[m].pc \in {"leave", "credit", "read"} => mover[m].kind \in EventTypes
        /\ mover[m].todo # {} => mover[m].pc = "fire"
        /\ \A t \in mover[m].todo : trigger[t] # Unset
        /\ mover[m].pc = "leave" => mover[m].kind = "playtime" /\ joinedAt # Unset
        /\ mover[m].pc = "credit" => mover[m].kind = "donation"

\* A request that has read an amount to change it still knows the amount, and is the only one.
AmountsCurrent ==
    \A m \in Movers : mover[m].pc \in {"leave", "credit"} =>
        /\ mover[m].prev = amount[mover[m].kind]
        /\ mover[m].prev <= mover[m].next
        /\ mover[m].pc = "leave" => mover[m].next <= mover[m].prev + (playClock - joinedAt)
        /\ \A o \in Movers : mover[o].pc \in {"leave", "credit"} /\ mover[o].kind = mover[m].kind => o = m

\* What the player's row keeps of an amount, the session and a leaving player included.
SessionOf(kind) == IF kind = "playtime" /\ joinedAt # Unset THEN playClock - joinedAt ELSE 0
Sure(kind, v) ==
    /\ v <= amount[kind] + SessionOf(kind)
    /\ \A m \in Movers : mover[m].pc = "leave" /\ mover[m].kind = kind => v <= mover[m].next

\* What was read, decided or fired: that the player has reached v of an amount.
Said(kind, v) ==
    \/ \E m \in Movers : mover[m].pc = "read" /\ mover[m].kind = kind /\ mover[m].next = v
    \/ \E t \in Known : /\ trigger[t].kind = kind /\ trigger[t].target = v
                        /\ t \in fired \/ \E m \in Movers : t \in mover[m].todo
NothingTooEarly == \A kind \in EventTypes, v \in Nat : Said(kind, v) => Sure(kind, v)

\* A request that will still fire the trigger.
Pending(m, t) ==
    \/ t \in mover[m].todo
    \/ /\ mover[m].pc = "read" /\ mover[m].kind = trigger[t].kind
       /\ Crossed(mover[m].prev, mover[m].next, trigger[t].target)

NothingForgotten ==
    /\ \A t \in TriggerIds : trigger[t] = Unset => t \notin fired \cup watching
    /\ \A t \in watching \cap Known : trigger[t].enabled
    /\ \A t \in watching \cap Known : amount[trigger[t].kind] >= trigger[t].target =>
           t \in fired \/ \E m \in Movers : Pending(m, t)

RewardFacts == MoversConsistent /\ AmountsCurrent /\ NothingTooEarly /\ NothingForgotten
RewardInv == RewardTypeOK /\ (slipped \/ RewardFacts)


(* The mover's rows that the requests write.                                *)
LEMMA MoverRows ==
    ASSUME NEW kind \in EventTypes, NEW prev \in Nat, NEW next \in Nat,
           NEW todo \in SUBSET TriggerIds, NEW pc \in {"leave", "credit", "read", "fire"}
    PROVE  LET r == [NoMover EXCEPT !.pc = pc, !.kind = kind, !.prev = prev, !.next = next]
               f == [NoMover EXCEPT !.pc = "fire", !.kind = kind, !.todo = todo]
           IN  /\ r \in MoverRow /\ r.pc = pc /\ r.kind = kind /\ r.prev = prev /\ r.next = next
               /\ r.todo = {}
               /\ f \in MoverRow /\ f.pc = "fire" /\ f.kind = kind /\ f.todo = todo
               /\ NoMover \in MoverRow /\ NoMover.pc = "idle" /\ NoMover.todo = {}
  BY DEF NoMover, MoverRow

(* What follows when nothing the player has reached is lost and a request   *)
(* m goes to another step: the facts about the other requests stay.         *)
LEMMA RewardsFollow ==
    ASSUME RewardTypeOK, RewardFacts, NEW m \in Movers, NEW r \in MoverRow,
           mover' = [mover EXCEPT ![m] = r],
           UNCHANGED <<trigger, fired, amount, joinedAt, playClock, watching>>,
           r.pc = "idle" => r.todo = {},
           r.pc \in {"leave", "credit", "read"} => r.kind \in EventTypes /\ r.todo = {},
           r.pc \in {"leave", "credit"} =>
               /\ r.kind = IF r.pc = "leave" THEN "playtime" ELSE "donation"
               /\ r.pc = "leave" => joinedAt # Unset
               /\ r.prev = amount[r.kind] /\ r.prev <= r.next
               /\ r.pc = "leave" => r.next = r.prev + (playClock - joinedAt)
               /\ \A o \in Movers : mover[o].pc \in {"leave", "credit"} => mover[o].kind # r.kind,
           r.pc = "read" => r.next <= amount[r.kind] + SessionOf(r.kind)
                            /\ \A o \in Movers : mover[o].pc = "leave" /\ mover[o].kind = r.kind => r.next <= mover[o].next,
           \A t \in r.todo : trigger[t] # Unset /\ (t \in Known => Sure(trigger[t].kind, trigger[t].target)),
           \A t \in watching \cap Known : Pending(m, t) => t \in fired \/ Pending(m, t)'
    PROVE  RewardFacts'
<1>0. MoversConsistent /\ AmountsCurrent /\ NothingTooEarly /\ NothingForgotten
  BY DEF RewardFacts
<1>1. \A o \in Movers : mover'[o] = IF o = m THEN r ELSE mover[o]
  BY DEF RewardTypeOK
<1>2. mover \in [Movers -> MoverRow] /\ Known' = Known /\ \A k : SessionOf(k)' = SessionOf(k)
  BY DEF RewardTypeOK, Known, SessionOf
<1>3. \A t \in Known : trigger[t] \in TriggerRow
  BY DEF Known, RewardTypeOK
<1>4. \A t \in Known : trigger[t].kind \in EventTypes /\ trigger[t].target \in Nat
  BY <1>3, MilestonesAssumption DEF TriggerRow
<1>5. MoversConsistent'
  BY <1>0, <1>1, <1>2 DEF MoversConsistent, MoverRow
<1>6. AmountsCurrent'
  <2> SUFFICES ASSUME NEW o \in Movers, mover'[o].pc \in {"leave", "credit"}
               PROVE  /\ mover'[o].prev = amount[mover'[o].kind]
                      /\ mover'[o].prev <= mover'[o].next
                      /\ mover'[o].pc = "leave" => mover'[o].next <= mover'[o].prev + (playClock - joinedAt)
                      /\ \A q \in Movers : mover'[q].pc \in {"leave", "credit"}
                             /\ mover'[q].kind = mover'[o].kind => q = o
    BY DEF AmountsCurrent
  <2>1. CASE o = m
    BY <1>1, <2>1 DEF RewardTypeOK, MoverRow
  <2>2. CASE o # m
    BY <1>0, <1>1, <2>2 DEF AmountsCurrent
  <2>3. QED
    BY <2>1, <2>2
<1>7. NothingTooEarly'
  <2> SUFFICES ASSUME NEW k \in EventTypes, NEW v \in Nat, Said(k, v)' PROVE Sure(k, v)'
    BY DEF NothingTooEarly
  <2>1. v <= amount[k] + SessionOf(k) /\ \A o \in Movers : mover[o].pc = "leave" /\ mover[o].kind = k => v <= mover[o].next
    <3>1. CASE Said(k, v)
      BY <1>0, <3>1 DEF NothingTooEarly, Sure
    <3>2. CASE r.pc = "read" /\ r.kind = k /\ r.next = v
      BY <3>2
    <3>3. CASE \E t \in Known : trigger[t].kind = k /\ trigger[t].target = v /\ t \in r.todo
      BY <3>3 DEF Sure
    <3>4. QED
      BY <1>1, <1>2, <3>1, <3>2, <3>3 DEF Said
  <2>2. r.pc = "leave" /\ r.kind = k => v <= r.next
    BY <2>1 DEF SessionOf
  <2>3. QED
    BY <1>1, <1>2, <2>1, <2>2 DEF Sure
<1>9. NothingForgotten'
  <2>1. \A t \in Known, o \in Movers \ {m} : Pending(o, t) => Pending(o, t)'
    BY <1>1 DEF Pending
  <2>2. QED
    BY <1>0, <1>2, <2>1 DEF NothingForgotten
<1>10. QED
  BY <1>5, <1>6, <1>7, <1>9 DEF RewardFacts


(* The operator creates, switches and removes triggers.                     *)
LEMMA TriggerStep ==
    ASSUME RewardTypeOK, RewardFacts, NEW m \in Movers, NEW t \in TriggerIds, TriggerRequest(m, t)
    PROVE  RewardTypeOK' /\ RewardFacts'
<1>0. MoversConsistent /\ AmountsCurrent /\ NothingTooEarly /\ NothingForgotten
  BY DEF RewardFacts
<1>1. ASSUME NEW kind \in EventTypes, NEW target \in Targets, NEW on \in BOOLEAN, NEW existing \in BOOLEAN,
             NEW within \in BOOLEAN, CreateTrigger(m, t, kind, target, on, existing, within)
      PROVE  RewardTypeOK' /\ RewardFacts'
  <2> DEFINE row == [kind |-> kind, target |-> target, enabled |-> on, applyToExisting |-> existing]
             todo == IF amount[kind] >= target /\ within THEN {t} ELSE {}
             f == [NoMover EXCEPT !.pc = "fire", !.kind = kind, !.todo = todo]
  <2>1. /\ Resting(m) /\ trigger[t] = Unset
        /\ trigger' = [trigger EXCEPT ![t] = row]
        /\ mover' = IF on /\ existing THEN [mover EXCEPT ![m] = f] ELSE mover
        /\ watching' = IF on /\ ((existing /\ within) \/ amount[kind] < target) THEN watching \cup {t} ELSE watching
        /\ UNCHANGED <<fired, amount, joinedAt, playClock, slipped>>
    BY <1>1 DEF CreateTrigger, Backfilled
  <2>2. /\ row \in TriggerRow /\ row.kind = kind /\ row.target = target /\ row.enabled = on
        /\ row.applyToExisting = existing /\ target \in Nat /\ row \notin {Unset, Gone}
    BY MilestonesAssumption DEF TriggerRow
  <2>3. f \in MoverRow /\ f.pc = "fire" /\ f.todo = todo /\ todo \subseteq {t}
    <3>1. todo \in SUBSET TriggerIds /\ todo \subseteq {t}
      OBVIOUS
    <3> HIDE DEF todo
    <3>2. f \in MoverRow /\ f.pc = "fire" /\ f.todo = todo
      BY <3>1 DEF NoMover, MoverRow
    <3>3. QED
      BY <3>1, <3>2
  <2>4. todo # {} => amount[kind] >= target
    OBVIOUS
  <2>5. amount[kind] >= target /\ within => todo = {t}
    OBVIOUS
  <2> HIDE DEF row, todo, f
  <2>6. \A x \in TriggerIds : trigger'[x] = IF x = t THEN row ELSE trigger[x]
    BY <2>1 DEF RewardTypeOK
  <2>7. Known' = Known \cup {t} /\ t \notin Known
    BY <2>1, <2>2, <2>6 DEF Known
  <2>8. /\ \A o \in Movers \ {m} : mover'[o] = mover[o]
        /\ mover'[m] = IF on /\ existing THEN f ELSE mover[m]
        /\ mover[m].pc = "idle" /\ mover[m].todo = {}
    BY <1>0, <2>1 DEF RewardTypeOK, Resting, MoversConsistent
  <2>9. RewardTypeOK'
    <3>1. trigger' \in [TriggerIds -> TriggerRow \cup {Unset, Gone}]
      BY <2>1, <2>2 DEF RewardTypeOK
    <3>2. mover' \in [Movers -> MoverRow]
      BY <2>1, <2>3 DEF RewardTypeOK
    <3>3. watching' \subseteq TriggerIds
      BY <2>1 DEF RewardTypeOK
    <3>4. QED
      BY <2>1, <3>1, <3>2, <3>3 DEF RewardTypeOK
  <2>10. \A o \in Movers : t \notin mover[o].todo
    BY <1>0, <2>1 DEF MoversConsistent
  <2>11. MoversConsistent'
    BY <1>0, <2>1, <2>2, <2>3, <2>6, <2>8 DEF MoversConsistent
  <2>12. AmountsCurrent'
    BY <1>0, <2>1, <2>3, <2>8 DEF AmountsCurrent
  <2>13. NothingTooEarly'
    <3> SUFFICES ASSUME NEW k \in EventTypes, NEW v \in Nat, Said(k, v)' PROVE Sure(k, v)'
      BY DEF NothingTooEarly
    <3>1. CASE Said(k, v)
      <4>1. Sure(k, v)
        BY <1>0, <3>1 DEF NothingTooEarly
      <4>2. QED
        BY <2>1, <2>3, <2>8, <4>1 DEF Sure, SessionOf
    <3>2. CASE kind = k /\ target = v /\ t \in todo
      <4>1. v <= amount[k]
        BY <2>4, <3>2
      <4>2. SessionOf(k) \in Nat /\ amount[k] \in Nat
        BY DEF SessionOf, RewardTypeOK
      <4>3. \A o \in Movers : mover[o].pc = "leave" /\ mover[o].kind = k => v <= mover[o].next
        BY <1>0, <4>1, <4>2 DEF AmountsCurrent, RewardTypeOK, MoverRow
      <4>4. QED
        BY <2>1, <2>3, <2>8, <4>1, <4>2, <4>3 DEF Sure, SessionOf
    <3>3. t \notin fired
      BY <1>0, <2>1 DEF NothingForgotten
    <3>4. QED
      BY <2>1, <2>2, <2>3, <2>6, <2>7, <2>8, <2>10, <3>1, <3>2, <3>3 DEF Said
  <2>14. NothingForgotten'
    <3>1. \A x \in Known, o \in Movers : Pending(o, x) => Pending(o, x)'
      <4>1. \A x \in Known : x # t /\ trigger'[x] = trigger[x]
        BY <2>6, <2>7 DEF Known
      <4>2. \A x \in Known, o \in Movers \ {m} : Pending(o, x) => Pending(o, x)'
        BY <2>8, <4>1 DEF Pending
      <4>3. \A x \in Known : ~Pending(m, x)
        BY <2>8 DEF Pending
      <4>4. QED
        BY <4>2, <4>3
    <3>2. \A x \in TriggerIds : trigger'[x] = Unset => x # t /\ trigger[x] = Unset
      BY <2>2, <2>6
    <3>3. t \in watching' /\ amount[kind] >= target => t \in todo /\ on /\ existing
      BY <1>0, <2>1, <2>2, <2>5 DEF NothingForgotten, RewardTypeOK
    <3>4. t \in watching' => on
      BY <1>0, <2>1 DEF NothingForgotten
    <3>5. t \in watching' /\ amount[kind] >= target => Pending(m, t)'
      BY <2>3, <2>8, <3>3 DEF Pending
    <3>6. \A x \in watching' : x = t \/ x \in watching
      BY <2>1
    <3>8. \A x \in Known : x \in watching => x \in watching'
      BY <2>1
    <3>9. QED
      BY <1>0, <2>1, <2>2, <2>6, <2>7, <3>1, <3>2, <3>4, <3>5, <3>6, <3>8 DEF NothingForgotten
  <2>15. QED
    BY <2>9, <2>11, <2>12, <2>13, <2>14 DEF RewardFacts
<1>2. ASSUME NEW enabled \in BOOLEAN, NEW within \in BOOLEAN, UpdateTrigger(m, t, enabled, within)
      PROVE  RewardTypeOK' /\ RewardFacts'
  <2> DEFINE old == trigger[t]
             row == [old EXCEPT !.enabled = enabled]
             todo == IF amount[old.kind] >= old.target /\ within THEN {t} ELSE {}
             f == [NoMover EXCEPT !.pc = "fire", !.kind = old.kind, !.todo = todo]
             again == ~old.enabled /\ enabled /\ old.applyToExisting
  <2>1. /\ Resting(m) /\ t \in Known
        /\ trigger' = [trigger EXCEPT ![t] = row]
        /\ mover' = IF again THEN [mover EXCEPT ![m] = f] ELSE mover
        /\ watching' = IF ~enabled THEN watching \ {t}
                       ELSE IF ~old.enabled /\ ((old.applyToExisting /\ within) \/ amount[old.kind] < old.target)
                       THEN watching \cup {t} ELSE watching
        /\ UNCHANGED <<fired, amount, joinedAt, playClock, slipped>>
    BY <1>2 DEF UpdateTrigger, Backfilled, Watch
  <2>2. old \in TriggerRow
    BY <2>1 DEF Known, RewardTypeOK
  <2> HIDE DEF old
  <2>3. /\ row \in TriggerRow /\ row.kind = old.kind /\ row.target = old.target /\ row.enabled = enabled
        /\ row.applyToExisting = old.applyToExisting /\ old.target \in Nat /\ old.kind \in EventTypes
        /\ row \notin {Unset, Gone} /\ old.enabled \in BOOLEAN /\ old.applyToExisting \in BOOLEAN
    BY <2>2, MilestonesAssumption DEF TriggerRow
  <2>4. f \in MoverRow /\ f.pc = "fire" /\ f.todo = todo /\ todo \subseteq {t}
    <3>1. todo \in SUBSET TriggerIds /\ todo \subseteq {t}
      OBVIOUS
    <3> HIDE DEF todo
    <3>2. f \in MoverRow /\ f.pc = "fire" /\ f.todo = todo
      BY <2>3, <3>1 DEF NoMover, MoverRow
    <3>3. QED
      BY <3>1, <3>2
  <2>5. (todo # {} => amount[old.kind] >= old.target) /\ (amount[old.kind] >= old.target /\ within => todo = {t})
    OBVIOUS
  <2> HIDE DEF row, todo, f
  <2>6. /\ \A x \in TriggerIds \ {t} : trigger'[x] = trigger[x]
        /\ trigger'[t] = row /\ trigger[t] = old
    BY <2>1 DEF RewardTypeOK, old
  <2>7. Known' = Known
    BY <2>1, <2>3, <2>6 DEF Known
  <2>8. /\ \A o \in Movers \ {m} : mover'[o] = mover[o]
        /\ mover'[m] = IF again THEN f ELSE mover[m]
        /\ mover[m].pc = "idle" /\ mover[m].todo = {}
    BY <1>0, <2>1 DEF RewardTypeOK, Resting, MoversConsistent
  <2>9. RewardTypeOK'
    <3>1. trigger' \in [TriggerIds -> TriggerRow \cup {Unset, Gone}]
      BY <2>1, <2>3 DEF RewardTypeOK
    <3>2. mover' \in [Movers -> MoverRow]
      BY <2>1, <2>4 DEF RewardTypeOK
    <3>3. watching' \subseteq TriggerIds
      BY <2>1 DEF RewardTypeOK
    <3>4. QED
      BY <2>1, <3>1, <3>2, <3>3 DEF RewardTypeOK
  <2>10. MoversConsistent'
    BY <1>0, <2>1, <2>3, <2>4, <2>6, <2>8 DEF MoversConsistent
  <2>11. AmountsCurrent'
    BY <1>0, <2>1, <2>4, <2>8 DEF AmountsCurrent
  <2>12. NothingTooEarly'
    <3> SUFFICES ASSUME NEW k \in EventTypes, NEW v \in Nat, Said(k, v)' PROVE Sure(k, v)'
      BY DEF NothingTooEarly
    <3>1. CASE Said(k, v)
      <4>1. Sure(k, v)
        BY <1>0, <3>1 DEF NothingTooEarly
      <4>2. QED
        BY <2>1, <2>4, <2>8, <4>1 DEF Sure, SessionOf
    <3>2. CASE old.kind = k /\ old.target = v /\ t \in todo
      <4>1. v <= amount[k]
        BY <2>5, <3>2
      <4>2. SessionOf(k) \in Nat /\ amount[k] \in Nat
        BY DEF SessionOf, RewardTypeOK
      <4>3. \A o \in Movers : mover[o].pc = "leave" /\ mover[o].kind = k => v <= mover[o].next
        BY <1>0, <4>1, <4>2 DEF AmountsCurrent, RewardTypeOK, MoverRow
      <4>4. QED
        BY <2>1, <2>4, <2>8, <4>1, <4>2, <4>3 DEF Sure, SessionOf
    <3>3. \A x \in Known : trigger'[x].kind = trigger[x].kind /\ trigger'[x].target = trigger[x].target
      BY <2>3, <2>6 DEF Known
    <3>4. Said(k, v) \/ (old.kind = k /\ old.target = v /\ t \in todo)
      BY <2>1, <2>3, <2>4, <2>6, <2>7, <2>8, <3>3 DEF Said
    <3>5. QED
      BY <3>1, <3>2, <3>4
  <2>13. NothingForgotten'
    <3>1. \A x \in Known, o \in Movers : Pending(o, x) => Pending(o, x)'
      BY <2>3, <2>6, <2>7, <2>8 DEF Pending, Known
    <3>2. \A x \in TriggerIds : trigger'[x] = Unset => x # t /\ trigger[x] = Unset
      BY <2>3, <2>6
    <3>3. t \in watching' => enabled
      BY <2>1
    <3>4. t \in watching' /\ amount[old.kind] >= old.target => t \in watching \/ (t \in todo /\ again)
      <4>1. t \in watching' /\ t \notin watching =>
                enabled /\ ~old.enabled /\ ((old.applyToExisting /\ within) \/ ~(amount[old.kind] >= old.target))
        BY <2>1, <2>3 DEF RewardTypeOK
      <4>2. ASSUME t \in watching', amount[old.kind] >= old.target, t \notin watching
            PROVE  t \in todo /\ again
        BY <2>3, <2>5, <4>1, <4>2
      <4>3. QED
        BY <4>2
    <3>5. t \in todo /\ again => Pending(m, t)'
      BY <2>4, <2>8 DEF Pending
    <3>6. \A x \in Known \ {t} : x \in watching <=> x \in watching'
      BY <2>1
    <3>8. \A x \in TriggerIds : trigger'[x] = Unset => x \notin fired \cup watching'
      BY <1>0, <2>1, <3>2 DEF NothingForgotten
    <3>9. \A x \in watching' \cap Known : trigger'[x].enabled
      BY <1>0, <2>3, <2>6, <3>3, <3>6 DEF NothingForgotten, Known
    <3>11. \A x \in watching' \cap Known : amount[trigger'[x].kind] >= trigger'[x].target =>
               x \in fired \/ \E o \in Movers : Pending(o, x)'
      <4> SUFFICES ASSUME NEW x \in watching' \cap Known, amount[trigger'[x].kind] >= trigger'[x].target
                   PROVE  x \in fired \/ \E o \in Movers : Pending(o, x)'
        OBVIOUS
      <4>1. x \in TriggerIds /\ trigger'[x].kind = trigger[x].kind /\ trigger'[x].target = trigger[x].target
        BY <2>3, <2>6 DEF Known
      <4>2. x \in watching => x \in fired \/ \E o \in Movers : Pending(o, x)
        BY <1>0, <4>1 DEF NothingForgotten
      <4>3. x \notin watching => x = t /\ t \in todo /\ again
        BY <2>6, <3>4, <3>6, <4>1
      <4>4. QED
        BY <3>1, <3>5, <4>2, <4>3
    <3>12. QED
      BY <2>1, <2>7, <3>8, <3>9, <3>11 DEF NothingForgotten
  <2>14. QED
    BY <2>9, <2>10, <2>11, <2>12, <2>13 DEF RewardFacts
<1>3. CASE RemoveMilestone(t)
  <2>1. /\ trigger' = [trigger EXCEPT ![t] = Gone] /\ fired' = fired \ {t} /\ watching' = watching \ {t}
        /\ UNCHANGED <<amount, joinedAt, playClock, mover, slipped>>
    BY <1>3 DEF RemoveMilestone
  <2>2. \A x \in TriggerIds : trigger'[x] = IF x = t THEN Gone ELSE trigger[x]
    BY <2>1 DEF RewardTypeOK
  <2>3. Known' = Known \ {t} /\ \A x \in Known' : trigger'[x] = trigger[x]
    BY <2>2 DEF Known
  <2>4. RewardTypeOK'
    BY <2>1 DEF RewardTypeOK
  <2>5. MoversConsistent' /\ AmountsCurrent'
    BY <1>0, <2>1, <2>2, MilestonesAssumption DEF MoversConsistent, AmountsCurrent, RewardTypeOK, MoverRow
  <2>6. \A k, v : Said(k, v)' => Said(k, v)
    BY <2>1, <2>3 DEF Said
  <2>7. NothingTooEarly'
    BY <1>0, <2>1, <2>6 DEF NothingTooEarly, Sure, SessionOf
  <2>8. \A x \in Known', o \in Movers : Pending(o, x) => Pending(o, x)'
    BY <2>1, <2>3 DEF Pending
  <2>9. NothingForgotten'
    BY <1>0, <2>1, <2>2, <2>3, <2>8, MilestonesAssumption DEF NothingForgotten
  <2>10. QED
    BY <2>4, <2>5, <2>7, <2>9 DEF RewardFacts
<1>4. QED
  BY <1>1, <1>2, <1>3 DEF TriggerRequest



(* Time passes, the log names a player, and a player joins.                 *)
LEMMA PlayerStep ==
    ASSUME RewardTypeOK, RewardFacts
    PROVE  /\ PlayTick => RewardTypeOK' /\ RewardFacts'
           /\ UuidLine => RewardTypeOK' /\ RewardFacts'
           /\ \A m \in Movers : PlayerJoins(m) => RewardTypeOK' /\ RewardFacts'
<1>0. MoversConsistent /\ AmountsCurrent /\ NothingTooEarly /\ NothingForgotten
  BY DEF RewardFacts
<1>1. ASSUME PlayTick PROVE RewardTypeOK' /\ RewardFacts'
  <2>1. playClock' = playClock + 1
        /\ UNCHANGED <<trigger, fired, amount, joinedAt, mover, switches, watching, slipped>>
    BY <1>1 DEF PlayTick
  <2>2. RewardTypeOK'
    BY <2>1 DEF RewardTypeOK
  <2>3. MoversConsistent'
    BY <1>0, <2>1 DEF MoversConsistent
  <2>4. AmountsCurrent'
    <3>1. \A o \in Movers : mover[o].next \in Nat /\ mover[o].prev \in Nat
      BY DEF RewardTypeOK, MoverRow
    <3>2. \A o \in Movers : mover[o].pc = "leave" => joinedAt \in Nat
      BY <1>0 DEF MoversConsistent, RewardTypeOK
    <3>3. playClock \in Nat
      BY DEF RewardTypeOK
    <3>4. QED
      BY <1>0, <2>1, <3>1, <3>2, <3>3 DEF AmountsCurrent
  <2>5. NothingTooEarly'
    <3>1. \A k, v : Said(k, v)' <=> Said(k, v)
      BY <2>1 DEF Said, Known
    <3>2. ASSUME NEW k \in EventTypes, NEW v \in Nat, Sure(k, v) PROVE Sure(k, v)'
      <4>1. SessionOf(k)' >= SessionOf(k) /\ SessionOf(k) \in Nat /\ SessionOf(k)' \in Nat /\ amount[k] \in Nat
        BY <2>1 DEF SessionOf, RewardTypeOK
      <4>2. QED
        BY <2>1, <3>2, <4>1 DEF Sure
    <3>3. QED
      BY <1>0, <3>1, <3>2 DEF NothingTooEarly
  <2>6. NothingForgotten'
    BY <1>0, <2>1 DEF NothingForgotten, Known, Pending
  <2>7. QED
    BY <2>2, <2>3, <2>4, <2>5, <2>6 DEF RewardFacts
<1>2. ASSUME NEW m \in Movers, PlayerJoins(m) PROVE RewardTypeOK' /\ RewardFacts'
  <2> DEFINE row == [NoMover EXCEPT !.pc = "read", !.kind = "first_join", !.prev = 0, !.next = 1]
             new == amount["first_join"] = 0
  <2>1. /\ Resting(m) /\ joinedAt = Unset /\ joinedAt' = playClock
        /\ amount' = [amount EXCEPT !["first_join"] = 1]
        /\ mover' = IF new THEN [mover EXCEPT ![m] = row] ELSE mover
        /\ UNCHANGED <<trigger, fired, playClock, switches, watching, slipped>>
    BY <1>2 DEF PlayerJoins, MoverGoes
  <2>2. /\ row \in MoverRow /\ row.pc = "read" /\ row.kind = "first_join" /\ row.prev = 0 /\ row.next = 1
        /\ row.todo = {}
    BY DEF NoMover, MoverRow, EventTypes
  <2> HIDE DEF row
  <2>3. /\ \A o \in Movers \ {m} : mover'[o] = mover[o]
        /\ mover'[m] = IF new THEN row ELSE mover[m]
        /\ mover[m].pc = "idle" /\ mover[m].todo = {}
    BY <1>0, <2>1 DEF RewardTypeOK, Resting, MoversConsistent
  <2>4. /\ amount \in [EventTypes -> Nat] /\ amount["first_join"] \in {0, 1}
        /\ \A k \in EventTypes : amount'[k] = IF k = "first_join" THEN 1 ELSE amount[k]
    BY <2>1 DEF RewardTypeOK
  <2>5. RewardTypeOK'
    <3>1. mover' \in [Movers -> MoverRow]
      BY <2>1, <2>2 DEF RewardTypeOK
    <3>2. amount' \in [EventTypes -> Nat] /\ amount'["first_join"] \in {0, 1}
      BY <2>1, <2>4 DEF EventTypes
    <3>3. QED
      BY <2>1, <3>1, <3>2 DEF RewardTypeOK
  <2>6. \A o \in Movers : mover[o].pc # "leave" /\ mover'[o].pc # "leave"
    BY <1>0, <2>1, <2>2, <2>3 DEF MoversConsistent
  <2>7. MoversConsistent'
    <3>1. "first_join" \in EventTypes
      BY DEF EventTypes
    <3>2. QED
      BY <1>0, <2>1, <2>2, <2>3, <2>6, <3>1 DEF MoversConsistent
  <2>8. AmountsCurrent'
    <3>1. \A o \in Movers : mover'[o].pc \in {"leave", "credit"} =>
              mover'[o] = mover[o] /\ o # m /\ mover[o].kind = "donation"
      BY <1>0, <2>2, <2>3, <2>6 DEF MoversConsistent
    <3>2. amount'["donation"] = amount["donation"]
      BY <2>4 DEF EventTypes
    <3>3. QED
      BY <1>0, <2>6, <3>1, <3>2 DEF AmountsCurrent
  <2>9. NothingTooEarly'
    <3> SUFFICES ASSUME NEW k \in EventTypes, NEW v \in Nat, Said(k, v)' PROVE Sure(k, v)'
      BY DEF NothingTooEarly
    <3>1. amount'[k] >= amount[k] /\ SessionOf(k)' = 0 /\ SessionOf(k) = 0 /\ amount[k] \in Nat
      BY <2>1, <2>4, <2>5 DEF SessionOf, RewardTypeOK
    <3>2. Said(k, v) => v <= amount[k]
      BY <1>0, <3>1 DEF NothingTooEarly, Sure
    <3>3. CASE Said(k, v)
      BY <2>5, <2>6, <3>1, <3>2, <3>3 DEF Sure, RewardTypeOK
    <3>4. CASE k = "first_join" /\ v = 1
      BY <2>4, <2>6, <3>1, <3>4 DEF Sure
    <3>5. Known' = Known
      BY <2>1 DEF Known
    <3>6. Said(k, v) \/ (k = "first_join" /\ v = 1)
      BY <2>1, <2>2, <2>3, <3>5 DEF Said
    <3>7. QED
      BY <3>3, <3>4, <3>6
  <2>10. NothingForgotten'
    <3>1. \A t \in Known, o \in Movers : Pending(o, t) => Pending(o, t)'
      <4>1. \A t \in Known, o \in Movers \ {m} : Pending(o, t) => Pending(o, t)'
        BY <2>1, <2>3 DEF Pending
      <4>2. \A t \in Known : ~Pending(m, t)
        BY <2>3 DEF Pending
      <4>3. QED
        BY <4>1, <4>2
    <3>2. Known' = Known
      BY <2>1 DEF Known
    <3>3. \A t \in Known : trigger[t].kind \in EventTypes /\ trigger[t].target \in Nat \ {0}
      BY MilestonesAssumption DEF Known, RewardTypeOK, TriggerRow
    <3>4. ASSUME NEW t \in watching \cap Known, amount'[trigger[t].kind] >= trigger[t].target,
                 ~(amount[trigger[t].kind] >= trigger[t].target)
          PROVE  Pending(m, t)'
      <4>1. new /\ trigger[t].kind = "first_join" /\ trigger[t].target <= 1
        BY <2>4, <3>3, <3>4
      <4>2. QED
        BY <2>1, <2>2, <2>3, <3>3, <4>1 DEF Pending, Crossed
    <3>5. QED
      BY <1>0, <2>1, <3>1, <3>2, <3>4 DEF NothingForgotten
  <2>11. QED
    BY <2>5, <2>7, <2>8, <2>9, <2>10 DEF RewardFacts
<1>3. ASSUME UuidLine PROVE RewardTypeOK' /\ RewardFacts'
  <2>1. /\ amount["first_join"] = 0 /\ amount' = [amount EXCEPT !["first_join"] = 1]
        /\ watching' = watching \ {t \in watching \cap Known : trigger[t].kind = "first_join"}
        /\ UNCHANGED <<trigger, fired, joinedAt, playClock, mover, switches, slipped>>
    BY <1>3 DEF UuidLine
  <2>2. /\ amount \in [EventTypes -> Nat]
        /\ \A k \in EventTypes : amount'[k] = IF k = "first_join" THEN 1 ELSE amount[k]
    BY <2>1 DEF RewardTypeOK
  <2>3. RewardTypeOK'
    <3>1. amount' \in [EventTypes -> Nat] /\ amount'["first_join"] \in {0, 1}
      BY <2>1, <2>2 DEF EventTypes
    <3>2. QED
      BY <2>1, <3>1 DEF RewardTypeOK
  <2>4. MoversConsistent'
    BY <1>0, <2>1 DEF MoversConsistent
  <2>5. AmountsCurrent'
    <3>1. \A o \in Movers : mover[o].pc \in {"leave", "credit"} =>
              mover[o].kind \in EventTypes /\ mover[o].kind # "first_join"
      BY <1>0 DEF MoversConsistent
    <3>2. QED
      BY <1>0, <2>1, <2>2, <3>1 DEF AmountsCurrent
  <2>6. NothingTooEarly'
    <3> SUFFICES ASSUME NEW k \in EventTypes, NEW v \in Nat, Said(k, v)' PROVE Sure(k, v)'
      BY DEF NothingTooEarly
    <3>1. Said(k, v)
      BY <2>1 DEF Said, Known
    <3>2. amount'[k] >= amount[k] /\ amount[k] \in Nat /\ amount'[k] \in Nat
      BY <2>1, <2>2, <2>3 DEF RewardTypeOK
    <3>3. SessionOf(k)' = SessionOf(k) /\ SessionOf(k) \in Nat
      BY <2>1 DEF SessionOf, RewardTypeOK
    <3>4. QED
      BY <1>0, <2>1, <3>1, <3>2, <3>3 DEF NothingTooEarly, Sure
  <2>7. NothingForgotten'
    <3>1. Known' = Known
      BY <2>1 DEF Known
    <3>2. \A t \in Known, o \in Movers : Pending(o, t)' <=> Pending(o, t)
      BY <2>1 DEF Pending
    <3>3. \A t \in watching' \cap Known : t \in watching /\ trigger[t].kind \in EventTypes \ {"first_join"}
      BY <2>1 DEF Known, RewardTypeOK, TriggerRow
    <3>4. \A t \in watching' \cap Known : amount'[trigger[t].kind] = amount[trigger[t].kind]
      BY <2>2, <3>3
    <3>5. QED
      BY <1>0, <2>1, <3>1, <3>2, <3>3, <3>4 DEF NothingForgotten
  <2>8. QED
    BY <2>3, <2>4, <2>5, <2>6, <2>7 DEF RewardFacts
<1>4. QED
  BY <1>1, <1>2, <1>3



(* A request that has read an amount writes it: a leaving player's hours,   *)
(* or a donation.                                                           *)
LEMMA AmountStep ==
    ASSUME RewardTypeOK, RewardFacts, NEW m \in Movers, LeaveWrites(m) \/ DonationWrites(m)
    PROVE  RewardTypeOK' /\ RewardFacts'
<1>0. MoversConsistent /\ AmountsCurrent /\ NothingTooEarly /\ NothingForgotten
  BY DEF RewardFacts
<1> DEFINE kind == mover[m].kind
           prev == mover[m].prev
           next == mover[m].next
           leaves == mover[m].pc = "leave"
<1>1. /\ mover[m].pc \in {"leave", "credit"} /\ kind = IF leaves THEN "playtime" ELSE "donation"
      /\ mover[m].todo = {} /\ prev = amount[kind] /\ prev <= next /\ prev \in Nat /\ next \in Nat
      /\ leaves => joinedAt # Unset /\ next <= prev + (playClock - joinedAt)
      /\ \A o \in Movers : mover[o].pc \in {"leave", "credit"} /\ mover[o].kind = kind => o = m
  BY <1>0 DEF LeaveWrites, DonationWrites, MoversConsistent, AmountsCurrent, RewardTypeOK, MoverRow
<1>2. /\ mover' = [mover EXCEPT ![m].pc = "read"]
      /\ joinedAt' = IF leaves THEN Unset ELSE joinedAt
      /\ UNCHANGED <<trigger, fired, playClock, watching, slipped>>
  BY DEF LeaveWrites, DonationWrites
<1>3. amount' = [amount EXCEPT ![kind] = next]
  <2>1. amount \in [EventTypes -> Nat] /\ amount["playtime"] \in Nat
    BY DEF RewardTypeOK, EventTypes
  <2>2. CASE LeaveWrites(m)
    <3>1. leaves /\ kind = "playtime" /\ amount' = [amount EXCEPT !["playtime"] = amount["playtime"] + (next - prev)]
      BY <1>1, <2>2 DEF LeaveWrites
    <3>2. amount["playtime"] + (next - prev) = next
      BY <1>1, <2>1, <3>1
    <3>3. QED
      BY <3>1, <3>2
  <2>3. CASE DonationWrites(m)
    BY <1>1, <2>3 DEF DonationWrites
  <2>4. QED
    BY <2>2, <2>3
<1>4. /\ \A o \in Movers \ {m} : mover'[o] = mover[o]
      /\ mover'[m].pc = "read" /\ mover'[m].kind = kind /\ mover'[m].prev = prev /\ mover'[m].next = next
      /\ mover'[m].todo = {} /\ mover'[m] \in MoverRow /\ kind \in EventTypes
  BY <1>1, <1>2 DEF RewardTypeOK, MoverRow, EventTypes
<1> HIDE DEF kind, prev, next, leaves
<1>5. /\ \A k \in EventTypes : amount'[k] = (IF k = kind THEN next ELSE amount[k]) /\ amount[k] \in Nat
      /\ amount[kind] <= next
  BY <1>1, <1>3, <1>4 DEF RewardTypeOK
<1>6. RewardTypeOK'
  <2>1. mover' \in [Movers -> MoverRow]
    BY <1>2, <1>4 DEF RewardTypeOK, MoverRow
  <2>2. amount' \in [EventTypes -> Nat] /\ "first_join" \in EventTypes
    BY <1>1, <1>3 DEF RewardTypeOK, EventTypes
  <2>3. amount'["first_join"] \in {0, 1}
    BY <1>1, <1>5, <2>2 DEF RewardTypeOK
  <2>4. QED
    BY <1>2, <2>1, <2>2, <2>3 DEF RewardTypeOK
<1>7. \A o \in Movers : mover'[o].pc \in {"leave", "credit"} =>
          /\ o # m /\ mover'[o] = mover[o] /\ mover[o].pc \in {"leave", "credit"} /\ mover[o].kind # kind
          /\ mover[o].pc = "leave" => ~leaves
  <2>1. \A o \in Movers : mover[o].pc = "leave" => mover[o].kind = "playtime"
    BY <1>0 DEF MoversConsistent
  <2>2. QED
    BY <1>1, <1>4, <2>1
<1>8. MoversConsistent'
  <2>1. \A o \in Movers \ {m} : mover'[o].pc = "leave" => joinedAt' # Unset /\ mover'[o].kind = "playtime"
    BY <1>0, <1>2, <1>7 DEF MoversConsistent
  <2>2. QED
    BY <1>0, <1>2, <1>4, <2>1 DEF MoversConsistent
<1>9. AmountsCurrent'
  <2>1. \A o \in Movers : mover[o].pc \in {"leave", "credit"} => mover[o].kind \in EventTypes
    BY <1>0 DEF MoversConsistent
  <2>2. \A o \in Movers : mover'[o].pc \in {"leave", "credit"} => amount'[mover[o].kind] = amount[mover[o].kind]
    BY <1>5, <1>7, <2>1
  <2>3. QED
    BY <1>0, <1>2, <1>7, <2>2 DEF AmountsCurrent
<1>10. Known' = Known
  BY <1>2 DEF Known
<1>11. NothingTooEarly'
  <2> SUFFICES ASSUME NEW k \in EventTypes, NEW v \in Nat, Said(k, v)' PROVE Sure(k, v)'
    BY DEF NothingTooEarly
  <2>1. Said(k, v) \/ (k = kind /\ v = next)
    BY <1>2, <1>4, <1>10 DEF Said
  <2>2. \A o \in Movers : mover'[o].pc = "leave" /\ mover'[o].kind = k =>
                 mover'[o] = mover[o] /\ mover[o].pc = "leave" /\ mover[o].kind = k /\ k # kind
    BY <1>7
  <2>3. Sure(k, v) => v <= amount'[k] + SessionOf(k)'
    <3>1. CASE k = kind
      <4>1. Sure(k, v) => v <= next
        <5>1. CASE leaves
          BY <1>1, <3>1, <5>1 DEF Sure, leaves, kind, next
        <5>2. CASE ~leaves
          BY <1>1, <1>5, <3>1, <5>2 DEF Sure, SessionOf
        <5>3. QED
          BY <5>1, <5>2
      <4>2. SessionOf(k)' = 0
        BY <1>1, <1>2, <3>1 DEF SessionOf
      <4>3. QED
        BY <1>1, <1>5, <3>1, <4>1, <4>2
    <3>2. CASE k # kind
      <4>1. SessionOf(k)' = SessionOf(k)
        BY <1>1, <1>2, <3>2 DEF SessionOf
      <4>2. QED
        BY <1>5, <3>2, <4>1 DEF Sure
    <3>3. QED
      BY <3>1, <3>2
  <2>4. CASE Said(k, v)
    BY <1>0, <2>2, <2>3, <2>4 DEF NothingTooEarly, Sure
  <2>5. CASE k = kind /\ v = next
    <3>1. SessionOf(k)' = 0
      BY <1>1, <1>2, <2>5 DEF SessionOf
    <3>2. QED
      BY <1>1, <1>5, <2>2, <2>5, <3>1 DEF Sure
  <2>6. QED
    BY <2>1, <2>4, <2>5
<1>12. NothingForgotten'
  <2>1. \A t \in Known, o \in Movers : Pending(o, t) => Pending(o, t)'
    <3>1. \A t \in Known, o \in Movers \ {m} : Pending(o, t) => Pending(o, t)'
      BY <1>2, <1>4 DEF Pending
    <3>2. \A t \in Known : ~Pending(m, t)
      BY <1>1 DEF Pending
    <3>3. QED
      BY <3>1, <3>2
  <2>2. \A t \in Known : trigger[t].kind \in EventTypes /\ trigger[t].target \in Nat
    BY MilestonesAssumption DEF Known, RewardTypeOK, TriggerRow
  <2>3. ASSUME NEW t \in watching \cap Known, amount'[trigger[t].kind] >= trigger[t].target,
               ~(amount[trigger[t].kind] >= trigger[t].target)
        PROVE  Pending(m, t)'
    <3>1. trigger[t].kind = kind /\ prev < trigger[t].target /\ trigger[t].target <= next
      BY <1>1, <1>5, <2>2, <2>3
    <3>2. QED
      BY <1>2, <1>4, <3>1 DEF Pending, Crossed
  <2>4. QED
    BY <1>0, <1>2, <1>10, <2>1, <2>3 DEF NothingForgotten
<1>13. QED
  BY <1>6, <1>8, <1>9, <1>11, <1>12 DEF RewardFacts

(* A reward is fired: by then it is not to do any more.                     *)
LEMMA FireStep ==
    ASSUME RewardTypeOK, RewardFacts, NEW m \in Movers, NEW t \in TriggerIds, NEW fails \in BOOLEAN,
           FireMilestone(m, t, fails)
    PROVE  RewardTypeOK' /\ (slipped' \/ RewardFacts')
<1>0. MoversConsistent /\ AmountsCurrent /\ NothingTooEarly /\ NothingForgotten
  BY DEF RewardFacts
<1>1. /\ mover[m].pc = "fire" /\ t \in mover[m].todo
      /\ fired' = IF fails \/ t \notin Known THEN fired ELSE fired \cup {t}
      /\ slipped' = fails
      /\ mover' = [mover EXCEPT ![m].todo = mover[m].todo \ {t}]
      /\ UNCHANGED <<trigger, amount, joinedAt, playClock, switches, watching>>
  BY DEF FireMilestone
<1>2. /\ \A o \in Movers \ {m} : mover'[o] = mover[o]
      /\ mover'[m].pc = "fire" /\ mover'[m].todo = mover[m].todo \ {t}
      /\ mover'[m] \in MoverRow /\ mover \in [Movers -> MoverRow]
  BY <1>1 DEF RewardTypeOK, MoverRow
<1>3. RewardTypeOK'
  <2>1. mover' \in [Movers -> MoverRow]
    BY <1>1, <1>2 DEF RewardTypeOK, MoverRow
  <2>2. fired' \subseteq TriggerIds
    BY <1>1 DEF RewardTypeOK
  <2>3. QED
    BY <1>1, <2>1, <2>2 DEF RewardTypeOK
<1>4. ASSUME ~fails PROVE RewardFacts'
  <2>1. Known' = Known /\ trigger[t] # Unset
    BY <1>0, <1>1 DEF Known, MoversConsistent
  <2>2. MoversConsistent'
    BY <1>0, <1>1, <1>2 DEF MoversConsistent
  <2>3. AmountsCurrent'
    BY <1>0, <1>1, <1>2 DEF AmountsCurrent
  <2>4. NothingTooEarly'
    <3>1. \A k, v : Said(k, v)' => Said(k, v)
      BY <1>1, <1>2, <2>1 DEF Said
    <3>2. \A k, v : Sure(k, v) => Sure(k, v)'
      BY <1>1, <1>2 DEF Sure, SessionOf
    <3>3. QED
      BY <1>0, <3>1, <3>2 DEF NothingTooEarly
  <2>5. NothingForgotten'
    <3>1. \A x \in Known, o \in Movers : Pending(o, x) => Pending(o, x)' \/ x \in fired'
      BY <1>1, <1>2, <1>4 DEF Pending
    <3>2. \A x \in fired' : x \in fired \/ (x = t /\ x \in Known)
      BY <1>1
    <3>3. fired \subseteq fired'
      BY <1>1
    <3>4. \A x \in TriggerIds : trigger[x] = Unset => x \notin Known
      BY DEF Known
    <3>5. QED
      BY <1>0, <1>1, <2>1, <3>1, <3>2, <3>3, <3>4 DEF NothingForgotten
  <2>6. QED
    BY <2>2, <2>3, <2>4, <2>5 DEF RewardFacts
<1>5. QED
  BY <1>1, <1>3, <1>4



(* A request reads an amount, finds which triggers it crosses, and ends.    *)
LEMMA MoverStep ==
    ASSUME RewardTypeOK, RewardFacts, NEW m \in Movers,
           \/ RosterSees(m) \/ LeaveReads(m) \/ DonationReads(m) \/ Evaluate(m)
           \/ \E dies \in BOOLEAN : MoverEnds(m, dies)
    PROVE  RewardTypeOK' /\ (slipped' \/ RewardFacts')
<1>0. MoversConsistent /\ AmountsCurrent /\ NothingTooEarly /\ NothingForgotten
  BY DEF RewardFacts
<1>1. ASSUME NEW r \in MoverRow, mover' = [mover EXCEPT ![m] = r], slipped' \in BOOLEAN,
             UNCHANGED <<trigger, fired, amount, joinedAt, playClock, watching>>
      PROVE  RewardTypeOK'
  BY <1>1 DEF RewardTypeOK
<1>2. /\ mover[m] \in MoverRow /\ "playtime" \in EventTypes /\ "donation" \in EventTypes
      /\ amount["playtime"] \in Nat /\ amount["donation"] \in Nat
  BY DEF RewardTypeOK, EventTypes
<1>3. joinedAt # Unset => playClock - joinedAt \in Nat /\ SessionOf("playtime") = playClock - joinedAt
  BY DEF RewardTypeOK, SessionOf
<1>4. \A kind : ~Overlaps(kind) => \A o \in Movers : mover[o].pc \in {"leave", "credit"} => mover[o].kind # kind
  BY DEF Overlaps
<1>5. ASSUME Resting(m) PROVE \A t \in Known : ~Pending(m, t)
  BY <1>0, <1>5 DEF Resting, Pending, MoversConsistent
<1>6. CASE RosterSees(m)
  <2> DEFINE next == amount["playtime"] + (playClock - joinedAt)
             r == [NoMover EXCEPT !.pc = "read", !.kind = "playtime", !.prev = amount["playtime"], !.next = next]
  <2>1. /\ Resting(m) /\ joinedAt # Unset /\ mover' = [mover EXCEPT ![m] = r]
        /\ slipped' = Overlaps("playtime")
        /\ UNCHANGED <<trigger, fired, amount, joinedAt, playClock, switches, watching>>
    BY <1>6 DEF RosterSees, MoverGoes
  <2>2. next \in Nat /\ next = amount["playtime"] + SessionOf("playtime")
    BY <1>2, <1>3, <2>1
  <2> HIDE DEF next
  <2>3. r \in MoverRow /\ r.pc = "read" /\ r.kind = "playtime" /\ r.next = next /\ r.todo = {}
    BY <1>2, <2>2 DEF NoMover, MoverRow
  <2> HIDE DEF r
  <2>4. RewardTypeOK'
    BY <1>1, <2>1, <2>3 DEF Overlaps
  <2>5. ~slipped' => RewardFacts'
    <3>1. ~slipped' => \A o \in Movers : mover[o].pc = "leave" => mover[o].kind # "playtime"
      BY <1>4, <2>1
    <3>2. r.next <= amount[r.kind] + SessionOf(r.kind)
      BY <1>2, <2>2, <2>3
    <3>3. \A t \in watching \cap Known : ~Pending(m, t)
      BY <1>5, <2>1
    <3>4. ~slipped' => \A o \in Movers : mover[o].pc = "leave" /\ mover[o].kind = r.kind => r.next <= mover[o].next
      BY <2>3, <3>1
    <3>5. r.pc = "read" /\ r.todo = {} /\ r.kind \in EventTypes
      BY <1>2, <2>3
    <3>6. QED
      BY <2>1, <2>3, <3>2, <3>3, <3>4, <3>5, RewardsFollow
  <2>6. QED
    BY <2>4, <2>5
<1>7. CASE LeaveReads(m)
  <2> DEFINE next == amount["playtime"] + (playClock - joinedAt)
             r == [NoMover EXCEPT !.pc = "leave", !.kind = "playtime", !.prev = amount["playtime"], !.next = next]
  <2>1. /\ Resting(m) /\ joinedAt # Unset /\ mover' = [mover EXCEPT ![m] = r]
        /\ slipped' = Overlaps("playtime")
        /\ UNCHANGED <<trigger, fired, amount, joinedAt, playClock, switches, watching>>
    BY <1>7 DEF LeaveReads
  <2>2. next \in Nat /\ amount["playtime"] <= next
    BY <1>2, <1>3, <2>1
  <2>3. next = amount["playtime"] + (playClock - joinedAt)
    OBVIOUS
  <2> HIDE DEF next
  <2>4. r \in MoverRow /\ r.pc = "leave" /\ r.kind = "playtime" /\ r.prev = amount["playtime"] /\ r.next = next /\ r.todo = {}
    BY <1>2, <2>2 DEF NoMover, MoverRow
  <2> HIDE DEF r
  <2>5. RewardTypeOK'
    BY <1>1, <2>1, <2>4 DEF Overlaps
  <2>6. ~slipped' => RewardFacts'
    BY <1>2, <1>4, <1>5, <2>1, <2>2, <2>3, <2>4, RewardsFollow
  <2>7. QED
    BY <2>5, <2>6
<1>8. CASE DonationReads(m)
  <2> DEFINE next == amount["donation"] + 1
             r == [NoMover EXCEPT !.pc = "credit", !.kind = "donation", !.prev = amount["donation"], !.next = next]
  <2>1. /\ Resting(m) /\ mover' = [mover EXCEPT ![m] = r]
        /\ slipped' = Overlaps("donation")
        /\ UNCHANGED <<trigger, fired, amount, joinedAt, playClock, switches, watching>>
    BY <1>8 DEF DonationReads
  <2>2. next \in Nat /\ amount["donation"] <= next
    BY <1>2
  <2> HIDE DEF next
  <2>3. r \in MoverRow /\ r.pc = "credit" /\ r.kind = "donation" /\ r.prev = amount["donation"] /\ r.next = next /\ r.todo = {}
    BY <1>2, <2>2 DEF NoMover, MoverRow
  <2> HIDE DEF r
  <2>4. RewardTypeOK'
    BY <1>1, <2>1, <2>3 DEF Overlaps
  <2>5. ~slipped' => RewardFacts'
    BY <1>2, <1>4, <1>5, <2>1, <2>2, <2>3, RewardsFollow
  <2>6. QED
    BY <2>4, <2>5
<1>9. CASE Evaluate(m)
  <2> DEFINE kind == mover[m].kind
             next == mover[m].next
             crossed == {t \in Known : /\ trigger[t].enabled /\ trigger[t].kind = kind
                                       /\ Crossed(mover[m].prev, next, trigger[t].target)}
             r == [mover[m] EXCEPT !.pc = "fire", !.todo = crossed]
  <2>1. mover[m].pc = "read" /\ kind \in EventTypes /\ next \in Nat /\ mover[m].todo = {} /\ Known \subseteq TriggerIds
    BY <1>0, <1>2, <1>9 DEF Evaluate, MoversConsistent, MoverRow, Known
  <2>2. /\ mover' = [mover EXCEPT ![m] = r]
        /\ UNCHANGED <<trigger, fired, amount, joinedAt, playClock, switches, watching, slipped>>
    BY <1>9 DEF Evaluate, RewardTypeOK
  <2>3. crossed \subseteq TriggerIds /\ r \in MoverRow /\ r.pc = "fire" /\ r.todo = crossed
    BY <1>2, <2>1 DEF MoverRow
  <2>4. Sure(kind, next)
    <3>1. Said(kind, next)
      BY <2>1 DEF Said
    <3>2. QED
      BY <1>0, <2>1, <3>1 DEF NothingTooEarly
  <2>5. \A t \in crossed : t \in Known /\ trigger[t].kind = kind /\ trigger[t].target <= next /\ trigger[t].target \in Nat
    BY MilestonesAssumption DEF Crossed, Known, RewardTypeOK, TriggerRow
  <2>6. \A t \in watching \cap Known : Pending(m, t) => t \in crossed
    BY <1>0, <2>1 DEF NothingForgotten, Pending
  <2> HIDE DEF crossed, r
  <2>7. \A t \in crossed : trigger[t] # Unset /\ Sure(trigger[t].kind, trigger[t].target)
    <3>1. ASSUME NEW t \in crossed PROVE Sure(kind, trigger[t].target)
      <4>1. amount[kind] + SessionOf(kind) \in Nat /\ \A o \in Movers : mover[o].next \in Nat
        BY <2>1 DEF RewardTypeOK, SessionOf, MoverRow
      <4>2. QED
        BY <2>1, <2>4, <2>5, <3>1, <4>1 DEF Sure
    <3>2. QED
      BY <2>5, <3>1 DEF Known
  <2>8. \A t \in crossed : Pending(m, t)'
    BY <2>2, <2>3, <1>1 DEF Pending, RewardTypeOK
  <2>9. RewardTypeOK'
    BY <1>1, <2>2, <2>3 DEF RewardTypeOK
  <2>10. RewardFacts'
    BY <2>2, <2>3, <2>6, <2>7, <2>8, RewardsFollow
  <2>11. QED
    BY <2>9, <2>10
<1>10. ASSUME NEW dies \in BOOLEAN, MoverEnds(m, dies) PROVE RewardTypeOK' /\ (slipped' \/ RewardFacts')
  <2>1. /\ ~dies => mover[m].pc = "fire" /\ mover[m].todo = {}
        /\ mover' = [mover EXCEPT ![m] = NoMover]
        /\ slipped' = dies
        /\ UNCHANGED <<trigger, fired, amount, joinedAt, playClock, switches, watching>>
    BY <1>10 DEF MoverEnds
  <2>2. NoMover \in MoverRow /\ NoMover.pc = "idle" /\ NoMover.todo = {}
    BY DEF NoMover, MoverRow
  <2>3. ~dies => \A t \in watching \cap Known : ~Pending(m, t)
    BY <2>1 DEF Pending
  <2>4. RewardTypeOK'
    BY <1>1, <2>1, <2>2
  <2>5. ~dies => RewardFacts'
    BY <2>1, <2>2, <2>3, RewardsFollow
  <2>6. QED
    BY <2>1, <2>4, <2>5
<1>11. QED
  BY <1>6, <1>7, <1>8, <1>9, <1>10

(* RewardInv holds at first and every step keeps it.                        *)
LEMMA RewardInvariant == MilestonesSpec => []RewardInv
<1>1. MilestonesInit => RewardInv
  <2> SUFFICES ASSUME MilestonesInit PROVE RewardInv
    OBVIOUS
  <2>1. NoMover \in MoverRow /\ NoMover.pc = "idle" /\ NoMover.todo = {}
    BY DEF NoMover, MoverRow
  <2>2. Known = {} /\ \A t \in TriggerIds : trigger[t] = Unset
    BY DEF MilestonesInit, Known
  <2>3. \A m \in Movers : mover[m] = NoMover
    BY DEF MilestonesInit
  <2>4. "first_join" \in EventTypes
    BY DEF EventTypes
  <2>5. RewardTypeOK
    BY <2>1, <2>4, MilestonesAssumption DEF MilestonesInit, RewardTypeOK
  <2>6. MoversConsistent /\ AmountsCurrent
    BY <2>1, <2>3 DEF MoversConsistent, AmountsCurrent
  <2>7. NothingTooEarly /\ NothingForgotten
    BY <2>1, <2>2, <2>3 DEF MilestonesInit, NothingTooEarly, NothingForgotten, Said
  <2>8. QED
    BY <2>5, <2>6, <2>7 DEF RewardInv, RewardFacts
<1>2. RewardInv /\ [MilestonesNext]_milestoneVars => RewardInv'
  <2> SUFFICES ASSUME RewardInv, [MilestonesNext]_milestoneVars PROVE RewardInv'
    OBVIOUS
  <2>1. CASE UNCHANGED milestoneVars
    <3>1. RewardTypeOK' /\ (RewardFacts => RewardFacts') /\ slipped' = slipped
      BY <2>1, SMTT(30)
      DEF RewardInv, RewardTypeOK, RewardFacts, MoversConsistent, AmountsCurrent, NothingTooEarly,
                  NothingForgotten, Said, Sure, SessionOf, Pending, Known, milestoneVars
    <3>2. QED
      BY <3>1 DEF RewardInv
  <2>2. CASE MilestonesNext
    <3>1. ~slipped /\ RewardTypeOK /\ RewardFacts
      BY <2>2 DEF MilestonesNext, RewardInv
    <3>2. CASE PlayTick \/ UuidLine
      BY <3>1, <3>2, PlayerStep DEF RewardInv
    <3>3. ASSUME NEW m \in Movers, NEW t \in TriggerIds, TriggerRequest(m, t) PROVE RewardInv'
      BY <3>1, <3>3, TriggerStep DEF RewardInv
    <3>4. ASSUME NEW m \in Movers, PlayerJoins(m) PROVE RewardInv'
      BY <3>1, <3>4, PlayerStep DEF RewardInv
    <3>5. ASSUME NEW m \in Movers, LeaveWrites(m) \/ DonationWrites(m) PROVE RewardInv'
      BY <3>1, <3>5, AmountStep DEF RewardInv
    <3>6. ASSUME NEW m \in Movers, NEW t \in TriggerIds, NEW fails \in BOOLEAN, FireMilestone(m, t, fails)
          PROVE  RewardInv'
      BY <3>1, <3>6, FireStep DEF RewardInv
    <3>7. ASSUME NEW m \in Movers, RosterSees(m) \/ LeaveReads(m) \/ DonationReads(m) \/ Evaluate(m)
                                   \/ \E dies \in BOOLEAN : MoverEnds(m, dies)
          PROVE  RewardInv'
      BY <3>1, <3>7, MoverStep DEF RewardInv
    <3>8. QED
      BY <2>2, <3>2, <3>3, <3>4, <3>5, <3>6, <3>7 DEF MilestonesNext
  <2>3. QED
    BY <2>1, <2>2
<1>3. QED
  BY <1>1, <1>2, PTL DEF MilestonesSpec

(* Between requests a trigger has fired for every player who reached its    *)
(* threshold while it watched, and never for one who had not: whatever      *)
(* requests ran at once, unless one failed or read what another changed     *)
(* (triggers.service.ts's evaluations, fireOnce and backfillTrigger).  A    *)
(* first-join trigger watches no more when a line with the player's UUID    *)
(* has made the row.                                                        *)
THEOREM RewardsAreEarned == MilestonesSpec => []RewardedWhenEarned
<1>1. RewardInv => RewardedWhenEarned
  <2> SUFFICES ASSUME RewardInv, ~slipped, NEW t \in Known
               PROVE  LET kind == trigger[t].kind
                          session == IF kind = "playtime" /\ joinedAt # Unset THEN playClock - joinedAt ELSE 0
                      IN /\ t \in watching /\ amount[kind] >= trigger[t].target /\ (\A m \in Movers : Resting(m))
                              => t \in fired
                         /\ t \in fired => amount[kind] + session >= trigger[t].target
    BY DEF RewardedWhenEarned
  <2>1. RewardTypeOK /\ MoversConsistent /\ NothingTooEarly /\ NothingForgotten
    BY DEF RewardInv, RewardFacts
  <2>2. trigger[t].kind \in EventTypes /\ trigger[t].target \in Nat
    BY <2>1, MilestonesAssumption DEF Known, RewardTypeOK, TriggerRow
  <2>3. (\A m \in Movers : Resting(m)) => \A m \in Movers : ~Pending(m, t)
    BY <2>1 DEF Resting, Pending, MoversConsistent
  <2>4. t \in watching /\ amount[trigger[t].kind] >= trigger[t].target /\ (\A m \in Movers : Resting(m)) => t \in fired
    BY <2>1, <2>3 DEF NothingForgotten
  <2>5. t \in fired => trigger[t].target <= amount[trigger[t].kind] + SessionOf(trigger[t].kind)
    <3>1. t \in fired => Said(trigger[t].kind, trigger[t].target)
      BY DEF Said
    <3>2. QED
      BY <2>1, <2>2, <3>1 DEF NothingTooEarly, Sure
  <2>6. QED
    BY <2>1, <2>2, <2>4, <2>5 DEF SessionOf, RewardTypeOK
<1>2. QED
  BY <1>1, RewardInvariant, PTL
-----------------------------------------------------------------------------
(* The articles and their pictures.                                        *)

Extensions == {"webp", "jpg"}
ArticleRow == [price : Nat, active : BOOLEAN, ext : Extensions,
               list : SUBSET {1}, single : SUBSET {1}]
FileRow == [a : Articles, ext : Extensions, size : {"master", "thumb"}, v : Nat]
EditFields == [op : {"none", "create", "update", "remove", "thumb", "reprocess"},
               pc : {"idle", "row", "write", "unlink", "save"}, a : Articles \cup {NoRow},
               copy : ArticleRow \cup {NoRow}, v : Nat]

\* A request about an article that exists has read its row.
Reading == {"update", "remove", "thumb", "reprocess"}
EditRow == {r \in EditFields :
               /\ r.op \in Reading => r.a \in Articles /\ r.copy \in ArticleRow
               /\ r.op = "create" /\ r.pc = "write" => r.a \in Articles}

FrontTypeOK ==
    /\ item \in [Articles -> ArticleRow \cup {NoRow}]
    /\ files \subseteq FileRow /\ edit \in [Editors -> EditRow]
    /\ uploads \in Nat /\ newest \in [Articles -> Nat]

\* Both sizes of an upload, or the large one of the old kind.
Shown(b, ext, v, mine) ==
    \/ mine = Pair(b, ext, v)
    \/ ext = "jpg" /\ mine = {f \in Pair(b, ext, v) : f.size = "master"}

\* An article without requests in progress, with these files.
AtRest(b, row, v, mine) == IF row = NoRow THEN mine = {} ELSE Shown(b, row.ext, v, mine)

\* What a request that is in progress alone has found and done.
Midway(r, row, v, mine) ==
    /\ r.op = "create" => r.pc = "write"
    /\ r.pc = "row" => row = r.copy /\ row # NoRow /\ Shown(r.a, row.ext, v, mine)
    /\ r.op \in {"create", "update"} /\ r.pc = "write" =>
           row # NoRow /\ row.ext = "webp" /\ r.v = v /\ mine = {}
    /\ r.op = "update" /\ r.pc = "unlink" =>
           row # NoRow /\ row.ext = "webp" /\ r.v = v /\ \A f \in mine : f.ext = r.copy.ext
    /\ r.op = "remove" /\ r.pc = "unlink" => row = NoRow /\ \A f \in mine : f.ext = r.copy.ext
    /\ <<r.op, r.pc>> \in {<<"thumb", "save">>, <<"reprocess", "write">>} =>
           row = r.copy /\ row # NoRow /\ r.v = v /\ Shown(r.a, row.ext, v, mine)
    /\ r.op = "reprocess" /\ r.pc = "unlink" =>
           /\ row = r.copy /\ row # NoRow /\ row.ext = "jpg" /\ r.v = v
           /\ {f \in mine : f.ext # "jpg"} = Pair(r.a, "webp", v)

FilesOf(fs, b) == {f \in fs : f.a = b}
Requests(ed, b) == {d \in Editors : ed[d].a = b}

\* An article whose requests never overlapped.
InOrder(b, ed, row, v, mine) ==
    /\ \A d, e \in Requests(ed, b) : d = e
    /\ \A d \in Requests(ed, b) : Midway(ed[d], row, v, mine)
    /\ Requests(ed, b) = {} => AtRest(b, row, v, mine)

ArticlesInOrder ==
    \A b \in Articles \ blurred : InOrder(b, edit, item[b], newest[b], FilesOf(files, b))

FrontInv == FrontTypeOK /\ ArticlesInOrder

(* What a step does to an article: it ends its request, or continues it, or *)
(* is about another one.                                                    *)
LEMMA RequestEnds ==
    ASSUME NEW b, NEW ed \in [Editors -> EditRow], NEW row, NEW v, NEW mine,
           InOrder(b, ed, row, v, mine), NEW e \in Editors, ed[e].a = b,
           NEW x \in EditRow, x.a # b,
           NEW row2, NEW v2, NEW mine2, AtRest(b, row2, v2, mine2)
    PROVE  InOrder(b, [ed EXCEPT ![e] = x], row2, v2, mine2)
<1> DEFINE ed2 == [ed EXCEPT ![e] = x]
<1>1. Requests(ed2, b) = {}
  BY DEF InOrder, Requests
<1> HIDE DEF ed2
<1>2. InOrder(b, ed2, row2, v2, mine2)
  BY <1>1 DEF InOrder
<1>3. QED
  BY <1>2 DEF ed2

LEMMA RequestGoesOn ==
    ASSUME NEW b, NEW ed \in [Editors -> EditRow], NEW row, NEW v, NEW mine,
           InOrder(b, ed, row, v, mine), NEW e \in Editors,
           ed[e].a = b \/ Requests(ed, b) = {},
           NEW x \in EditRow, x.a = b,
           NEW row2, NEW v2, NEW mine2, Midway(x, row2, v2, mine2)
    PROVE  InOrder(b, [ed EXCEPT ![e] = x], row2, v2, mine2)
<1> DEFINE ed2 == [ed EXCEPT ![e] = x]
<1>1. Requests(ed2, b) = {e} /\ ed2[e] = x
  BY DEF InOrder, Requests
<1> HIDE DEF ed2
<1>2. InOrder(b, ed2, row2, v2, mine2)
  BY <1>1 DEF InOrder
<1>3. QED
  BY <1>2 DEF ed2

LEMMA RequestElsewhere ==
    ASSUME NEW b, NEW ed \in [Editors -> EditRow], NEW row, NEW v, NEW mine,
           InOrder(b, ed, row, v, mine), NEW e \in Editors, ed[e].a # b,
           NEW x \in EditRow, x.a # b
    PROVE  InOrder(b, [ed EXCEPT ![e] = x], row, v, mine)
<1> DEFINE ed2 == [ed EXCEPT ![e] = x]
<1>1. Requests(ed2, b) = Requests(ed, b) /\ \A d \in Requests(ed, b) : ed2[d] = ed[d]
  BY DEF Requests
<1> HIDE DEF ed2
<1>2. InOrder(b, ed2, row, v, mine)
  BY <1>1 DEF InOrder
<1>3. QED
  BY <1>2 DEF ed2

\* What becomes of an article when one editor's request becomes x: the request goes on,
\* or ends, or is about another article.
Treated(b, e, x) ==
    \/ /\ x.a = b /\ (edit[e].a = b \/ Requests(edit, b) = {})
       /\ Midway(x, item'[b], newest'[b], FilesOf(files', b))
    \/ /\ x.a # b /\ edit[e].a = b
       /\ AtRest(b, item'[b], newest'[b], FilesOf(files', b))
    \/ /\ x.a # b /\ edit[e].a # b
       /\ item'[b] = item[b] /\ newest'[b] = newest[b] /\ FilesOf(files', b) = FilesOf(files, b)

(* A step of one request keeps the articles in order that it treats so.     *)
LEMMA EditStep ==
    ASSUME FrontInv, FrontTypeOK', NEW e \in Editors, NEW x \in EditRow,
           edit' = [edit EXCEPT ![e] = x], blurred \subseteq blurred',
           \A b \in Articles \ blurred' : Treated(b, e, x)
    PROVE  FrontInv'
<1>1. ASSUME NEW b \in Articles \ blurred'
      PROVE  InOrder(b, edit', item'[b], newest'[b], FilesOf(files', b))
  <2>1. /\ edit \in [Editors -> EditRow] /\ InOrder(b, edit, item[b], newest[b], FilesOf(files, b))
        /\ Treated(b, e, x)
    BY DEF FrontInv, FrontTypeOK, ArticlesInOrder
  <2>2. CASE x.a = b
    <3>1. /\ edit[e].a = b \/ Requests(edit, b) = {}
          /\ Midway(x, item'[b], newest'[b], FilesOf(files', b))
      BY <2>1, <2>2 DEF Treated
    <3>2. QED
      BY <2>1, <2>2, <3>1, RequestGoesOn
  <2>3. CASE x.a # b /\ edit[e].a = b
    <3>1. AtRest(b, item'[b], newest'[b], FilesOf(files', b))
      BY <2>1, <2>3 DEF Treated
    <3>2. QED
      BY <2>1, <2>3, <3>1, RequestEnds
  <2>4. CASE x.a # b /\ edit[e].a # b
    <3>1. item'[b] = item[b] /\ newest'[b] = newest[b] /\ FilesOf(files', b) = FilesOf(files, b)
      BY <2>1, <2>4 DEF Treated
    <3>2. QED
      BY <2>1, <2>4, <3>1, RequestElsewhere
  <2>5. QED
    BY <2>2, <2>3, <2>4
<1>2. ArticlesInOrder'
  BY <1>1 DEF ArticlesInOrder
<1>3. QED
  BY <1>2 DEF FrontInv

(* The row of an article is one, and a request that has ended is about      *)
(* nothing.                                                                 *)
LEMMA FrontRows ==
    /\ NoRow \notin Articles /\ NoRow \notin ArticleRow
    /\ Free \in EditRow /\ Free.a = NoRow
    /\ \A r \in EditRow : \A pc \in {"row", "write", "unlink", "save"} :
           r.op \in Reading => [r EXCEPT !.pc = pc] \in EditRow
    /\ Prices \subseteq Nat
<1>1. NoRow \notin Articles /\ NoRow \notin ArticleRow /\ Prices \subseteq Nat
  BY ShopFrontAssumption DEF ArticleRow, Extensions
<1>2. Free \in EditRow /\ Free.a = NoRow
  BY DEF Free, EditRow, EditFields, Reading
<1>3. ASSUME NEW r \in EditRow, NEW pc \in {"row", "write", "unlink", "save"}, r.op \in Reading
      PROVE  [r EXCEPT !.pc = pc] \in EditRow
  BY <1>3 DEF EditRow, EditFields, Reading
<1>4. QED
  BY <1>1, <1>2, <1>3

\* unlinkImageFiles and writeImage on the files of an article.
Without(fs, a, ext) == fs \ {f \in fs : f.a = a /\ f.ext = ext}
Rewritten(fs, a, v) == Without(fs, a, "webp") \cup Pair(a, "webp", v)

(* The files of an article after some are taken away or written.            *)
LEMMA FilesWithout ==
    ASSUME NEW fs, NEW a, NEW ext, NEW fs2, fs2 = Without(fs, a, ext)
    PROVE  /\ \A b : b # a => FilesOf(fs2, b) = FilesOf(fs, b)
           /\ FilesOf(fs2, a) = {f \in FilesOf(fs, a) : f.ext # ext}
  BY DEF FilesOf, Without

LEMMA FilesRewritten ==
    ASSUME NEW fs, NEW a, NEW v, NEW fs2, fs2 = Rewritten(fs, a, v)
    PROVE  /\ \A b : b # a => FilesOf(fs2, b) = FilesOf(fs, b)
           /\ FilesOf(fs2, a) = {f \in FilesOf(fs, a) : f.ext # "webp"} \cup Pair(a, "webp", v)
<1>1. \A f \in Pair(a, "webp", v) : f.a = a
  BY DEF Pair
<1>2. QED
  BY <1>1 DEF FilesOf, Without, Rewritten

(* The files of a picture.                                                  *)
LEMMA PairOf ==
    ASSUME NEW b, NEW ext, NEW v
    PROVE  /\ \A f \in Pair(b, ext, v) : f.a = b /\ f.ext = ext /\ f.v = v
           /\ b \in Articles /\ ext \in Extensions /\ v \in Nat => Pair(b, ext, v) \subseteq FileRow
<1>1. \A s : [a |-> b, ext |-> ext, size |-> s, v |-> v].a = b
          /\ [a |-> b, ext |-> ext, size |-> s, v |-> v].ext = ext
          /\ [a |-> b, ext |-> ext, size |-> s, v |-> v].v = v
  OBVIOUS
<1>2. \A f \in Pair(b, ext, v) : f.a = b /\ f.ext = ext /\ f.v = v
  BY <1>1, Zenon DEF Pair
<1>3. ASSUME b \in Articles, ext \in Extensions, v \in Nat PROVE Pair(b, ext, v) \subseteq FileRow
  BY <1>3 DEF Pair, FileRow
<1>4. QED
  BY <1>2, <1>3

(* The value of a field of a request.                                       *)
LEMMA FieldOf ==
    ASSUME NEW T, NEW value \in SUBSET T, NEW kept \in T
    PROVE  Field(value, kept) \in T
  BY DEF Field

(* What a request that is alone has found.                                  *)
LEMMA AtWork ==
    ASSUME FrontInv, NEW e \in Editors
    PROVE  /\ edit[e] \in EditRow /\ edit \in [Editors -> EditRow]
           /\ edit[e].a \in Articles \ blurred =>
                  Midway(edit[e], item[edit[e].a], newest[edit[e].a], FilesOf(files, edit[e].a))
  BY DEF FrontInv, FrontTypeOK, ArticlesInOrder, InOrder, Requests

-----------------------------------------------------------------------------
(* The steps of requests about articles.                                   *)

LEMMA EditReadsStep ==
    ASSUME FrontInv, NEW e \in Editors, NEW op \in Reading, NEW a \in Articles, EditReads(e, op, a)
    PROVE  FrontInv'
<1> DEFINE x == [op |-> op, pc |-> "row", a |-> a, copy |-> item[a], v |-> 0]
<1>1. /\ edit[e] = Free /\ edit' = [edit EXCEPT ![e] = x] /\ item[a] # NoRow
      /\ blurred' = IF Busy(a) THEN blurred \cup {a} ELSE blurred
      /\ UNCHANGED <<item, files, uploads, newest>>
  BY DEF EditReads, Opens, Present, Free
<1>2. item[a] \in ArticleRow
  BY <1>1 DEF FrontInv, FrontTypeOK
<1>3. x \in EditRow /\ x.a = a /\ x.pc = "row" /\ x.op = op /\ x.copy = item[a]
  <2>1. x.a = a /\ x.pc = "row" /\ x.op = op /\ x.copy = item[a]
    OBVIOUS
  <2>2. x \in EditFields
    <3>1. op \in {"none", "create", "update", "remove", "thumb", "reprocess"} /\ op # "create"
      BY DEF Reading
    <3>2. QED
      BY <1>2, <3>1 DEF EditFields
  <2>3. op # "create"
    BY DEF Reading
  <2> HIDE DEF x
  <2>4. QED
    BY <1>2, <2>1, <2>2, <2>3 DEF EditRow
<1>4. FrontTypeOK'
  <2> HIDE DEF x
  <2>1. QED
    BY <1>1, <1>3 DEF FrontInv, FrontTypeOK
<1>5. ASSUME NEW b \in Articles \ blurred', x.a = b
      PROVE  /\ Requests(edit, b) = {}
             /\ Midway(x, item'[b], newest'[b], FilesOf(files', b))
  <2>1. b = a /\ a \in Articles \ blurred /\ Requests(edit, a) = {}
    BY <1>1, <1>3, <1>5 DEF Busy, Requests
  <2>2. Shown(a, item[a].ext, newest[a], FilesOf(files, a))
    BY <1>1, <2>1 DEF FrontInv, ArticlesInOrder, InOrder, AtRest
  <2> HIDE DEF x
  <2>3. QED
    BY <1>1, <1>3, <2>1, <2>2 DEF Midway, Reading
<1>6. blurred \subseteq blurred' /\ edit[e].a = NoRow /\ NoRow \notin Articles
  BY <1>1, FrontRows
<1> HIDE DEF x
<1>7. ASSUME NEW b \in Articles \ blurred' PROVE Treated(b, e, x)
  BY <1>1, <1>3, <1>5, <1>6 DEF Treated
<1>8. QED
  BY <1>1, <1>3, <1>4, <1>6, <1>7, EditStep

LEMMA CreateCountsStep == ASSUME FrontInv, NEW e \in Editors, CreateCounts(e) PROVE FrontInv'
<1> DEFINE x == [Free EXCEPT !.op = "create", !.pc = "row"]
<1>1. /\ edit[e] = Free /\ edit' = [edit EXCEPT ![e] = x] /\ blurred \subseteq blurred'
      /\ UNCHANGED <<item, files, uploads, newest>>
  BY DEF CreateCounts, Opens, Free
<1>2. x \in EditRow /\ x.a = NoRow
  BY DEF Free, EditRow, EditFields, Reading
<1> HIDE DEF x
<1>3. FrontTypeOK'
  BY <1>1, <1>2 DEF FrontInv, FrontTypeOK
<1>4. edit[e].a = NoRow /\ NoRow \notin Articles
  BY <1>1, FrontRows
<1>5. ASSUME NEW b \in Articles \ blurred' PROVE Treated(b, e, x)
  BY <1>1, <1>2, <1>4 DEF Treated
<1>6. QED
  BY <1>1, <1>2, <1>3, <1>5, EditStep

LEMMA CreateRowStep ==
    ASSUME FrontInv, NEW e \in Editors, NEW a \in Articles, NEW price \in Prices, CreateRow(e, a, price, TRUE, {1})
    PROVE  FrontInv'
<1> DEFINE x == [edit[e] EXCEPT !.a = a, !.v = uploads + 1, !.pc = "write"]
           row == Row(price, TRUE, "webp", ParseShopGrantFields({{1}}, NoRow))
<1>1. /\ At(e, "create", "row") /\ a \in Unknown
      /\ item' = [item EXCEPT ![a] = row] /\ newest' = [newest EXCEPT ![a] = uploads + 1]
      /\ uploads' = uploads + 1 /\ edit' = [edit EXCEPT ![e] = x] /\ UNCHANGED <<files, blurred>>
  BY DEF CreateRow
<1>2. row \in ArticleRow /\ row.ext = "webp" /\ row # NoRow
  <2> DEFINE g == ParseShopGrantFields({{1}}, NoRow)
  <2>1. g = [list |-> {1}, single |-> {1}]
    BY DEF ParseShopGrantFields, Field
  <2>2. row = [price |-> price, active |-> TRUE, ext |-> "webp", list |-> g.list, single |-> g.single]
    BY Zenon DEF Row
  <2> HIDE DEF row, g
  <2>3. g.list = {1} /\ g.single = {1} /\ price \in Nat
    BY <2>1, FrontRows
  <2>4. row \in ArticleRow /\ row.ext = "webp"
    BY <2>2, <2>3 DEF ArticleRow, Extensions
  <2>5. QED
    BY <2>4, FrontRows
<1>3. x \in EditRow /\ x.a = a /\ x.pc = "write" /\ x.op = "create" /\ x.v = uploads + 1
  <2>1. edit[e] \in EditRow /\ edit[e].op = "create" /\ uploads + 1 \in Nat
    BY <1>1, AtWork DEF At, FrontInv, FrontTypeOK
  <2>2. QED
    BY <2>1 DEF EditRow, EditFields, Reading
<1>4. FrontTypeOK'
  <2> HIDE DEF x, row
  <2>1. QED
    BY <1>1, <1>2, <1>3 DEF FrontInv, FrontTypeOK
<1>5. edit[e].a \notin Articles \ blurred
  BY <1>1, AtWork DEF At, Midway
<1>6. Requests(edit, a) = {} /\ FilesOf(files, a) = {}
  BY <1>1 DEF Unknown, Busy, Requests, FilesOf
<1>7. item'[a] = row /\ newest'[a] = uploads + 1
      /\ \A b \in Articles : b # a => item'[b] = item[b] /\ newest'[b] = newest[b]
  BY <1>1 DEF FrontInv, FrontTypeOK
<1> HIDE DEF x, row
<1>8. Midway(x, item'[a], newest'[a], FilesOf(files', a))
  BY <1>1, <1>2, <1>3, <1>6, <1>7 DEF Midway, Reading
<1>9. ASSUME NEW b \in Articles \ blurred' PROVE Treated(b, e, x)
  BY <1>1, <1>3, <1>5, <1>6, <1>7, <1>8 DEF Treated
<1>10. QED
  BY <1>1, <1>3, <1>4, <1>9, EditStep

LEMMA UpdateRowStep ==
    ASSUME FrontInv, NEW e \in Editors, NEW c \in Changes, NEW picture \in BOOLEAN,
           UpdateRow(e, c.price, c.active, c.given, picture)
    PROVE  FrontInv'
<1> DEFINE r == edit[e]
           a == r.a
           x == IF picture THEN [r EXCEPT !.v = uploads + 1, !.pc = "unlink"] ELSE Free
           row == Row(Field(c.price, r.copy.price), Field(c.active, r.copy.active),
                      IF picture THEN "webp" ELSE item[a].ext, ParseShopGrantFields(c.given, r.copy))
<1>1. /\ r.op = "update" /\ r.pc = "row" /\ item[a] # NoRow /\ r \in EditRow /\ a \in Articles
      /\ r.copy \in ArticleRow /\ edit \in [Editors -> EditRow]
  BY AtWork DEF UpdateRow, At, EditRow, Reading
<1>2. /\ item' = [item EXCEPT ![a] = row] /\ UNCHANGED <<files, blurred>>
      /\ picture => uploads' = uploads + 1 /\ newest' = [newest EXCEPT ![a] = uploads + 1]
      /\ ~picture => UNCHANGED <<uploads, newest>>
  BY DEF UpdateRow
<1>3. edit' = [edit EXCEPT ![e] = x]
  BY DEF UpdateRow, Closes
<1>4. row \in ArticleRow /\ row.ext = (IF picture THEN "webp" ELSE item[a].ext) /\ row # NoRow
  <2>1. c.price \in SUBSET Nat /\ c.active \in SUBSET BOOLEAN /\ c.given \in SUBSET (SUBSET {1})
    BY FrontRows DEF Changes
  <2>2. /\ r.copy.price \in Nat /\ r.copy.active \in BOOLEAN /\ item[a].ext \in Extensions
        /\ r.copy.list \in SUBSET {1} /\ r.copy.single \in SUBSET {1}
    BY <1>1 DEF ArticleRow, FrontInv, FrontTypeOK
  <2>a. Field(c.price, r.copy.price) \in Nat
    BY <2>1, <2>2, FieldOf
  <2>b. Field(c.active, r.copy.active) \in BOOLEAN
    BY <2>1, <2>2, FieldOf
  <2>3. Field(c.price, r.copy.price) \in Nat /\ Field(c.active, r.copy.active) \in BOOLEAN
    BY <2>a, <2>b
  <2> DEFINE kept == IF r.copy.list # {} THEN r.copy.list ELSE r.copy.single
  <2>4. Field(c.given, kept) \in SUBSET {1}
    <3>1. kept \in SUBSET {1}
      BY <2>2
    <3> HIDE DEF kept
    <3>2. QED
      BY <2>1, <3>1 DEF Field
  <2>5. ParseShopGrantFields(c.given, r.copy) = [list |-> Field(c.given, kept), single |-> Field(c.given, kept)]
    BY DEF ParseShopGrantFields
  <2>6. row = [price |-> Field(c.price, r.copy.price), active |-> Field(c.active, r.copy.active),
               ext |-> IF picture THEN "webp" ELSE item[a].ext,
               list |-> Field(c.given, kept), single |-> Field(c.given, kept)]
    BY <2>5 DEF Row
  <2> HIDE DEF row, kept, r, a
  <2>7. row \in ArticleRow /\ row.ext = (IF picture THEN "webp" ELSE item[a].ext)
    BY <2>2, <2>3, <2>4, <2>6 DEF ArticleRow, Extensions
  <2>8. QED
    BY <2>7, FrontRows
<1>5. /\ x \in EditRow
      /\ picture => x.a = a /\ x.pc = "unlink" /\ x.op = "update" /\ x.v = uploads + 1 /\ x.copy = r.copy
      /\ ~picture => x.a = NoRow
  <2>1. CASE picture
    <3>1. r \in EditFields /\ r.op = "update" /\ r.copy \in ArticleRow /\ uploads + 1 \in Nat
      BY <1>1 DEF EditRow, FrontInv, FrontTypeOK
    <3>2. x = [r EXCEPT !.v = uploads + 1, !.pc = "unlink"]
      BY <2>1
    <3> HIDE DEF x, r
    <3>3. QED
      BY <1>1, <2>1, <3>1, <3>2 DEF EditRow, EditFields, Reading
  <2>2. CASE ~picture
    BY <2>2, FrontRows
  <2>3. QED
    BY <2>1, <2>2
<1> HIDE DEF x, row
<1>6. FrontTypeOK'
  BY <1>1, <1>2, <1>3, <1>4, <1>5 DEF FrontInv, FrontTypeOK
<1>7. item'[a] = row /\ \A b \in Articles : b # a => item'[b] = item[b] /\ newest'[b] = newest[b]
  BY <1>1, <1>2 DEF FrontInv, FrontTypeOK
<1>8. ASSUME a \notin blurred PROVE Shown(a, item[a].ext, newest[a], FilesOf(files, a)) /\ item[a] = r.copy
  BY <1>1, <1>8, AtWork DEF Midway
<1>9. ASSUME a \notin blurred, ~picture PROVE AtRest(a, item'[a], newest'[a], FilesOf(files', a))
  BY <1>2, <1>4, <1>7, <1>8, <1>9 DEF AtRest
<1>10. ASSUME a \notin blurred, picture PROVE Midway(x, item'[a], newest'[a], FilesOf(files', a))
  <2>1. \A f \in FilesOf(files, a) : f.ext = r.copy.ext
    BY <1>8, <1>10, PairOf DEF Shown
  <2>2. newest'[a] = uploads + 1
    BY <1>1, <1>2, <1>10 DEF FrontInv, FrontTypeOK
  <2>3. QED
    BY <1>2, <1>4, <1>5, <1>7, <1>10, <2>1, <2>2 DEF Midway
<1>11. NoRow \notin Articles
  BY FrontRows
<1>12. \A b \in Articles \ blurred' : a = b /\ x.a # b =>
           AtRest(b, item'[b], newest'[b], FilesOf(files', b))
  BY <1>2, <1>5, <1>9
<1>13. \A b \in Articles \ blurred' : x.a = b =>
           a = b /\ Midway(x, item'[b], newest'[b], FilesOf(files', b))
  BY <1>2, <1>5, <1>10, <1>11
<1>14. \A b \in Articles \ blurred' : a # b /\ x.a # b =>
           item'[b] = item[b] /\ newest'[b] = newest[b] /\ FilesOf(files', b) = FilesOf(files, b)
  BY <1>2, <1>7
<1> HIDE DEF a
<1>15. ASSUME NEW b \in Articles \ blurred' PROVE Treated(b, e, x)
  BY <1>2, <1>12, <1>13, <1>14 DEF Treated, a
<1>16. QED
  BY <1>2, <1>3, <1>5, <1>6, <1>15, EditStep

LEMMA RemoveRowStep == ASSUME FrontInv, NEW e \in Editors, RemoveRow(e) PROVE FrontInv'
<1> DEFINE r == edit[e]
           a == r.a
           x == [r EXCEPT !.pc = "unlink"]
<1>1. /\ r.op = "remove" /\ r.pc = "row" /\ r \in EditRow /\ a \in Articles
      /\ edit \in [Editors -> EditRow] /\ edit' = [edit EXCEPT ![e] = x]
      /\ item' = [item EXCEPT ![a] = NoRow] /\ UNCHANGED <<files, uploads, newest, blurred>>
  BY AtWork DEF RemoveRow, At, Moves, EditRow, Reading
<1>2. x \in EditRow
  BY <1>1, FrontRows DEF Reading
<1>3. x.a = a /\ x.pc = "unlink" /\ x.op = "remove" /\ x.copy = r.copy
  BY <1>1 DEF EditRow, EditFields
<1> HIDE DEF x
<1>4. FrontTypeOK'
  BY <1>1, <1>2 DEF FrontInv, FrontTypeOK
<1>5. item'[a] = NoRow /\ \A b \in Articles : b # a => item'[b] = item[b]
  BY <1>1 DEF FrontInv, FrontTypeOK
<1>6. ASSUME a \notin blurred PROVE Midway(x, item'[a], newest'[a], FilesOf(files', a))
  <2>1. Shown(a, item[a].ext, newest[a], FilesOf(files, a)) /\ item[a] = r.copy
    BY <1>1, <1>6, AtWork DEF Midway
  <2>2. \A f \in FilesOf(files, a) : f.ext = r.copy.ext
    BY <2>1, PairOf DEF Shown
  <2>3. QED
    BY <1>1, <1>3, <1>5, <2>2 DEF Midway
<1> HIDE DEF a
<1>7. ASSUME NEW b \in Articles \ blurred' PROVE Treated(b, e, x)
  BY <1>1, <1>3, <1>5, <1>6 DEF Treated, a
<1>8. QED
  BY <1>1, <1>2, <1>4, <1>7, EditStep

LEMMA UnlinkStep == ASSUME FrontInv, NEW e \in Editors, Unlink(e) PROVE FrontInv'
<1> DEFINE r == edit[e]
           a == r.a
           x == IF r.op = "update" THEN [r EXCEPT !.pc = "write"] ELSE Free
<1>1. /\ r.op \in {"update", "remove"} /\ r.pc = "unlink" /\ r \in EditRow /\ a \in Articles
      /\ edit \in [Editors -> EditRow] /\ edit' = [edit EXCEPT ![e] = x]
      /\ files' = Without(files, a, r.copy.ext)
      /\ UNCHANGED <<item, uploads, newest, blurred>>
  BY AtWork DEF Unlink, Moves, Closes, EditRow, Reading, FilesAt, Without
<1>2. x \in EditRow
  BY <1>1, FrontRows DEF Reading
<1>3. /\ r.op = "update" => x.a = a /\ x.pc = "write" /\ x.op = "update" /\ x.v = r.v
      /\ r.op = "remove" => x.a = NoRow
  BY <1>1, FrontRows DEF EditRow, EditFields
<1> HIDE DEF x
<1>4. FrontTypeOK'
  BY <1>1, <1>2 DEF FrontInv, FrontTypeOK, Without
<1>5. /\ files \in SUBSET FileRow /\ \A b : b # a => FilesOf(files', b) = FilesOf(files, b)
      /\ FilesOf(files', a) = {f \in FilesOf(files, a) : f.ext # r.copy.ext}
  <2>1. files \in SUBSET FileRow
    BY DEF FrontInv, FrontTypeOK
  <2>2. files' = Without(files, a, r.copy.ext)
    BY <1>1
  <2> HIDE DEF r, a
  <2>3. QED
    BY <2>1, <2>2, FilesWithout
<1>6. ASSUME a \notin blurred
      PROVE  /\ r.op = "update" => Midway(x, item'[a], newest'[a], FilesOf(files', a))
             /\ r.op = "remove" => AtRest(a, item'[a], newest'[a], FilesOf(files', a))
  <2>1. \A f \in FilesOf(files, a) : f.ext = r.copy.ext
    BY <1>1, <1>6, AtWork DEF Midway
  <2>2. FilesOf(files', a) = {}
    BY <1>5, <2>1
  <2>3. Midway(r, item[a], newest[a], FilesOf(files, a))
    BY <1>1, <1>6, AtWork
  <2>4. QED
    BY <1>1, <1>3, <2>2, <2>3 DEF Midway, AtRest
<1>7. NoRow \notin Articles
  BY FrontRows
<1> HIDE DEF a
<1>8. ASSUME NEW b \in Articles \ blurred' PROVE Treated(b, e, x)
  BY <1>1, <1>3, <1>5, <1>6, <1>7 DEF Treated, a
<1>9. QED
  BY <1>1, <1>2, <1>4, <1>8, EditStep

LEMMA WriteStep == ASSUME FrontInv, NEW e \in Editors, Write(e) PROVE FrontInv'
<1> DEFINE r == edit[e]
           a == r.a
<1>1. /\ r.op \in {"create", "update"} /\ r.pc = "write" /\ r \in EditRow /\ a \in Articles
      /\ edit \in [Editors -> EditRow] /\ edit' = [edit EXCEPT ![e] = Free]
      /\ files' = Rewritten(files, a, r.v)
      /\ r.v \in Nat /\ UNCHANGED <<item, uploads, newest, blurred>>
  BY AtWork DEF Write, WriteImage, Closes, EditRow, EditFields, Reading, FilesAt, Without, Rewritten
<1>2. Free \in EditRow /\ Free.a = NoRow /\ NoRow \notin Articles
  BY FrontRows
<1>3. files \in SUBSET FileRow
  BY DEF FrontInv, FrontTypeOK
<1>4. Pair(a, "webp", r.v) \subseteq FileRow
  BY <1>1, PairOf DEF Extensions
<1>5. FrontTypeOK'
  BY <1>1, <1>2, <1>4 DEF FrontInv, FrontTypeOK, Without, Rewritten
<1>6. /\ \A b : b # a => FilesOf(files', b) = FilesOf(files, b)
      /\ FilesOf(files', a) = {f \in FilesOf(files, a) : f.ext # "webp"} \cup Pair(a, "webp", r.v)
  <2>1. files' = Rewritten(files, a, r.v)
    BY <1>1
  <2> HIDE DEF r, a
  <2>2. QED
    BY <2>1, FilesRewritten
<1>7. ASSUME a \notin blurred PROVE AtRest(a, item'[a], newest'[a], FilesOf(files', a))
  <2>1. item[a] # NoRow /\ item[a].ext = "webp" /\ r.v = newest[a] /\ FilesOf(files, a) = {}
    BY <1>1, <1>7, AtWork DEF Midway
  <2>2. FilesOf(files', a) = Pair(a, "webp", newest[a])
    BY <1>6, <2>1
  <2>3. QED
    BY <1>1, <2>1, <2>2 DEF AtRest, Shown
<1> HIDE DEF a
<1>8. ASSUME NEW b \in Articles \ blurred' PROVE Treated(b, e, Free)
  BY <1>1, <1>2, <1>6, <1>7 DEF Treated, a
<1>9. QED
  BY <1>1, <1>2, <1>5, <1>8, EditStep

LEMMA AbandonStep == ASSUME FrontInv, NEW e \in Editors, Abandon(e) PROVE FrontInv'
<1>1. /\ edit' = [edit EXCEPT ![e] = Free] /\ blurred' = blurred \cup {edit[e].a}
      /\ UNCHANGED <<item, files, uploads, newest>>
  BY DEF Abandon, Closes
<1>2. Free \in EditRow /\ Free.a = NoRow /\ NoRow \notin Articles
  BY FrontRows
<1>3. FrontTypeOK'
  BY <1>1, <1>2 DEF FrontInv, FrontTypeOK
<1>4. ASSUME NEW b \in Articles \ blurred' PROVE Treated(b, e, Free)
  BY <1>1, <1>2 DEF Treated
<1>5. QED
  BY <1>1, <1>2, <1>3, <1>4, EditStep

LEMMA LoadsStep ==
    ASSUME FrontInv, NEW e \in Editors, NEW op \in {"thumb", "reprocess"}, NEW pc \in {"save", "write"},
           op = "thumb" <=> pc = "save", Loads(e, op, pc)
    PROVE  FrontInv'
<1> DEFINE r == edit[e]
           a == r.a
<1>1. PICK f \in Masters(r) : edit' = [edit EXCEPT ![e] = [r EXCEPT !.v = f.v, !.pc = pc]]
  BY DEF Loads
<1> DEFINE x == [r EXCEPT !.v = f.v, !.pc = pc]
<1>2. /\ r.op = op /\ r.pc = "row" /\ r \in EditRow /\ a \in Articles /\ edit \in [Editors -> EditRow]
      /\ UNCHANGED <<item, files, uploads, newest, blurred>> /\ edit' = [edit EXCEPT ![e] = x]
  BY <1>1, AtWork DEF Loads, At, EditRow, Reading
<1>3. f \in FilesOf(files, a) /\ f.v \in Nat
  BY DEF Masters, FilesAt, FilesOf, FrontInv, FrontTypeOK, FileRow
<1>4. x \in EditRow /\ x.a = a /\ x.op = op /\ x.pc = pc /\ x.v = f.v /\ x.copy = r.copy
  BY <1>2, <1>3 DEF EditRow, EditFields, Reading
<1> HIDE DEF x
<1>5. FrontTypeOK'
  BY <1>2, <1>4 DEF FrontInv, FrontTypeOK
<1>6. ASSUME a \notin blurred PROVE Midway(x, item'[a], newest'[a], FilesOf(files', a))
  <2>1. item[a] # NoRow /\ Shown(a, item[a].ext, newest[a], FilesOf(files, a)) /\ item[a] = r.copy
    BY <1>2, <1>6, AtWork DEF Midway
  <2>2. f.v = newest[a]
    BY <1>3, <2>1, PairOf DEF Shown
  <2>3. QED
    BY <1>2, <1>4, <2>1, <2>2 DEF Midway
<1> HIDE DEF a
<1>7. ASSUME NEW b \in Articles \ blurred' PROVE Treated(b, e, x)
  BY <1>2, <1>4, <1>6 DEF Treated, a
<1>8. QED
  BY <1>2, <1>4, <1>5, <1>7, EditStep

LEMMA ThumbSavesStep == ASSUME FrontInv, NEW e \in Editors, ThumbSaves(e) PROVE FrontInv'
<1> DEFINE r == edit[e]
           a == r.a
           ext == r.copy.ext
           thumb == [a |-> a, ext |-> ext, size |-> "thumb", v |-> r.v]
<1>1. /\ r.op = "thumb" /\ r.pc = "save" /\ r \in EditRow /\ a \in Articles /\ r.v \in Nat
      /\ edit \in [Editors -> EditRow] /\ edit' = [edit EXCEPT ![e] = Free]
      /\ files' = {f \in files : [f EXCEPT !.v = r.v] # thumb} \cup {thumb}
      /\ UNCHANGED <<item, uploads, newest, blurred>>
  BY AtWork DEF ThumbSaves, At, Closes, EditRow, EditFields, Reading
<1>2. Free \in EditRow /\ Free.a = NoRow /\ NoRow \notin Articles /\ files \in SUBSET FileRow
  BY FrontRows DEF FrontInv, FrontTypeOK
<1>3. thumb \in FileRow
  <2>1. r.copy \in ArticleRow
    BY <1>1 DEF EditRow, Reading
  <2>2. QED
    BY <1>1, <2>1 DEF FileRow, ArticleRow
<1>4. FrontTypeOK'
  BY <1>1, <1>2, <1>3 DEF FrontInv, FrontTypeOK
<1>5. ASSUME NEW f \in files
      PROVE  [f EXCEPT !.v = r.v] = thumb <=> f.a = a /\ f.ext = ext /\ f.size = "thumb"
  <2>1. f \in FileRow
    BY <1>2
  <2> HIDE DEF a, ext
  <2>2. QED
    BY <2>1 DEF FileRow
<1>6. /\ \A b : b # a => FilesOf(files', b) = FilesOf(files, b)
      /\ FilesOf(files', a) = {f \in FilesOf(files, a) : ~(f.ext = ext /\ f.size = "thumb")} \cup {thumb}
  <2>1. thumb.a = a
    OBVIOUS
  <2> HIDE DEF thumb, a, ext
  <2>2. QED
    BY <1>1, <1>5, <2>1 DEF FilesOf
<1>7. ASSUME a \notin blurred PROVE AtRest(a, item'[a], newest'[a], FilesOf(files', a))
  <2> DEFINE v == newest[a]
             master == [a |-> a, ext |-> ext, size |-> "master", v |-> v]
  <2>1. item[a] = r.copy /\ item[a] # NoRow /\ r.v = v /\ Shown(a, ext, v, FilesOf(files, a))
    <3>1. Midway(r, item[a], newest[a], FilesOf(files, a))
      BY <1>1, <1>7, AtWork
    <3>a. r.op = "thumb" /\ r.pc = "save" /\ r.a = a
      BY <1>1
    <3>2. item[a] = r.copy /\ item[a] # NoRow /\ r.v = v /\ Shown(a, item[a].ext, v, FilesOf(files, a))
      <4> HIDE DEF r, a
      <4>1. QED
        BY <3>1, <3>a DEF Midway
    <3>3. item[a].ext = ext
      BY <3>2
    <3> HIDE DEF ext
    <3>4. QED
      BY <3>2, <3>3
  <2>2. Pair(a, ext, v) = {master, thumb}
    BY <2>1 DEF Pair
  <2>3. master.size = "master" /\ thumb.size = "thumb" /\ thumb.ext = ext /\ master.ext = ext
    OBVIOUS
  <2>4. FilesOf(files, a) = {master, thumb} \/ FilesOf(files, a) = {master}
    <3> HIDE DEF master, thumb
    <3>1. QED
      BY <2>1, <2>2, <2>3 DEF Shown
  <2>5. FilesOf(files', a) = Pair(a, ext, v)
    <3> HIDE DEF master, thumb, ext, a
    <3>1. QED
      BY <1>6, <2>2, <2>3, <2>4
  <2>6. QED
    BY <1>1, <2>1, <2>5 DEF AtRest, Shown
<1> HIDE DEF a, thumb
<1>8. ASSUME NEW b \in Articles \ blurred' PROVE Treated(b, e, Free)
  BY <1>1, <1>2, <1>6, <1>7 DEF Treated, a
<1>9. QED
  BY <1>1, <1>2, <1>4, <1>8, EditStep

LEMMA ReprocessWritesStep == ASSUME FrontInv, NEW e \in Editors, ReprocessWrites(e) PROVE FrontInv'
<1> DEFINE r == edit[e]
           a == r.a
           done == r.copy.ext = "webp"
           x == IF done THEN Free ELSE [r EXCEPT !.pc = "unlink"]
<1>1. /\ r.op = "reprocess" /\ r.pc = "write" /\ r \in EditRow /\ a \in Articles /\ r.v \in Nat
      /\ edit \in [Editors -> EditRow] /\ edit' = [edit EXCEPT ![e] = x]
      /\ files' = Rewritten(files, a, r.v)
      /\ UNCHANGED <<item, uploads, newest, blurred>> /\ r.copy.ext \in Extensions
  BY AtWork DEF ReprocessWrites, At, WriteImage, Closes, Moves, EditRow, EditFields, Reading, FilesAt, Without, Rewritten, ArticleRow
<1>2. x \in EditRow
  BY <1>1, FrontRows DEF Reading
<1>3. /\ ~done => x.a = a /\ x.pc = "unlink" /\ x.op = "reprocess" /\ x.v = r.v /\ x.copy = r.copy
      /\ done => x.a = NoRow
  BY <1>1, FrontRows DEF EditRow, EditFields
<1>4. files \in SUBSET FileRow /\ NoRow \notin Articles
  BY FrontRows DEF FrontInv, FrontTypeOK
<1>5. Pair(a, "webp", r.v) \subseteq FileRow
  BY <1>1, PairOf DEF Extensions
<1> HIDE DEF x
<1>6. FrontTypeOK'
  BY <1>1, <1>2, <1>5 DEF FrontInv, FrontTypeOK, Without, Rewritten
<1>7. /\ \A b : b # a => FilesOf(files', b) = FilesOf(files, b)
      /\ FilesOf(files', a) = {f \in FilesOf(files, a) : f.ext # "webp"} \cup Pair(a, "webp", r.v)
  <2>1. files' = Rewritten(files, a, r.v)
    BY <1>1
  <2> HIDE DEF r, a
  <2>2. QED
    BY <2>1, FilesRewritten
<1>8. ASSUME a \notin blurred
      PROVE  /\ done => AtRest(a, item'[a], newest'[a], FilesOf(files', a))
             /\ ~done => Midway(x, item'[a], newest'[a], FilesOf(files', a))
  <2> DEFINE v == newest[a]
  <2>1. item[a] = r.copy /\ item[a] # NoRow /\ r.v = v /\ Shown(a, r.copy.ext, v, FilesOf(files, a))
    BY <1>1, <1>8, AtWork DEF Midway
  <2>2. \A f \in FilesOf(files, a) : f.ext = r.copy.ext
    BY <2>1, PairOf DEF Shown
  <2>3. CASE done
    <3>1. FilesOf(files', a) = Pair(a, "webp", v)
      BY <1>7, <2>1, <2>2, <2>3
    <3>2. QED
      BY <1>1, <2>1, <2>3, <3>1 DEF AtRest, Shown
  <2>4. CASE ~done
    <3>1. r.copy.ext = "jpg"
      BY <1>1, <2>4 DEF Extensions
    <3>2. {f \in FilesOf(files', a) : f.ext # "jpg"} = Pair(a, "webp", v)
      <4>1. \A f \in Pair(a, "webp", v) : f.ext = "webp"
        BY PairOf
      <4> HIDE DEF v, a, r
      <4>2. QED
        BY <1>7, <2>1, <2>2, <3>1, <4>1
    <3>3. QED
      BY <1>1, <1>3, <2>1, <2>4, <3>1, <3>2 DEF Midway
  <2>5. QED
    BY <2>3, <2>4
<1> HIDE DEF a, done
<1>9. ASSUME NEW b \in Articles \ blurred' PROVE Treated(b, e, x)
  BY <1>1, <1>3, <1>4, <1>7, <1>8 DEF Treated, a
<1>10. QED
  BY <1>1, <1>2, <1>6, <1>9, EditStep

LEMMA ReprocessRowStep == ASSUME FrontInv, NEW e \in Editors, ReprocessRow(e) PROVE FrontInv'
<1> DEFINE r == edit[e]
           a == r.a
<1>1. /\ r.op = "reprocess" /\ r.pc = "unlink" /\ r \in EditRow /\ a \in Articles /\ item[a] # NoRow
      /\ edit \in [Editors -> EditRow] /\ edit' = [edit EXCEPT ![e] = Free]
      /\ files' = Without(files, a, r.copy.ext)
      /\ item' = [item EXCEPT ![a].ext = "webp"]
      /\ UNCHANGED <<uploads, newest, blurred>>
  BY AtWork DEF ReprocessRow, At, Closes, EditRow, Reading, FilesAt, Without
<1>2. Free \in EditRow /\ Free.a = NoRow /\ NoRow \notin Articles /\ NoRow \notin ArticleRow
  BY FrontRows
<1>3. item[a] \in ArticleRow /\ files \in SUBSET FileRow
  BY <1>1 DEF FrontInv, FrontTypeOK
<1>4. [item[a] EXCEPT !.ext = "webp"] \in ArticleRow /\ [item[a] EXCEPT !.ext = "webp"].ext = "webp"
  BY <1>3 DEF ArticleRow, Extensions
<1>5. /\ item' \in [Articles -> ArticleRow \cup {NoRow}] /\ item'[a] = [item[a] EXCEPT !.ext = "webp"]
      /\ \A b \in Articles : b # a => item'[b] = item[b]
  BY <1>1, <1>4 DEF FrontInv, FrontTypeOK
<1>6. FrontTypeOK'
  BY <1>1, <1>2, <1>5 DEF FrontInv, FrontTypeOK, Without
<1>7. /\ \A b : b # a => FilesOf(files', b) = FilesOf(files, b)
      /\ FilesOf(files', a) = {f \in FilesOf(files, a) : f.ext # r.copy.ext}
  <2>1. files' = Without(files, a, r.copy.ext)
    BY <1>1
  <2> HIDE DEF r, a
  <2>2. QED
    BY <2>1, FilesWithout
<1>8. ASSUME a \notin blurred PROVE AtRest(a, item'[a], newest'[a], FilesOf(files', a))
  <2>1. /\ item[a] = r.copy /\ item[a].ext = "jpg" /\ r.v = newest[a]
        /\ {f \in FilesOf(files, a) : f.ext # "jpg"} = Pair(a, "webp", newest[a])
    BY <1>1, <1>8, AtWork DEF Midway
  <2>2. FilesOf(files', a) = Pair(a, "webp", newest[a])
    BY <1>7, <2>1
  <2>3. item'[a] # NoRow /\ item'[a].ext = "webp" /\ newest' = newest
    BY <1>1, <1>2, <1>4, <1>5
  <2>4. QED
    BY <2>2, <2>3 DEF AtRest, Shown
<1> HIDE DEF a
<1>9. ASSUME NEW b \in Articles \ blurred' PROVE Treated(b, e, Free)
  BY <1>1, <1>2, <1>5, <1>7, <1>8 DEF Treated, a
<1>10. QED
  BY <1>1, <1>2, <1>6, <1>9, EditStep

-----------------------------------------------------------------------------
(* The lines of a cart.                                                    *)

LineRow == [a : Articles, cents : Nat]

SaleOK ==
    /\ sale.state = "paid" =>
           IsFiniteSet(sale.lines) /\ sale.lines \subseteq LineRow /\ sale.total = Total(sale.lines)
    /\ LinesAddUp

(* What Stripe charges for lines is the sum of their amounts.               *)
LEMMA TotalIsSum ==
    ASSUME NEW S, IsFiniteSet(S)
    PROVE  Total(S) = SumOf([l \in S |-> l.cents], S)
<1> DEFINE f == [l \in S |-> l.cents]
           Sums(it) == it = [s \in SUBSET S |-> IF s = {} THEN 0
                                 ELSE (CHOOSE x \in s : TRUE).cents + it[s \ {CHOOSE x \in s : TRUE}]]
           it0 == CHOOSE it : Sums(it)
<1>1. Total(S) = it0[S]
  BY DEF Total, MapThenSumSet, MapThenFoldSet
<1>2. \A s \in SUBSET S : s # {} => f[Leading(s)] = (CHOOSE x \in s : TRUE).cents
  <2>1. \A s \in SUBSET S : s # {} => Leading(s) \in S
    BY DEF Leading
  <2>2. QED
    BY <2>1 DEF Leading
<1>3. ASSUME NEW it PROVE IsSum(it, f, S) <=> Sums(it)
  <2> DEFINE left == [s \in SUBSET S |-> IF s = {} THEN 0 ELSE f[Leading(s)] + it[s \ {Leading(s)}]]
             right == [s \in SUBSET S |-> IF s = {} THEN 0
                          ELSE (CHOOSE x \in s : TRUE).cents + it[s \ {CHOOSE x \in s : TRUE}]]
  <2>1. ASSUME NEW s \in SUBSET S PROVE left[s] = right[s]
    <3>1. CASE s = {}
      BY <3>1
    <3>2. CASE s # {}
      <4>1. f[Leading(s)] = (CHOOSE x \in s : TRUE).cents /\ Leading(s) = CHOOSE x \in s : TRUE
        BY <1>2, <3>2 DEF Leading
      <4> HIDE DEF f
      <4>2. QED
        BY <3>2, <4>1
    <3>3. QED
      BY <3>1, <3>2
  <2>2. left = right
    BY <2>1
  <2>3. QED
    BY <2>2 DEF IsSum
<1>4. PICK it : IsSum(it, f, S)
  BY SumExists
<1>5. Sums(it0)
  <2>1. Sums(it)
    BY <1>3, <1>4
  <2>2. QED
    BY <2>1
<1>6. IsSum(it0, f, S)
  BY <1>3, <1>5
<1> HIDE DEF f, it0
<1>7. SumOf(f, S) = it0[S]
  BY <1>6, SumIsFold
<1>8. QED
  BY <1>1, <1>7 DEF f

(* The event of a paid session: each line is booked with what it cost.      *)
LEMMA WebhookStep == ASSUME SaleOK, Webhook PROVE SaleOK'
<1> DEFINE S == sale.lines
           h == [l \in S |-> BookedLine(l)]
           B == {h[l] : l \in S}
           f == [l \in S |-> l.cents]
           g == [m \in B |-> m.cents]
<1>1. /\ sale.state = "paid" /\ IsFiniteSet(S) /\ S \subseteq LineRow /\ sale.total = Total(S)
      /\ sale' = [sale EXCEPT !.state = "booked", !.booked = {BookedLine(l) : l \in S}]
  BY DEF Webhook, SaleOK
<1>2. {BookedLine(l) : l \in S} = B
  OBVIOUS
<1>3. ASSUME NEW l \in S PROVE h[l].of = l.a /\ h[l].cents = l.cents /\ h[l].cents \in Nat
  BY <1>1 DEF BookedLine, LineRow
<1>4. ASSUME NEW l \in S, NEW m \in S, h[l] = h[m] PROVE l = m
  <2>1. l.a = m.a /\ l.cents = m.cents /\ l \in LineRow /\ m \in LineRow
    BY <1>1, <1>3, <1>4
  <2>2. QED
    BY <2>1 DEF LineRow
<1>5. IsFiniteSet(B) /\ Cardinality(B) = Cardinality(S)
  <2>1. h \in Bijection(S, B)
    <3>1. h \in [S -> B] /\ \A m \in B : \E l \in S : h[l] = m
      OBVIOUS
    <3> HIDE DEF h, B
    <3>2. QED
      BY <1>4, <3>1 DEF Bijection, Injection, Surjection, IsInjective
  <2> HIDE DEF h, B, S
  <2>2. ExistsBijection(S, B)
    BY <2>1 DEF ExistsBijection
  <2>3. QED
    BY <1>1, <2>2, FS_Bijection
<1>6. \A l \in S : f[l] \in Nat /\ g[h[l]] = f[l]
  BY <1>3
<1> HIDE DEF h, f, g, S
<1>7. SumOf(g, {h[l] : l \in S}) = SumOf(f, S)
  BY <1>1, <1>4, <1>6, SumMap
<1>8. SumOf(g, B) = Total(B) /\ SumOf(f, S) = Total(S)
  <2> HIDE DEF B
  <2>1. QED
    BY <1>1, <1>5, TotalIsSum DEF f, g
<1>9. Total(B) = sale.total
  BY <1>1, <1>7, <1>8
<1>10. /\ sale'.state = "booked" /\ sale'.booked = B /\ sale'.total = sale.total /\ sale'.lines = S
  BY <1>1, <1>2 DEF S
<1>11. QED
  BY <1>1, <1>5, <1>9, <1>10 DEF SaleOK, LinesAddUp

(* A cart's lines are the articles at their prices, and so is the total.    *)
LEMMA CartCheckoutStep == ASSUME FrontTypeOK, SaleOK, NEW cart \in Carts, CartCheckout(cart) PROVE SaleOK'
<1> DEFINE S == {[a |-> b, cents |-> item[b].price] : b \in cart}
<1>1. /\ cart \subseteq Articles /\ \A b \in cart : item[b] # NoRow
      /\ sale' = [NoSale EXCEPT !.state = "paid", !.account = stripe, !.lines = S, !.total = Total(S)]
  BY DEF CartCheckout, Carts, Offered, Present
<1>2. S \subseteq LineRow
  <2>1. \A b \in cart : item[b].price \in Nat
    BY <1>1 DEF FrontTypeOK, ArticleRow
  <2>2. QED
    BY <1>1, <2>1 DEF LineRow
<1>3. IsFiniteSet(S)
  <2> DEFINE h == [b \in cart |-> [a |-> b, cents |-> item[b].price]]
  <2>1. IsFiniteSet(cart)
    BY <1>1, ShopFrontAssumption, FS_Subset
  <2>2. h \in Surjection(cart, S)
    BY DEF Surjection
  <2> HIDE DEF h, S
  <2>3. QED
    BY <2>1, <2>2, FS_Surjection
<1> HIDE DEF S
<1>4. sale'.state = "paid" /\ sale'.lines = S /\ sale'.total = Total(S)
  BY <1>1 DEF NoSale
<1>5. QED
  BY <1>2, <1>3, <1>4 DEF SaleOK, LinesAddUp

LEMMA FrontInitially == FrontInit => FrontInv /\ SaleOK
<1> SUFFICES ASSUME FrontInit PROVE FrontInv /\ SaleOK
  OBVIOUS
<1> DEFINE chosen == CHOOSE b \in Articles : TRUE
           row == LegacyRow(Min(Prices))
<1>1. PICK old \in SUBSET {chosen} :
          /\ item = [a \in Articles |-> IF a \in old THEN row ELSE NoRow]
          /\ files = {[a |-> a, ext |-> "jpg", size |-> "master", v |-> 1] : a \in old}
  BY DEF FrontInit
<1>2. /\ edit = [e \in Editors |-> Free] /\ uploads = 1 /\ newest = [a \in Articles |-> 1]
      /\ blurred = {} /\ sale = NoSale
  BY DEF FrontInit
<1>3. old \subseteq Articles
  BY ShopFrontAssumption
<1>4. row \in ArticleRow /\ row.ext = "jpg" /\ row # NoRow
  <2>1. Min(Prices) \in Nat
    <3>1. Prices \subseteq Nat /\ Prices # {}
      BY ShopFrontAssumption
    <3>2. QED
      BY <3>1, MinOfNats
  <2>2. row \in ArticleRow /\ row.ext = "jpg"
    BY <2>1 DEF LegacyRow, ArticleRow, Extensions
  <2>3. QED
    BY <2>2, FrontRows
<1> HIDE DEF chosen, row
<1>5. files \subseteq FileRow
  BY <1>1, <1>3 DEF FileRow, Extensions
<1>6. FrontTypeOK
  BY <1>1, <1>2, <1>3, <1>4, <1>5, FrontRows DEF FrontTypeOK
<1>7. ASSUME NEW b \in Articles PROVE InOrder(b, edit, item[b], newest[b], FilesOf(files, b))
  <2>1. Requests(edit, b) = {} /\ newest[b] = 1
    BY <1>2, FrontRows DEF Requests
  <2>2. CASE b \in old
    <3>1. FilesOf(files, b) = {[a |-> b, ext |-> "jpg", size |-> "master", v |-> 1]}
      BY <1>1, <2>2 DEF FilesOf
    <3>2. {f \in Pair(b, "jpg", 1) : f.size = "master"}
              = {[a |-> b, ext |-> "jpg", size |-> "master", v |-> 1]}
      BY DEF Pair
    <3>3. item[b] = row
      BY <1>1, <2>2
    <3>4. AtRest(b, item[b], newest[b], FilesOf(files, b))
      BY <1>4, <2>1, <3>1, <3>2, <3>3 DEF AtRest, Shown
    <3>5. QED
      BY <2>1, <3>4 DEF InOrder
  <2>3. CASE b \notin old
    <3>1. FilesOf(files, b) = {} /\ item[b] = NoRow
      BY <1>1, <2>3 DEF FilesOf
    <3>2. QED
      BY <2>1, <3>1 DEF InOrder, AtRest
  <2>4. QED
    BY <2>2, <2>3
<1>8. FrontInv
  BY <1>6, <1>7 DEF FrontInv, ArticlesInOrder
<1>9. SaleOK
  BY <1>2 DEF SaleOK, LinesAddUp, NoSale
<1>10. QED
  BY <1>8, <1>9

LEMMA FrontInvariant == FrontSpec => [](FrontInv /\ SaleOK)
<1>1. FrontInv /\ SaleOK /\ [FrontNext]_frontVars => (FrontInv /\ SaleOK)'
  <2> SUFFICES ASSUME FrontInv, SaleOK, [FrontNext]_frontVars PROVE FrontInv' /\ SaleOK'
    OBVIOUS
  <2>1. ASSUME UNCHANGED <<item, files, edit, uploads, newest, blurred>> PROVE FrontInv'
    BY <2>1 DEF FrontInv, FrontTypeOK, ArticlesInOrder
  <2>2. ASSUME UNCHANGED sale PROVE SaleOK'
    BY <2>2 DEF SaleOK, LinesAddUp
  <2>3. CASE FrontEdit
    <3>1. SaleOK'
      <4>1. UNCHANGED sale
        <5>1. PICK e \in Editors :
                \/ CreateCounts(e) \/ RemoveRow(e) \/ Unlink(e) \/ Write(e) \/ Abandon(e)
                \/ ThumbLoads(e) \/ ThumbSaves(e)
                \/ ReprocessLoads(e) \/ ReprocessWrites(e) \/ ReprocessRow(e)
                \/ \E a \in Articles :
                      \/ EditReads(e, "update", a) \/ EditReads(e, "remove", a)
                      \/ ThumbReads(e, a) \/ ReprocessReads(e, a)
                      \/ \E price \in Prices : CreateRow(e, a, price, TRUE, {1})
                \/ \E c \in Changes, picture \in BOOLEAN :
                      UpdateRow(e, c.price, c.active, c.given, picture)
          BY <2>3 DEF FrontEdit
        <5>2. CASE CreateCounts(e) \/ RemoveRow(e) \/ Unlink(e) \/ Write(e) \/ Abandon(e)
          BY <5>2 DEF CreateCounts, RemoveRow, Unlink, Write, Abandon, Opens
        <5>3. CASE ThumbLoads(e) \/ ThumbSaves(e)
          BY <5>3 DEF ThumbLoads, ThumbSaves, Loads
        <5>4. CASE ReprocessLoads(e) \/ ReprocessWrites(e) \/ ReprocessRow(e)
          BY <5>4 DEF ReprocessLoads, ReprocessWrites, ReprocessRow, Loads
        <5>5. ASSUME NEW a \in Articles, NEW kind, EditReads(e, kind, a) \/ ThumbReads(e, a) \/ ReprocessReads(e, a)
              PROVE  UNCHANGED sale
          BY <5>5 DEF EditReads, ThumbReads, ReprocessReads, Opens
        <5>6. ASSUME NEW a \in Articles, NEW price \in Prices, CreateRow(e, a, price, TRUE, {1})
              PROVE  UNCHANGED sale
          BY <5>6 DEF CreateRow
        <5>7. ASSUME NEW c \in Changes, NEW picture \in BOOLEAN,
                     UpdateRow(e, c.price, c.active, c.given, picture)
              PROVE  UNCHANGED sale
          BY <5>7 DEF UpdateRow
        <5>8. QED
          BY <5>1, <5>2, <5>3, <5>4, <5>5, <5>6, <5>7
      <4>2. QED
        BY <2>2, <4>1
    <3>2. PICK e \in Editors :
              \/ CreateCounts(e)
              \/ \E a \in Articles :
                   \/ EditReads(e, "update", a) \/ EditReads(e, "remove", a)
                   \/ ThumbReads(e, a) \/ ReprocessReads(e, a)
                   \/ \E price \in Prices : CreateRow(e, a, price, TRUE, {1})
              \/ \E c \in Changes, picture \in BOOLEAN :
                   UpdateRow(e, c.price, c.active, c.given, picture)
              \/ RemoveRow(e) \/ Unlink(e) \/ Write(e) \/ Abandon(e)
              \/ ThumbLoads(e) \/ ThumbSaves(e)
              \/ ReprocessLoads(e) \/ ReprocessWrites(e) \/ ReprocessRow(e)
      BY <2>3 DEF FrontEdit
    <3>3. ASSUME NEW a \in Articles, NEW op \in Reading, EditReads(e, op, a) PROVE FrontInv'
      BY <3>3, EditReadsStep
    <3>4. ASSUME NEW a \in Articles, ThumbReads(e, a) PROVE FrontInv'
      <4>1. EditReads(e, "thumb", a) /\ "thumb" \in Reading
        BY <3>4 DEF ThumbReads, Reading
      <4>2. QED
        BY <3>3, <4>1
    <3>5. ASSUME NEW a \in Articles, ReprocessReads(e, a) PROVE FrontInv'
      <4>1. EditReads(e, "reprocess", a) /\ "reprocess" \in Reading
        BY <3>5 DEF ReprocessReads, Reading
      <4>2. QED
        BY <3>3, <4>1
    <3>6. ASSUME NEW a \in Articles, NEW price \in Prices, CreateRow(e, a, price, TRUE, {1}) PROVE FrontInv'
      BY <3>6, CreateRowStep
    <3>7. ASSUME NEW c \in Changes, NEW picture \in BOOLEAN, UpdateRow(e, c.price, c.active, c.given, picture)
          PROVE  FrontInv'
      BY <3>7, UpdateRowStep
    <3>8. ASSUME CreateCounts(e) PROVE FrontInv'
      BY <3>8, CreateCountsStep
    <3>9. ASSUME RemoveRow(e) PROVE FrontInv'
      BY <3>9, RemoveRowStep
    <3>10. ASSUME Unlink(e) PROVE FrontInv'
      BY <3>10, UnlinkStep
    <3>11. ASSUME Write(e) PROVE FrontInv'
      BY <3>11, WriteStep
    <3>12. ASSUME Abandon(e) PROVE FrontInv'
      BY <3>12, AbandonStep
    <3>13. ASSUME ThumbLoads(e) PROVE FrontInv'
      <4>1. Loads(e, "thumb", "save")
        BY <3>13 DEF ThumbLoads
      <4>2. QED
        BY <4>1, LoadsStep
    <3>14. ASSUME ReprocessLoads(e) PROVE FrontInv'
      <4>1. Loads(e, "reprocess", "write")
        BY <3>14 DEF ReprocessLoads
      <4>2. QED
        BY <4>1, LoadsStep
    <3>15. ASSUME ThumbSaves(e) PROVE FrontInv'
      BY <3>15, ThumbSavesStep
    <3>16. ASSUME ReprocessWrites(e) PROVE FrontInv'
      BY <3>16, ReprocessWritesStep
    <3>17. ASSUME ReprocessRow(e) PROVE FrontInv'
      BY <3>17, ReprocessRowStep
    <3>18. "update" \in Reading /\ "remove" \in Reading
      BY DEF Reading
    <3>19. FrontInv'
      BY <3>2, <3>3, <3>4, <3>5, <3>6, <3>7, <3>8, <3>9, <3>10, <3>11, <3>12, <3>13, <3>14, <3>15, <3>16,
         <3>17, <3>18
    <3>20. QED
      BY <3>1, <3>19
  <2>4. CASE Buying
    <3>1. FrontInv'
      BY <2>1, <2>4 DEF Buying, SetStripe, CartCheckout, Webhook
    <3>2. ASSUME NEW s, SetStripe(s) PROVE SaleOK'
      BY <2>2, <3>2 DEF SetStripe
    <3>3. FrontTypeOK
      BY DEF FrontInv
    <3>4. ASSUME NEW cart \in Carts, CartCheckout(cart) PROVE SaleOK'
      BY <3>3, <3>4, CartCheckoutStep
    <3>5. ASSUME Webhook PROVE SaleOK'
      BY <3>5, WebhookStep
    <3>6. QED
      BY <2>4, <3>1, <3>2, <3>4, <3>5 DEF Buying
  <2>5. CASE UNCHANGED frontVars
    BY <2>1, <2>2, <2>5 DEF frontVars
  <2>6. QED
    BY <2>3, <2>4, <2>5 DEF FrontNext
<1>2. QED
  BY <1>1, FrontInitially, PTL DEF FrontSpec

(* However the requests of administrators interleave, die or replace each   *)
(* other's pictures, an article whose requests never overlapped shows its   *)
(* newest picture and has no other file, and what is booked for a cart adds *)
(* up to what was charged (shop-items.service.ts, createCartCheckout and    *)
(* buildDonationLines), for any articles, prices, requests and carts.       *)
THEOREM CatalogueIsKept == FrontSpec => []CatalogueKept
<1>1. FrontInv => PicturesMatch
  <2> SUFFICES ASSUME FrontInv, NEW a \in Articles \ blurred, ~Busy(a)
      PROVE IF item[a] = NoRow THEN ~\E f \in files : f.a = a
            ELSE LET whole == Pair(a, item[a].ext, newest[a])
                     mine == {f \in files : f.a = a} IN
                 \/ mine = whole
                 \/ item[a].ext = "jpg" /\ mine = {f \in whole : f.size = "master"}
    BY DEF PicturesMatch
  <2>1. Requests(edit, a) = {}
    BY DEF Busy, Requests
  <2>2. AtRest(a, item[a], newest[a], FilesOf(files, a))
    BY <2>1 DEF FrontInv, ArticlesInOrder, InOrder
  <2>3. QED
    BY <2>2 DEF AtRest, Shown, FilesOf
<1>2. FrontInv /\ SaleOK => CatalogueKept
  BY <1>1 DEF SaleOK, CatalogueKept
<1>3. QED
  BY <1>2, FrontInvariant, PTL

=============================================================================
