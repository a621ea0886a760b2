------------------------------ MODULE Payments ------------------------------
(***************************************************************************)
(* Invoices, payments and refunds of one shop.  Two processes record       *)
(* payments in the same tables:                                            *)
(*                                                                         *)
(*   Loop     the backend's event loop, for Stripe's webhook, which then   *)
(*            enters the payment in Odoo's books;                          *)
(*   Finance  the finance MCP server, for the actions of the owner's agent *)
(*            (an invoice, a payment, a refund), called with a timeout.    *)
(*                                                                         *)
(* Each of them serves one request at a time.  A recording reads what has  *)
(* been paid and commits in a later step.  Amounts and totals are whole    *)
(* cents here and Floats of dollars there, each the one nearest to its     *)
(* cents: two of them compare as their cents do, and sums may come out a   *)
(* little off, which only matters where they meet a total exactly.         *)
(***************************************************************************)
EXTENDS Integers, FiniteSets

CONSTANTS
    MaxInvoices,    \* ids of invoices (bound)
    MaxPayments,    \* ids of payments (bound)
    MaxCalls,       \* calls of the agent to the finance server (bound)
    MaxDeliveries,  \* times Stripe delivers one event (bound)
    Intents,        \* Stripe's payment intents
    Amounts,        \* amounts that are paid or refunded
    Totals,         \* totals of invoices
    Agent           \* external_ref of a payment that is not Stripe's (NULL)

Loop == "loop"
Finance == "finance"
Procs == {Loop, Finance}
Invoices == 1 .. MaxInvoices
Payments == 1 .. MaxPayments
Calls == 1 .. MaxCalls
None == 0

ASSUME PaymentConstants ==
    /\ MaxInvoices \in Nat /\ MaxPayments \in Nat /\ MaxCalls \in Nat /\ MaxDeliveries \in Nat
    /\ Amounts \subseteq Nat \ {0} /\ Totals \subseteq Nat \ {0}
    /\ Agent \notin Intents

VARIABLES
    invoice,    \* the table invoices: status ("none" for no row) and total
    payment,    \* the table payments
    nextRow,    \* the id the next payment gets
    job,        \* the recording each process is in the middle of
    stripe,     \* the intents: what they pay, how often delivered, acknowledged or not
    odoo,       \* how many payments Odoo's books have for an intent
    call,       \* the agent's calls
    raced,      \* history: invoices with two recordings under way at once
    troubled    \* history: intents with a failed statement, call or answer

vars == <<invoice, payment, nextRow, job, stripe, odoo, call, raced, troubled>>

NoInvoice == [status |-> "none", total |-> 0]
NoPayment == [status |-> "none", invoice |-> None, amount |-> 0, refund |-> 0, ref |-> Agent, by |-> None]
Idle == [step |-> "idle", invoice |-> None, amount |-> 0, ref |-> Agent, call |-> None, covers |-> FALSE]
NoCall == [op |-> "none", invoice |-> None, amount |-> 0, target |-> None,
           state |-> "unused", answer |-> "none"]
NewIntent == [shop |-> FALSE, invoice |-> None, amount |-> 0, paid |-> FALSE, sent |-> 0, acked |-> FALSE]

PaymentsOf(v) == {k \in Payments : payment[k].status # "none" /\ payment[k].invoice = v}

\* The cents of some payments, and how many there are: the sum of the amounts.
Cents(S) == UNION {{k} \X (1 .. payment[k].amount) : k \in S}
Sum(S) == Cardinality(Cents(S))

Completed(S) == {k \in S : payment[k].status = "COMPLETED"}

\* sum(Payment.amount) of the invoice's COMPLETED payments.
PaidFor(v) == Sum(Completed(PaymentsOf(v)))

Goto(p, j) == job' = [job EXCEPT ![p] = j]

-----------------------------------------------------------------------------
(* record_payment, in either process.                                      *)

\* Mutant: the new payment is counted a second time.
CoversTwice(v, amount) == {PaidFor(v) + amount + amount >= invoice[v].total}

\* Mutant: an invoice paid to the cent stays open.
CoversMore(v, amount) == {PaidFor(v) + amount > invoice[v].total}

\* What total_paid >= inv.total may say.  The payment is not flushed yet, so the
\* query does not see it.  0.70 + 0.10 is less than 0.80: when several payments
\* make up the total to the cent, the sum of Floats may be too small.
Covers(v, amount) ==
    IF PaidFor(v) > 0 /\ PaidFor(v) + amount = invoice[v].total
    THEN BOOLEAN
    ELSE {PaidFor(v) + amount >= invoice[v].total}

\* The other process has read what was paid for v and has not committed.
UnderWay(p, v) == \E o \in Procs \ {p} : job[o].step = "commit" /\ job[o].invoice = v

\* The finance server attaches a payment without an invoice to the newest open
\* one, which it looks up in a session of its own.
Open == {v \in Invoices : invoice[v].status = "DRAFT"}
NewestOpen == {v \in Open : \A w \in Open : w <= v}

PickInvoice ==
    /\ job[Finance].step = "pick"
    /\ \E v \in IF Open = {} THEN {None} ELSE NewestOpen :
            Goto(Finance, [job[Finance] EXCEPT !.step = "read", !.invoice = v])
    /\ UNCHANGED <<invoice, payment, nextRow, stripe, odoo, call, raced, troubled>>

\* The invoice and what has been paid for it, as committed by now.
ReadPaid(p) ==
    /\ job[p].step = "read"
    /\ LET v == job[p].invoice IN
        /\ \E covers \in IF v = None THEN {FALSE} ELSE Covers(v, job[p].amount) :
                Goto(p, [job[p] EXCEPT !.step = "commit", !.covers = covers])
        /\ raced' = IF v # None /\ UnderWay(p, v) THEN raced \cup {v} ELSE raced
    /\ UNCHANGED <<invoice, payment, nextRow, stripe, odoo, call, troubled>>

\* Mutant: the caller does not look for an error in the answer.
HeardAsOk(c, a) == IF call[c].answer = "none" THEN "ok" ELSE call[c].answer

\* A caller that has given up hears no answer.
Heard(c, a) == IF call[c].answer = "none" THEN a ELSE call[c].answer

Finished(c, a) == [NoCall EXCEPT !.op = call[c].op, !.state = "finished", !.answer = a]

Answered(c, a) ==
    call' = [call EXCEPT ![c] = Finished(c, Heard(c, a))]

\* What a handler answers that has committed: session.refresh, which reads the
\* row again, is in the same try and may still raise.
Committed == {"ok", "error"}

\* One transaction: the payment, and PAID when the sum read before covers it.
\* The webhook does not look at the answer.
CommitPayment(p) ==
    /\ job[p].step = "commit"
    /\ LET j == job[p] IN
        /\ payment' = [payment EXCEPT ![nextRow] =
                [status |-> "COMPLETED", invoice |-> j.invoice, amount |-> j.amount,
                 refund |-> 0, ref |-> j.ref, by |-> j.call]]
        /\ nextRow' = nextRow + 1
        /\ invoice' = IF j.covers THEN [invoice EXCEPT ![j.invoice].status = "PAID"] ELSE invoice
        /\ IF p = Loop
           THEN Goto(p, [j EXCEPT !.step = "sync"]) /\ UNCHANGED call
           ELSE Goto(p, Idle) /\ \E a \in Committed : Answered(j.call, a)
    /\ UNCHANGED <<stripe, odoo, raced, troubled>>

\* A statement before or of the commit raises: rollback, and {"error": ...} is
\* returned, not raised.
\* The webhook does not look at the result and goes on to Odoo.
RecordingFails(p) ==
    /\ job[p].step \in {"pick", "read", "commit"}
    /\ IF p = Loop
       THEN /\ Goto(p, [job[p] EXCEPT !.step = "sync"])
            /\ troubled' = troubled \cup {job[p].ref}
            /\ UNCHANGED call
       ELSE Goto(p, Idle) /\ Answered(job[p].call, "error") /\ UNCHANGED troubled
    /\ UNCHANGED <<invoice, payment, nextRow, stripe, odoo, raced>>

-----------------------------------------------------------------------------
(* Stripe.                                                                 *)

\* Bound: every recording under way finds a free payment id.
Recording == {p \in Procs : job[p].step \in {"pick", "read", "commit"}}
PaymentsQueued == {c \in Calls : call[c].state = "queued" /\ call[c].op = "payment"}
RoomToRecord == nextRow + Cardinality(Recording) + Cardinality(PaymentsQueued) <= MaxPayments

\* A customer asks for an intent (POST /create-payment-intent, where shop and
\* invoice are optional) and pays it at Stripe.
CustomerPays(i) ==
    /\ ~stripe[i].paid
    /\ \E shop \in BOOLEAN, v \in {w \in Invoices : invoice[w].status # "none"} \cup {None},
          a \in Amounts :
        /\ ~shop => v = None
        /\ stripe' = [stripe EXCEPT ![i] = [NewIntent EXCEPT !.shop = shop, !.invoice = v,
                                                           !.amount = a, !.paid = TRUE]]
    /\ UNCHANGED <<invoice, payment, nextRow, job, odoo, call, raced, troubled>>

\* payment_intent.succeeded arrives, for the first time or again.
Webhook(i) ==
    /\ stripe[i].paid /\ ~stripe[i].acked /\ stripe[i].sent < MaxDeliveries
    /\ job[Loop] = Idle /\ RoomToRecord
    /\ IF stripe[i].shop
       THEN /\ stripe' = [stripe EXCEPT ![i].sent = @ + 1]
            /\ Goto(Loop, [Idle EXCEPT !.step = "read", !.invoice = stripe[i].invoice,
                                       !.amount = stripe[i].amount, !.ref = i])
       ELSE /\ stripe' = [stripe EXCEPT ![i].sent = @ + 1, ![i].acked = TRUE]
            /\ UNCHANGED job
    /\ UNCHANGED <<invoice, payment, nextRow, odoo, call, raced, troubled>>

\* Mutant: only payments of an invoice are entered.
EnteredIfInvoiced(j) == IF j.invoice = None THEN odoo ELSE [odoo EXCEPT ![j.ref] = @ + 1]

Entered(j) == [odoo EXCEPT ![j.ref] = @ + 1]

\* _sync_payment_to_odoo: its errors are logged.
SyncToOdoo ==
    /\ job[Loop].step = "sync"
    /\ Goto(Loop, [job[Loop] EXCEPT !.step = "ack"])
    /\ \/ odoo' = Entered(job[Loop]) /\ UNCHANGED troubled
       \/ UNCHANGED odoo /\ troubled' = troubled \cup {job[Loop].ref}
    /\ UNCHANGED <<invoice, payment, nextRow, stripe, call, raced>>

\* {"status": "ok"}, which may not reach Stripe.
Acknowledge ==
    /\ job[Loop].step = "ack"
    /\ LET i == job[Loop].ref IN
        \/ stripe' = [stripe EXCEPT ![i].acked = TRUE] /\ UNCHANGED troubled
        \/ UNCHANGED stripe /\ troubled' = troubled \cup {i}
    /\ Goto(Loop, Idle)
    /\ UNCHANGED <<invoice, payment, nextRow, odoo, call, raced>>

-----------------------------------------------------------------------------
(* The finance server and its caller.                                      *)

\* The agent waits for one answer at a time, and may ask again.
Ask(c, op, v, a, k) ==
    /\ call[c].state = "unused"
    /\ \A d \in Calls : d < c => call[d].answer # "none"
    /\ op = "payment" => RoomToRecord /\ nextRow < MaxPayments
    /\ v # None => invoice[v].status # "none"
    /\ k < nextRow
    /\ call' = [call EXCEPT ![c] = [NoCall EXCEPT !.op = op, !.invoice = v, !.amount = a,
                                                  !.target = k, !.state = "queued"]]
    /\ UNCHANGED <<invoice, payment, nextRow, job, stripe, odoo, raced, troubled>>

\* FinanceMCPClient gives up; what it has sent is served all the same.
TimeOut(c) ==
    /\ call[c].state \in {"queued", "running"} /\ call[c].answer = "none"
    /\ call' = [call EXCEPT ![c].answer = "lost"]
    /\ UNCHANGED <<invoice, payment, nextRow, job, stripe, odoo, raced, troubled>>

ServePayment(c) ==
    /\ call[c].state = "queued" /\ call[c].op = "payment" /\ job[Finance] = Idle
    /\ call' = [call EXCEPT ![c].state = "running"]
    /\ Goto(Finance, [Idle EXCEPT !.step = IF call[c].invoice = None THEN "pick" ELSE "read",
                                  !.invoice = call[c].invoice, !.amount = call[c].amount, !.call = c])
    /\ UNCHANGED <<invoice, payment, nextRow, stripe, odoo, raced, troubled>>

ServeInvoice(c) ==
    /\ call[c].state = "queued" /\ call[c].op = "invoice" /\ job[Finance] = Idle
    /\ \/ \E v \in Invoices :
            /\ invoice[v].status = "none" /\ \A w \in Invoices : w < v => invoice[w].status # "none"
            /\ invoice' = [invoice EXCEPT ![v] = [status |-> "DRAFT", total |-> call[c].amount]]
            /\ \E a \in Committed : Answered(c, a)
       \/ UNCHANGED invoice /\ Answered(c, "error")
    /\ UNCHANGED <<payment, nextRow, job, stripe, odoo, raced, troubled>>

\* Mutant: a second refund is accepted.
RefundableAgain(k) == payment[k].status \in {"COMPLETED", "PARTIALLY_REFUNDED"}

Refundable(k) == payment[k].status = "COMPLETED"

\* Mutant: a partial refund leaves the payment COMPLETED.
RefundedStatusWhole(k, a) == IF a >= payment[k].amount THEN "REFUNDED" ELSE "COMPLETED"

RefundedStatus(k, a) == IF a >= payment[k].amount THEN "REFUNDED" ELSE "PARTIALLY_REFUNDED"

\* refund_payment: nobody else updates payments, so reading and writing is one
\* step.  No amount means all of it; the invoice stays as it is.  refund is the
\* sum of what was given back; the column refund_amount has the last of it.
ServeRefund(c) ==
    /\ call[c].state = "queued" /\ call[c].op = "refund" /\ job[Finance] = Idle
    /\ LET k == call[c].target
           a == IF call[c].amount = 0 THEN payment[k].amount ELSE call[c].amount IN
        \/ /\ Refundable(k) /\ a <= payment[k].amount
           /\ payment' = [payment EXCEPT ![k].refund = @ + a, ![k].status = RefundedStatus(k, a)]
           /\ \E ans \in Committed : Answered(c, ans)
        \/ UNCHANGED payment /\ Answered(c, "error")
    /\ UNCHANGED <<invoice, nextRow, job, stripe, odoo, raced, troubled>>

-----------------------------------------------------------------------------

\* A process is restarted: open transactions roll back, Stripe and the agent
\* get no answer.
Restart(p) ==
    /\ job[p] # Idle
    /\ Goto(p, Idle)
    /\ IF p = Loop
       THEN troubled' = troubled \cup {job[p].ref} /\ UNCHANGED call
       ELSE /\ call' = [c \in Calls |-> IF call[c].state \in {"queued", "running"}
                                        THEN Finished(c, "lost")
                                        ELSE call[c]]
            /\ UNCHANGED troubled
    /\ UNCHANGED <<invoice, payment, nextRow, stripe, odoo, raced>>

Init ==
    /\ invoice \in [Invoices -> {NoInvoice} \cup [status : {"DRAFT"}, total : Totals]]
    /\ \A v, w \in Invoices : v < w /\ invoice[w] # NoInvoice => invoice[v] # NoInvoice
    /\ payment = [k \in Payments |-> NoPayment]
    /\ nextRow = 1
    /\ job = [p \in Procs |-> Idle]
    /\ stripe = [i \in Intents |-> NewIntent]
    /\ odoo = [i \in Intents |-> 0]
    /\ call = [c \in Calls |-> NoCall]
    /\ raced = {} /\ troubled = {}

AgentAsks ==
    \E c \in Calls :
        \/ \E t \in Totals : Ask(c, "invoice", None, t, None)
        \/ \E v \in Invoices \cup {None}, a \in Amounts : Ask(c, "payment", v, a, None)
        \/ \E k \in Payments, a \in Amounts \cup {0} : Ask(c, "refund", None, a, k)

Serve == \E c \in Calls : ServePayment(c) \/ ServeInvoice(c) \/ ServeRefund(c)

Record(p) == ReadPaid(p) \/ CommitPayment(p) \/ RecordingFails(p)

Next ==
    \/ \E i \in Intents : CustomerPays(i) \/ Webhook(i)
    \/ SyncToOdoo \/ Acknowledge
    \/ AgentAsks \/ Serve \/ PickInvoice
    \/ \E c \in Calls : TimeOut(c)
    \/ \E p \in Procs : Record(p) \/ Restart(p)

Spec == Init /\ [][Next]_vars

-----------------------------------------------------------------------------
(* Properties.                                                             *)

Rows == [status : {"none", "COMPLETED", "REFUNDED", "PARTIALLY_REFUNDED"},
         invoice : Invoices \cup {None}, amount : Nat, refund : Nat,
         ref : Intents \cup {Agent}, by : Calls \cup {None}]
Jobs == [step : {"idle", "pick", "read", "commit", "sync", "ack"}, invoice : Invoices \cup {None},
         amount : Nat, ref : Intents \cup {Agent}, call : Calls \cup {None}, covers : BOOLEAN]
IntentRows == [shop : BOOLEAN, invoice : Invoices \cup {None}, amount : Nat,
               paid : BOOLEAN, sent : 0 .. MaxDeliveries, acked : BOOLEAN]
Requests == [op : {"none", "invoice", "payment", "refund"}, invoice : Invoices \cup {None},
             amount : Nat, target : Payments \cup {None},
             state : {"unused", "queued", "running", "finished"},
             answer : {"none", "lost", "ok", "error"}]

TypeOK ==
    /\ invoice \in [Invoices -> [status : {"none", "DRAFT", "PAID"}, total : Nat]]
    /\ payment \in [Payments -> Rows]
    /\ nextRow \in 1 .. MaxPayments + 1
    /\ job \in [Procs -> Jobs]
    /\ stripe \in [Intents -> IntentRows]
    /\ odoo \in [Intents -> 0 .. MaxDeliveries]
    /\ call \in [Calls -> Requests]
    /\ raced \subseteq Invoices /\ troubled \subseteq Intents

\* An invoice is marked PAID only when payments that cover its total have been
\* made, however the two processes interleave (record_payment).
PaidWasCovered ==
    \A v \in Invoices : invoice[v].status = "PAID" => Sum(PaymentsOf(v)) >= invoice[v].total

\* An invoice stays open only while its payments are no more than its total and
\* none of them covers it alone, unless two of them were recorded at the same
\* time: then each misses the other (record_payment's sum).  Several payments
\* that make up the total to the cent may leave it open: their Floats may not.
CoveredIsPaid ==
    \A v \in Invoices : (invoice[v].status = "DRAFT" /\ v \notin raced) =>
        /\ PaidFor(v) <= invoice[v].total
        /\ \A k \in Completed(PaymentsOf(v)) : payment[k].amount < invoice[v].total

\* Whatever the agent asks, asks again or gives up on, no more is given back
\* of a payment than was paid (refund_payment).
RefundsFit == \A k \in Payments : payment[k].refund <= payment[k].amount

\* What the shop keeps of its payments, in cents.
Kept == UNION {{k} \X (1 .. payment[k].amount - payment[k].refund) : k \in Payments}

\* get_pos_summary, over all days.
PosTotal == Sum(Completed(Payments))

\* The day's summary never shows more money than the shop has kept (it may
\* show less: what is left of a partly refunded payment is not in it).
SummaryNeverOverstates == PosTotal <= Cardinality(Kept)

RowsOf(i) == {k \in Payments : payment[k].ref = i /\ payment[k].status # "none"}

\* Stripe's payments are recorded once and entered in Odoo once, when nothing
\* fails on the way and no acknowledgement is lost; and a payment is never
\* recorded or entered more often than it was delivered (stripe_webhook).
BooksAgree ==
    \A i \in Intents :
        /\ Cardinality(RowsOf(i)) <= stripe[i].sent /\ odoo[i] <= stripe[i].sent
        /\ (stripe[i].acked /\ stripe[i].shop /\ i \notin troubled) =>
                Cardinality(RowsOf(i)) = 1 /\ odoo[i] = 1

RowsBy(c) == {k \in Payments : payment[k].by = c}

\* A payment that the agent was told of exists once, and no call pays twice,
\* whether its caller waits or has given up (FinanceMCPClient._post).  No answer
\* and an error tell it nothing: the payment may have been committed before.
AnswersAreTrue ==
    \A c \in Calls :
        /\ Cardinality(RowsBy(c)) <= 1
        /\ (call[c].op = "payment" /\ call[c].answer = "ok") => RowsBy(c) # {}

-----------------------------------------------------------------------------
(* What the inductive invariant adds.                                      *)

\* Payments have the ids that were issued, and one is left for every recording
\* under way.
RowsAreIssued ==
    /\ \A k \in Payments : payment[k].status = "none" => payment[k] = NoPayment
    /\ \A k \in Payments : payment[k].status = "none" <=> k >= nextRow
    /\ nextRow + Cardinality(Recording) + Cardinality(PaymentsQueued) <= MaxPayments + 1

\* Invoices are paid that exist; no total is zero.
InvoicesExist ==
    /\ \A v \in Invoices : invoice[v].status = "none" =>
        /\ \A k \in Payments : payment[k].invoice # v
        /\ \A p \in Procs : job[p].invoice # v
        /\ \A c \in Calls : call[c].invoice # v
        /\ \A i \in Intents : stripe[i].invoice # v
    /\ \A v \in Invoices : invoice[v].status # "none" => invoice[v].total > 0

\* Only what has been read covers an invoice.
JobsAreWhole ==
    \A p \in Procs :
        /\ job[p].step = "idle" => job[p] = Idle
        /\ job[p].covers => job[p].invoice # None /\ job[p].step \notin {"pick", "read"}

\* The loop works for a delivery of Stripe's.
LoopDelivers ==
    /\ job[Loop].step # "pick" /\ job[Loop].call = None
    /\ job[Loop].step # "idle" =>
        LET i == job[Loop].ref IN
        i \in Intents /\ stripe[i].shop /\ stripe[i].sent > 0 /\ ~stripe[i].acked

\* The finance server works for the call that runs.
FinanceServes ==
    /\ job[Finance].step \in {"idle", "pick", "read", "commit"} /\ job[Finance].ref = Agent
    /\ job[Finance].step # "idle" =>
        LET c == job[Finance].call IN
        c \in Calls /\ call[c].state = "running" /\ call[c].op = "payment"
    /\ \A c \in Calls : call[c].state = "running" => job[Finance].call = c

JobsAreAsked == JobsAreWhole /\ LoopDelivers /\ FinanceServes

\* A recording that is about to mark its invoice has seen enough payments,
\* which never go away; one that is not has not seen more than enough, is not
\* enough alone, and nobody else's went unnoticed in the meantime.
CoverIsKnown ==
    \A p \in Procs, v \in Invoices : (job[p].step = "commit" /\ job[p].invoice = v) =>
        /\ job[p].covers => Sum(PaymentsOf(v)) + job[p].amount >= invoice[v].total
        /\ (~job[p].covers /\ v \notin raced) =>
            PaidFor(v) + job[p].amount <= invoice[v].total /\ job[p].amount < invoice[v].total
        /\ UnderWay(p, v) => v \in raced

\* Nothing is given back of a payment that counts.
CompletedIsWhole ==
    \A k \in Payments : payment[k].status \in {"none", "COMPLETED"} => payment[k].refund = 0

\* The loop is at step of a delivery of i.
At(i, steps) == job[Loop].ref = i /\ job[Loop].step \in steps

\* Each delivery has one row and one entry to give, which it gives in turn; an
\* intent without trouble is under way, or acknowledged, after its delivery.
DeliveriesAreCounted ==
    \A i \in Intents :
        /\ ~stripe[i].paid => stripe[i] = NewIntent
        /\ stripe[i].acked => stripe[i].sent > 0
        /\ Cardinality(RowsOf(i)) + (IF At(i, {"read", "commit"}) THEN 1 ELSE 0) <= stripe[i].sent
        /\ odoo[i] + (IF At(i, {"read", "commit", "sync"}) THEN 1 ELSE 0) <= stripe[i].sent
        /\ (stripe[i].shop /\ stripe[i].sent > 0 /\ i \notin troubled) =>
            /\ stripe[i].acked \/ job[Loop].ref = i
            /\ Cardinality(RowsOf(i)) = IF At(i, {"read", "commit"}) THEN 0 ELSE 1
            /\ odoo[i] = IF At(i, {"read", "commit", "sync"}) THEN 0 ELSE 1

\* A call has no payment before it is served, and no answer from the server
\* before it has finished; it asks for invoices over something and for refunds
\* of payments.
CallsAreServed ==
    \A c \in Calls :
        /\ call[c].state # "finished" => RowsBy(c) = {} /\ call[c].answer \in {"none", "lost"}
        /\ call[c].state = "unused" => call[c].answer = "none"
        /\ (call[c].state = "queued" /\ call[c].op = "invoice") => call[c].amount > 0
        /\ (call[c].state = "queued" /\ call[c].op = "refund") => call[c].target \in Payments

IInv ==
    /\ TypeOK /\ RowsAreIssued /\ InvoicesExist /\ JobsAreAsked
    /\ CoverIsKnown /\ PaidWasCovered /\ CoveredIsPaid
    /\ CompletedIsWhole /\ RefundsFit
    /\ DeliveriesAreCounted
    /\ CallsAreServed /\ AnswersAreTrue
=============================================================================
