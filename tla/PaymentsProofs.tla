---------------------------- MODULE PaymentsProofs ----------------------------
(***************************************************************************)
(* Invoices, payments and refunds, for any number of invoices, payments,   *)
(* calls and deliveries and for any amounts: what a paid invoice, a        *)
(* refund, the day's summary, the books and the answers can be relied on   *)
(* for.                                                                    *)
(***************************************************************************)
EXTENDS Payments, FiniteSetTheorems, TLAPS

-----------------------------------------------------------------------------
(* Sums.                                                                   *)

\* The cents of the payments S of a table.
CentsIn(table, S) == UNION {{k} \X (1 .. table[k].amount) : k \in S}
SumIn(table, S) == Cardinality(CentsIn(table, S))

LEMMA SumsOfNow ==
    /\ \A S : Sum(S) = SumIn(payment, S)
    /\ \A v : PaidFor(v) = SumIn(payment, Completed(PaymentsOf(v)))
BY DEF Sum, Cents, SumIn, CentsIn, PaidFor

LEMMA SumsOfNext ==
    /\ \A v : Sum(PaymentsOf(v))' = SumIn(payment', PaymentsOf(v)')
    /\ \A v : PaidFor(v)' = SumIn(payment', Completed(PaymentsOf(v))')
    /\ PosTotal' = SumIn(payment', Completed(Payments)')
BY DEF Sum, Cents, SumIn, CentsIn, PaidFor, PosTotal

LEMMA PaymentsFinite ==
    /\ IsFiniteSet(Payments) /\ \A S \in SUBSET Payments : IsFiniteSet(S)
    /\ IsFiniteSet(Calls) /\ \A S \in SUBSET Calls : IsFiniteSet(S)
<1>1. IsFiniteSet(Payments)
  BY FS_Interval, PaymentConstants DEF Payments
<1>2. IsFiniteSet(Calls)
  BY FS_Interval, PaymentConstants DEF Calls
<1> QED BY <1>1, <1>2, FS_Subset

LEMMA CentsFinite ==
    ASSUME NEW table \in [Payments -> Rows], NEW S \in SUBSET Payments
    PROVE  IsFiniteSet(CentsIn(table, S))
<1> DEFINE CentsOf(k) == {k} \X (1 .. table[k].amount)
           Parts == {CentsOf(k) : k \in S}
           f == [k \in S |-> CentsOf(k)]
<1>1. f \in Surjection(S, Parts)
  BY DEF Surjection
<1>2. IsFiniteSet(Parts)
  BY <1>1, PaymentsFinite, FS_Surjection
<1>3. \A k \in S : IsFiniteSet(CentsOf(k))
  <2> SUFFICES ASSUME NEW k \in S PROVE IsFiniteSet(CentsOf(k))
    OBVIOUS
  <2>1. table[k].amount \in Nat
    BY DEF Rows
  <2>2. IsFiniteSet(1 .. table[k].amount)
    BY <2>1, FS_Interval
  <2>3. IsFiniteSet({k})
    BY FS_Singleton
  <2> QED BY <2>2, <2>3, FS_Product
<1>4. \A T \in Parts : IsFiniteSet(T)
  BY <1>3
<1>5. IsFiniteSet(UNION Parts)
  <2> HIDE DEF Parts
  <2> QED BY <1>2, <1>4, FS_UNION
<1> QED BY <1>5 DEF CentsIn

LEMMA SumIsNat ==
    ASSUME NEW table \in [Payments -> Rows], NEW S \in SUBSET Payments
    PROVE  SumIn(table, S) \in Nat
BY CentsFinite, FS_CardinalityType DEF SumIn

\* More payments are more money.
LEMMA SumGrows ==
    ASSUME NEW table \in [Payments -> Rows], NEW T \in SUBSET Payments, NEW S \in SUBSET T
    PROVE  SumIn(table, S) <= SumIn(table, T)
<1>1. CentsIn(table, S) \in SUBSET CentsIn(table, T)
  BY DEF CentsIn
<1>2. IsFiniteSet(CentsIn(table, T))
  BY CentsFinite
<1> QED BY <1>1, <1>2, FS_Subset DEF SumIn

\* A sum is that of the amounts, whatever else changes in the rows.
LEMMA SumStays ==
    ASSUME NEW old, NEW new, NEW S, \A k \in S : new[k].amount = old[k].amount
    PROVE  SumIn(new, S) = SumIn(old, S)
<1>1. CentsIn(new, S) = CentsIn(old, S)
  BY DEF CentsIn
<1> QED BY <1>1 DEF SumIn

\* One payment more.
LEMMA SumAdds ==
    ASSUME NEW table \in [Payments -> Rows], NEW S \in SUBSET Payments, NEW n \in Payments \ S
    PROVE  SumIn(table, S \cup {n}) = SumIn(table, S) + table[n].amount
<1> DEFINE C == CentsIn(table, S)
           N == {n} \X (1 .. table[n].amount)
<1>1. table[n].amount \in Nat
  BY DEF Rows
<1>2. IsFiniteSet({n}) /\ Cardinality({n}) = 1
  BY FS_Singleton
<1>3. IsFiniteSet(1 .. table[n].amount) /\ Cardinality(1 .. table[n].amount) = table[n].amount
  BY <1>1, FS_Interval, SMTT(20)
<1>4. IsFiniteSet(N) /\ Cardinality(N) = table[n].amount
  <2>1. IsFiniteSet(N) /\ Cardinality(N) = Cardinality({n}) * Cardinality(1 .. table[n].amount)
    BY <1>2, <1>3, FS_Product
  <2> QED BY <1>1, <1>2, <1>3, <2>1
<1>5. IsFiniteSet(C) /\ Cardinality(C) \in Nat
  BY CentsFinite, FS_CardinalityType
<1>6. C \cap N = {}
  BY DEF CentsIn
<1>7. CentsIn(table, S \cup {n}) = C \cup N
  BY DEF CentsIn
<1> HIDE DEF C, N
<1>8. Cardinality(C \cup N) = Cardinality(C) + Cardinality(N) - Cardinality(C \cap N)
  BY <1>4, <1>5, FS_Union
<1>9. Cardinality(C \cap N) = 0
  BY <1>6, FS_EmptySet, Zenon
<1>10. SumIn(table, S \cup {n}) = Cardinality(C \cup N)
  BY <1>7 DEF SumIn
<1>11. SumIn(table, S) = Cardinality(C)
  BY DEF SumIn, C
<1> QED BY <1>1, <1>4, <1>5, <1>8, <1>9, <1>10, <1>11

-----------------------------------------------------------------------------
(* What a step leaves as it is.                                            *)

LEMMA JobMoves ==
    ASSUME TypeOK, NEW p \in Procs, NEW j \in Jobs, Goto(p, j)
    PROVE  /\ job' \in [Procs -> Jobs] /\ job'[p] = j
           /\ \A q \in Procs : q # p => job'[q] = job[q]
BY DEF TypeOK, Goto

LEMMA SetsFinite ==
    /\ IsFiniteSet(Recording) /\ IsFiniteSet(PaymentsQueued)
    /\ Cardinality(Recording) \in Nat /\ Cardinality(PaymentsQueued) \in Nat
<1>1. IsFiniteSet(Procs)
  <2>1. IsFiniteSet({Loop}) /\ Procs = {Loop} \cup {Finance}
    BY FS_Singleton DEF Procs
  <2> QED BY <2>1, FS_AddElement
<1>2. IsFiniteSet(Recording)
  BY <1>1, FS_Subset DEF Recording
<1>3. IsFiniteSet(PaymentsQueued)
  BY PaymentsFinite DEF PaymentsQueued
<1> QED BY <1>2, <1>3, FS_CardinalityType

\* One payment id for every recording that is, or may come, under way.
Room == nextRow + Cardinality(Recording) + Cardinality(PaymentsQueued) <= MaxPayments + 1

LEMMA RoomStays ==
    ASSUME TypeOK, Room, nextRow' = nextRow,
           Recording' \subseteq Recording, PaymentsQueued' \subseteq PaymentsQueued
    PROVE  Room'
<1>1. Cardinality(Recording)' \in Nat /\ Cardinality(Recording)' <= Cardinality(Recording)
  BY SetsFinite, FS_Subset, FS_CardinalityType
<1>2. Cardinality(PaymentsQueued)' \in Nat
      /\ Cardinality(PaymentsQueued)' <= Cardinality(PaymentsQueued)
  BY SetsFinite, FS_Subset, FS_CardinalityType
<1> QED BY <1>1, <1>2, SetsFinite, PaymentConstants DEF TypeOK, Room

\* What is known of the tables alone.
LedgerOK == PaidWasCovered /\ CoveredIsPaid /\ CompletedIsWhole /\ RefundsFit

LEMMA LedgerStays ==
    ASSUME LedgerOK, UNCHANGED <<invoice, payment>>, raced \subseteq raced'
    PROVE  LedgerOK'
<1>1. \A v : /\ Sum(PaymentsOf(v))' = Sum(PaymentsOf(v))
             /\ PaidFor(v)' = PaidFor(v)
  BY DEF Sum, Cents, PaidFor, PaymentsOf, Completed
<1>2. PaidWasCovered'
  BY <1>1 DEF LedgerOK, PaidWasCovered
<1>3. CoveredIsPaid'
  BY <1>1 DEF LedgerOK, CoveredIsPaid, PaymentsOf, Completed
<1>4. CompletedIsWhole' /\ RefundsFit'
  BY DEF LedgerOK, CompletedIsWhole, RefundsFit
<1> QED BY <1>2, <1>3, <1>4 DEF LedgerOK

\* No recording has just got as far as its commit.
LEMMA CoverStays ==
    ASSUME TypeOK, CoverIsKnown, UNCHANGED <<invoice, payment, raced>>,
           \A p \in Procs : job'[p].step = "commit" => job'[p] = job[p]
    PROVE  CoverIsKnown'
<1>1. \A v : /\ Sum(PaymentsOf(v))' = Sum(PaymentsOf(v))
             /\ PaidFor(v)' = PaidFor(v)
  BY DEF Sum, Cents, PaidFor, PaymentsOf, Completed
<1>2. \A p \in Procs, v \in Invoices : UnderWay(p, v)' => UnderWay(p, v)
  BY DEF UnderWay
<1> SUFFICES ASSUME NEW p \in Procs, NEW v \in Invoices,
                    job'[p].step = "commit", job'[p].invoice = v
             PROVE  /\ job'[p].covers => Sum(PaymentsOf(v))' + job'[p].amount >= invoice'[v].total
                    /\ (~job'[p].covers /\ v \notin raced') =>
                            PaidFor(v)' + job'[p].amount <= invoice'[v].total
                            /\ job'[p].amount < invoice'[v].total
                    /\ UnderWay(p, v)' => v \in raced'
  BY DEF CoverIsKnown
<1>3. job'[p] = job[p]
  OBVIOUS
<1> QED BY <1>1, <1>2, <1>3 DEF CoverIsKnown

\* Whoever asks or goes on to record pays an invoice that exists, if any.
LEMMA InvoicesStay ==
    ASSUME InvoicesExist, UNCHANGED <<invoice, payment>>,
           \A p \in Procs : \/ job'[p].invoice \in {job[p].invoice, None}
                            \/ invoice[job'[p].invoice].status # "none",
           \A c \in Calls : \/ call'[c].invoice \in {call[c].invoice, None}
                            \/ invoice[call'[c].invoice].status # "none",
           \A i \in Intents : \/ stripe'[i].invoice \in {stripe[i].invoice, None}
                              \/ invoice[stripe'[i].invoice].status # "none"
    PROVE  InvoicesExist'
<1> SUFFICES ASSUME NEW v \in Invoices, invoice[v].status = "none"
             PROVE  /\ \A k \in Payments : payment[k].invoice # v
                    /\ \A p \in Procs : job'[p].invoice # v
                    /\ \A c \in Calls : call'[c].invoice # v
                    /\ \A i \in Intents : stripe'[i].invoice # v
  BY DEF InvoicesExist
<1>1. v # None
  BY DEF Invoices, None
<1>2. /\ \A k \in Payments : payment[k].invoice # v
      /\ \A p \in Procs : job[p].invoice # v
      /\ \A c \in Calls : call[c].invoice # v
      /\ \A i \in Intents : stripe[i].invoice # v
  BY DEF InvoicesExist
<1> QED BY <1>1, <1>2

\* Nobody has paid or answered.
LEMMA CallsStay ==
    ASSUME CallsAreServed, AnswersAreTrue, UNCHANGED <<payment, call>>
    PROVE  CallsAreServed' /\ AnswersAreTrue'
BY DEF CallsAreServed, AnswersAreTrue, RowsBy

\* A call that the server has finished.
LEMMA AnswerGiven ==
    ASSUME TypeOK, NEW c \in Calls, NEW a \in {"lost", "ok", "error"}, Answered(c, a)
    PROVE  /\ call' \in [Calls -> Requests]
           /\ call'[c] \in [op : {call[c].op}, invoice : {None}, amount : {0}, target : {None},
                            state : {"finished"}, answer : {Heard(c, a)}]
           /\ \A d \in Calls : d # c => call'[d] = call[d]
<1> DEFINE r == Finished(c, Heard(c, a))
<1>1. r \in [op : {call[c].op}, invoice : {None}, amount : {0}, target : {None},
             state : {"finished"}, answer : {Heard(c, a)}]
  BY DEF Finished, NoCall
<1>2. Heard(c, a) \in {"lost", "ok", "error"} /\ call[c].op \in {"none", "invoice", "payment", "refund"}
  BY DEF Heard, TypeOK, Requests
<1>3. call' = [call EXCEPT ![c] = r]
  BY DEF Answered
<1> HIDE DEF r
<1>4. r \in Requests
  BY <1>1, <1>2 DEF Requests
<1> QED BY <1>1, <1>3, <1>4 DEF TypeOK

\* It is told nothing of payments, or that there was none.
LEMMA AnswersStayTrue ==
    ASSUME TypeOK, CallsAreServed, AnswersAreTrue, NEW c \in Calls, NEW a \in {"ok", "error"},
           call[c].state # "finished", call[c].op = "payment" => a = "error", Answered(c, a),
           \A k \in Payments : payment'[k].by = payment[k].by
    PROVE  CallsAreServed' /\ AnswersAreTrue'
<1>1. /\ call'[c].op = call[c].op /\ call'[c].state = "finished" /\ call'[c].answer = Heard(c, a)
      /\ \A d \in Calls : d # c => call'[d] = call[d]
  BY AnswerGiven
<1>2. \A d \in Calls : RowsBy(d)' = RowsBy(d)
  BY DEF RowsBy
<1>3. RowsBy(c) = {} /\ call[c].answer \in {"none", "lost"}
  BY DEF CallsAreServed
<1>4. CallsAreServed'
  BY <1>1, <1>2 DEF CallsAreServed
<1>5. AnswersAreTrue'
  <2> SUFFICES ASSUME NEW d \in Calls
               PROVE  /\ Cardinality(RowsBy(d))' <= 1
                      /\ (call'[d].op = "payment" /\ call'[d].answer = "ok") => RowsBy(d)' # {}
    BY DEF AnswersAreTrue
  <2>1. Cardinality(RowsBy(d))' <= 1
    BY <1>2 DEF AnswersAreTrue
  <2>2. CASE d = c
    BY <1>1, <1>2, <1>3, <2>1, <2>2 DEF Heard
  <2>3. CASE d # c
    BY <1>1, <1>2, <2>1, <2>3 DEF AnswersAreTrue
  <2> QED BY <2>2, <2>3
<1> QED BY <1>4, <1>5

LEMMA DeliveriesStay ==
    ASSUME DeliveriesAreCounted, UNCHANGED <<payment, stripe, odoo, troubled>>, job'[Loop] = job[Loop]
    PROVE  DeliveriesAreCounted'
BY DEF DeliveriesAreCounted, RowsOf, At

-----------------------------------------------------------------------------
(* Recording.                                                              *)

LEMMA IInvParts ==
    ASSUME IInv
    PROVE  /\ TypeOK /\ Room /\ LedgerOK /\ RowsAreIssued /\ InvoicesExist /\ JobsAreAsked /\ CoverIsKnown
           /\ DeliveriesAreCounted /\ CallsAreServed /\ AnswersAreTrue
BY DEF IInv, Room, LedgerOK, RowsAreIssued

LEMMA PickInvoiceKeeps ==
    ASSUME IInv, PickInvoice
    PROVE  IInv'
<1> USE IInvParts
<1>1. PICK v \in Open \cup {None} :
            Goto(Finance, [job[Finance] EXCEPT !.step = "read", !.invoice = v])
  BY DEF PickInvoice, NewestOpen
<1> DEFINE j == [job[Finance] EXCEPT !.step = "read", !.invoice = v]
<1>2. v \in Invoices \cup {None} /\ (v # None => invoice[v].status # "none")
  BY DEF Open
<1>3. job[Finance] \in Jobs /\ Finance \in Procs /\ Loop \in Procs /\ Finance # Loop
  BY DEF TypeOK, Procs, Finance, Loop
<1>4. j \in [step : {"read"}, invoice : {v}, amount : {job[Finance].amount},
             ref : {job[Finance].ref}, call : {job[Finance].call}, covers : {job[Finance].covers}]
  BY <1>3 DEF Jobs
<1>5. UNCHANGED <<invoice, payment, nextRow, stripe, odoo, call, raced, troubled>>
      /\ job[Finance].step = "pick"
  BY DEF PickInvoice
<1>6. job[Finance].covers = FALSE
  BY <1>3, <1>5 DEF JobsAreAsked, JobsAreWhole, Jobs
<1> HIDE DEF j
<1>7. j \in Jobs
  BY <1>2, <1>3, <1>4 DEF Jobs
<1>8. job' \in [Procs -> Jobs] /\ job'[Finance] = j /\ job'[Loop] = job[Loop]
  BY <1>1, <1>3, <1>7, JobMoves DEF j
<1>9. \A p \in Procs : p = Finance \/ p = Loop
  BY DEF Procs
<1>10. TypeOK'
  BY <1>5, <1>8 DEF TypeOK
<1>11. Recording' \subseteq Recording /\ PaymentsQueued' \subseteq PaymentsQueued
  BY <1>5, <1>8, <1>9 DEF Recording, PaymentsQueued
<1>12. Room'
  BY <1>5, <1>11, RoomStays
<1>13. RowsAreIssued'
  BY <1>5, <1>12 DEF RowsAreIssued, Room
<1>16. InvoicesExist'
  BY <1>2, <1>4, <1>5, <1>8, <1>9, InvoicesStay
<1>14. JobsAreAsked'
  <2>1. JobsAreWhole'
    BY <1>4, <1>6, <1>8, <1>9 DEF JobsAreAsked, JobsAreWhole
  <2>2. LoopDelivers'
    BY <1>5, <1>8 DEF JobsAreAsked, LoopDelivers
  <2>3. FinanceServes'
    BY <1>4, <1>5, <1>8 DEF JobsAreAsked, FinanceServes
  <2> QED BY <2>1, <2>2, <2>3 DEF JobsAreAsked
<1>15. CoverIsKnown'
  BY <1>4, <1>5, <1>8, <1>9, CoverStays
<1> QED BY <1>5, <1>8, <1>10, <1>13, <1>14, <1>15, <1>16, LedgerStays, CallsStay, DeliveriesStay
           DEF IInv, LedgerOK

LEMMA SumsOrdered ==
    ASSUME TypeOK, NEW v
    PROVE  /\ PaidFor(v) \in Nat /\ Sum(PaymentsOf(v)) \in Nat
           /\ PaidFor(v) <= Sum(PaymentsOf(v))
<1>1. Completed(PaymentsOf(v)) \in SUBSET PaymentsOf(v) /\ PaymentsOf(v) \in SUBSET Payments
  BY DEF Completed, PaymentsOf
<1>2. payment \in [Payments -> Rows]
  BY DEF TypeOK
<1> QED BY <1>1, <1>2, SumsOfNow, SumIsNat, SumGrows

\* The comparison of Floats comes to an answer.
LEMMA CoversSays ==
    ASSUME NEW v, NEW a
    PROVE  Covers(v, a) \subseteq BOOLEAN
<1> DEFINE exact == PaidFor(v) + a >= invoice[v].total
<1>1. {exact} \subseteq BOOLEAN
  OBVIOUS
<1> HIDE DEF exact
<1>2. Covers(v, a) = BOOLEAN \/ Covers(v, a) = {exact}
  BY Zenon DEF Covers, exact
<1> QED BY <1>1, <1>2

LEMMA ReadPaidKeeps ==
    ASSUME IInv, NEW p \in Procs, ReadPaid(p)
    PROVE  IInv'
<1> USE IInvParts
<1> DEFINE v == job[p].invoice
<1>0. PICK c \in IF v = None THEN {FALSE} ELSE Covers(v, job[p].amount) :
            Goto(p, [job[p] EXCEPT !.step = "commit", !.covers = c])
  BY DEF ReadPaid
<1> DEFINE j == [job[p] EXCEPT !.step = "commit", !.covers = c]
<1>1. /\ job[p].step = "read" /\ Goto(p, j)
      /\ raced' = IF v # None /\ UnderWay(p, v) THEN raced \cup {v} ELSE raced
      /\ UNCHANGED <<invoice, payment, nextRow, stripe, odoo, call, troubled>>
  BY <1>0 DEF ReadPaid
<1>2. job[p] \in Jobs /\ Finance \in Procs /\ Loop \in Procs /\ Finance # Loop
  BY DEF TypeOK, Procs, Finance, Loop
<1>3. j \in [step : {"commit"}, invoice : {v}, amount : {job[p].amount},
             ref : {job[p].ref}, call : {job[p].call}, covers : {c}]
  BY <1>2 DEF Jobs
<1>4. c \in BOOLEAN /\ (c => v # None)
  <2>1. CASE v = None
    BY <1>0, <2>1
  <2>2. CASE v # None
    <3>1. c \in Covers(v, job[p].amount)
      BY <1>0, <2>2
    <3> HIDE DEF v
    <3>2. Covers(v, job[p].amount) \subseteq BOOLEAN
      BY CoversSays
    <3> QED BY <2>2, <3>1, <3>2
  <2> QED BY <2>1, <2>2
<1>5. v \in Invoices \cup {None}
  BY <1>2 DEF Jobs
<1> HIDE DEF j
<1>6. j \in Jobs
  BY <1>2, <1>3, <1>4 DEF Jobs
<1>7. /\ job' \in [Procs -> Jobs] /\ job'[p] = j
      /\ \A q \in Procs : q # p => job'[q] = job[q]
  BY <1>1, <1>6, JobMoves
<1>8. raced \subseteq raced' /\ raced' \subseteq Invoices
  BY <1>1, <1>5 DEF TypeOK
<1>9. TypeOK'
  BY <1>1, <1>7, <1>8 DEF TypeOK
<1>10. RowsAreIssued'
  <2>1. Recording' \subseteq Recording /\ PaymentsQueued' \subseteq PaymentsQueued
    BY <1>1, <1>3, <1>7 DEF Recording, PaymentsQueued
  <2>2. Room'
    BY <1>1, <2>1, RoomStays
  <2> QED BY <1>1, <2>2 DEF RowsAreIssued, Room
<1>11. InvoicesExist'
  <2>1. \A q \in Procs : job'[q].invoice = job[q].invoice
    BY <1>3, <1>7
  <2> QED BY <1>1, <2>1, InvoicesStay
<1>12. JobsAreAsked'
  <2>1. JobsAreWhole'
    BY <1>3, <1>4, <1>7, ZenonT(40) DEF JobsAreAsked, JobsAreWhole
  <2>2. LoopDelivers'
    BY <1>1, <1>2, <1>3, <1>7 DEF JobsAreAsked, LoopDelivers
  <2>3. FinanceServes'
    BY <1>1, <1>2, <1>3, <1>7 DEF JobsAreAsked, FinanceServes
  <2> QED BY <2>1, <2>2, <2>3 DEF JobsAreAsked
<1>13. CoverIsKnown'
  <2>1. \A w : Sum(PaymentsOf(w))' = Sum(PaymentsOf(w)) /\ PaidFor(w)' = PaidFor(w)
    BY <1>1 DEF Sum, Cents, PaidFor, PaymentsOf, Completed
  <2> SUFFICES ASSUME NEW q \in Procs, NEW w \in Invoices,
                      job'[q].step = "commit", job'[q].invoice = w
               PROVE  /\ job'[q].covers => Sum(PaymentsOf(w))' + job'[q].amount >= invoice'[w].total
                      /\ (~job'[q].covers /\ w \notin raced') =>
                              PaidFor(w)' + job'[q].amount <= invoice'[w].total
                              /\ job'[q].amount < invoice'[w].total
                      /\ UnderWay(q, w)' => w \in raced'
    BY DEF CoverIsKnown
  <2>2. w # None
    BY DEF Invoices, None
  <2>3. CASE q = p
    <3>1. /\ w = v /\ job'[p].covers = c /\ job'[p].amount = job[p].amount
      BY <1>3, <1>7, <2>3
    <3>2. job[p].amount \in Nat /\ invoice[w].total \in Nat
      BY <1>2 DEF TypeOK, Jobs
    <3>3. /\ c => PaidFor(w) + job[p].amount >= invoice[w].total
          /\ ~c => PaidFor(w) + job[p].amount <= invoice[w].total /\ job[p].amount < invoice[w].total
      <4>1. c \in Covers(w, job[p].amount) /\ PaidFor(w) \in Nat
        BY <1>0, <2>2, <3>1, SumsOrdered
      <4>2. CASE PaidFor(w) > 0 /\ PaidFor(w) + job[p].amount = invoice[w].total
        BY <3>2, <4>1, <4>2
      <4>3. CASE ~(PaidFor(w) > 0 /\ PaidFor(w) + job[p].amount = invoice[w].total)
        <5>1. c \in {PaidFor(w) + job[p].amount >= invoice[w].total}
          BY <4>1, <4>3, Zenon DEF Covers
        <5>2. c <=> PaidFor(w) + job[p].amount >= invoice[w].total
          BY <5>1, Zenon
        <5> QED BY <3>2, <4>1, <4>3, <5>2
      <4> QED BY <4>2, <4>3
    <3>4. UnderWay(q, w)' => w \in raced'
      BY <1>1, <1>7, <2>2, <2>3, <3>1 DEF UnderWay
    <3> QED BY <1>1, <2>1, <2>3, <3>1, <3>2, <3>3, <3>4, SumsOrdered
  <2>4. CASE q # p
    <3>1. job'[q] = job[q]
      BY <1>7, <2>4
    <3>2. ASSUME UnderWay(q, w)' PROVE w \in raced'
      <4>1. CASE UnderWay(q, w)
        BY <1>8, <3>1, <4>1 DEF CoverIsKnown
      <4>2. CASE ~UnderWay(q, w)
        <5>1. job'[p].invoice = w
          BY <1>7, <3>2, <4>2 DEF UnderWay
        <5>2. w = v
          BY <1>3, <1>7, <5>1
        <5>3. UnderWay(p, v)
          BY <2>4, <3>1, <5>2 DEF UnderWay
        <5> QED BY <1>1, <2>2, <5>2, <5>3
      <4> QED BY <4>1, <4>2
    <3> QED BY <1>1, <1>8, <2>1, <3>1, <3>2 DEF CoverIsKnown
  <2> QED BY <2>3, <2>4
<1>14. DeliveriesAreCounted'
  <2>1. job'[Loop].ref = job[Loop].ref /\ (job'[Loop].step = "commit" \/ job'[Loop] = job[Loop])
        /\ (job'[Loop] = job[Loop] \/ job[Loop].step = "read")
    BY <1>1, <1>2, <1>3, <1>7
  <2>2. \A i \in Intents : /\ At(i, {"read", "commit"})' <=> At(i, {"read", "commit"})
                           /\ At(i, {"read", "commit", "sync"})' <=> At(i, {"read", "commit", "sync"})
    BY <2>1 DEF At
  <2>3. \A i \in Intents : RowsOf(i)' = RowsOf(i)
    BY <1>1 DEF RowsOf
  <2> QED BY <1>1, <2>1, <2>2, <2>3 DEF DeliveriesAreCounted
<1> QED BY <1>1, <1>8, <1>9, <1>10, <1>11, <1>12, <1>13, <1>14, LedgerStays, CallsStay
           DEF IInv, LedgerOK

\* The tables after a new payment.
LEMMA PaymentAdded ==
    ASSUME TypeOK, NEW n \in Payments, payment[n] = NoPayment,
           NEW r \in Rows, r.status = "COMPLETED", payment' = [payment EXCEPT ![n] = r]
    PROVE  /\ payment' \in [Payments -> Rows] /\ payment'[n] = r
           /\ \A k \in Payments : k # n => payment'[k] = payment[k]
           /\ \A w : w # r.invoice =>
                Sum(PaymentsOf(w))' = Sum(PaymentsOf(w)) /\ PaidFor(w)' = PaidFor(w)
           /\ /\ Sum(PaymentsOf(r.invoice))' = Sum(PaymentsOf(r.invoice)) + r.amount
              /\ PaidFor(r.invoice)' = PaidFor(r.invoice) + r.amount
           /\ \A i : RowsOf(i)' = IF i = r.ref THEN RowsOf(i) \cup {n} ELSE RowsOf(i)
           /\ \A i : n \notin RowsOf(i)
<1>1. payment \in [Payments -> Rows]
  BY DEF TypeOK
<1>2. /\ payment' \in [Payments -> Rows] /\ payment'[n] = r
      /\ \A k \in Payments : k # n => payment'[k] = payment[k]
  BY <1>1
<1>3. payment[n].status = "none"
  BY DEF NoPayment
<1>4. \A w : /\ n \notin PaymentsOf(w) /\ PaymentsOf(w) \in SUBSET Payments
             /\ Completed(PaymentsOf(w)) \in SUBSET Payments
             /\ n \notin Completed(PaymentsOf(w))
  BY <1>3 DEF PaymentsOf, Completed
<1>5. \A w, S \in SUBSET Payments : n \notin S => SumIn(payment', S) = SumIn(payment, S)
  BY <1>2, SumStays, ZenonT(40)
<1>6. \A w : w # r.invoice =>
        Sum(PaymentsOf(w))' = Sum(PaymentsOf(w)) /\ PaidFor(w)' = PaidFor(w)
  <2> SUFFICES ASSUME NEW w, w # r.invoice
               PROVE  Sum(PaymentsOf(w))' = Sum(PaymentsOf(w)) /\ PaidFor(w)' = PaidFor(w)
    OBVIOUS
  <2>1. PaymentsOf(w)' = PaymentsOf(w)
    BY <1>2, <1>3 DEF PaymentsOf
  <2>2. Completed(PaymentsOf(w))' = Completed(PaymentsOf(w))
    BY <1>2, <1>4, <2>1 DEF Completed
  <2> QED BY <1>4, <1>5, <2>1, <2>2, SumsOfNow, SumsOfNext
<1>7. /\ Sum(PaymentsOf(r.invoice))' = Sum(PaymentsOf(r.invoice)) + r.amount
      /\ PaidFor(r.invoice)' = PaidFor(r.invoice) + r.amount
  <2> DEFINE P == PaymentsOf(r.invoice)
             C == Completed(P)
  <2>1. PaymentsOf(r.invoice)' = P \cup {n}
    BY <1>2, <1>3 DEF PaymentsOf
  <2>2. Completed(PaymentsOf(r.invoice))' = C \cup {n}
    BY <1>2, <1>4, <2>1 DEF Completed
  <2>3. P \in SUBSET Payments /\ C \in SUBSET Payments /\ n \notin P /\ n \notin C
    BY <1>4
  <2>4. Sum(P) = SumIn(payment, P) /\ PaidFor(r.invoice) = SumIn(payment, C)
    BY SumsOfNow
  <2>5. /\ Sum(PaymentsOf(r.invoice))' = SumIn(payment', P \cup {n})
        /\ PaidFor(r.invoice)' = SumIn(payment', C \cup {n})
    BY <2>1, <2>2, SumsOfNext
  <2>6. SumIn(payment', P) = SumIn(payment, P) /\ SumIn(payment', C) = SumIn(payment, C)
    BY <1>5, <2>3
  <2> HIDE DEF P, C
  <2>7. SumIn(payment', P \cup {n}) = SumIn(payment', P) + payment'[n].amount
    BY <1>2, <2>3, SumAdds
  <2>8. SumIn(payment', C \cup {n}) = SumIn(payment', C) + payment'[n].amount
    BY <1>2, <2>3, SumAdds
  <2> QED BY <1>2, <2>4, <2>5, <2>6, <2>7, <2>8 DEF P
<1>8. \A i : RowsOf(i)' = IF i = r.ref THEN RowsOf(i) \cup {n} ELSE RowsOf(i)
  <2> SUFFICES ASSUME NEW i
               PROVE  RowsOf(i)' = IF i = r.ref THEN RowsOf(i) \cup {n} ELSE RowsOf(i)
    OBVIOUS
  <2>1. \A k \in Payments : k # n => (k \in RowsOf(i)' <=> k \in RowsOf(i))
    BY <1>2 DEF RowsOf
  <2>2. n \in RowsOf(i)' <=> i = r.ref
    BY <1>2 DEF RowsOf
  <2>3. n \notin RowsOf(i) /\ RowsOf(i) \subseteq Payments /\ RowsOf(i)' \subseteq Payments
    BY <1>3 DEF RowsOf
  <2> QED BY <2>1, <2>2, <2>3
<1>9. \A i : n \notin RowsOf(i)
  BY <1>3 DEF RowsOf
<1> QED BY <1>2, <1>6, <1>7, <1>8, <1>9

\* Where the recording and its call are after the commit.
LEMMA CommitGoesOn ==
    ASSUME IInv, NEW p \in Procs, CommitPayment(p)
    PROVE  /\ job' \in [Procs -> Jobs] /\ call' \in [Calls -> Requests]
           /\ \A q \in Procs : q # p => job'[q] = job[q]
           /\ job'[p].step \in {"sync", "idle"}
           /\ p = Loop => /\ job'[p] = [job[p] EXCEPT !.step = "sync"] /\ job'[p].ref = job[p].ref
                          /\ job'[p].call = job[p].call /\ job'[p].covers = job[p].covers
                          /\ job'[p].invoice = job[p].invoice /\ job'[p].step = "sync"
           /\ p = Loop => call' = call
           /\ p # Loop => /\ p = Finance /\ job'[p] = Idle /\ job[p].call \in Calls
                          /\ \E a \in Committed : Answered(job[p].call, a)
           /\ \A c \in Calls : call'[c].invoice \in {call[c].invoice, None}
<1> USE IInvParts
<1>1. job[p] \in Jobs /\ job[p].step = "commit"
  BY DEF TypeOK, CommitPayment
<1>2. CASE p = Loop
  <2> DEFINE j == [job[p] EXCEPT !.step = "sync"]
  <2>1. Goto(p, j) /\ UNCHANGED call
    BY <1>2 DEF CommitPayment
  <2>2. /\ j \in Jobs /\ j.step = "sync" /\ j.ref = job[p].ref /\ j.call = job[p].call
        /\ j.covers = job[p].covers /\ j.invoice = job[p].invoice
    BY <1>1 DEF Jobs
  <2> HIDE DEF j
  <2>3. job' \in [Procs -> Jobs] /\ job'[p] = j /\ \A q \in Procs : q # p => job'[q] = job[q]
    BY <2>1, <2>2, JobMoves
  <2> QED BY <1>2, <2>1, <2>2, <2>3 DEF TypeOK, j
<1>3. CASE p # Loop
  <2>1. PICK a \in Committed : Goto(p, Idle) /\ Answered(job[p].call, a) /\ p = Finance
    BY <1>3 DEF CommitPayment, Procs
  <2>2. Idle \in Jobs /\ Idle.step = "idle"
    BY DEF Idle, Jobs
  <2>3. job' \in [Procs -> Jobs] /\ job'[p] = Idle /\ \A q \in Procs : q # p => job'[q] = job[q]
    BY <2>1, <2>2, JobMoves
  <2>4. job[p].call \in Calls
    BY <1>1, <2>1 DEF JobsAreAsked, FinanceServes
  <2>5. /\ call' \in [Calls -> Requests]
        /\ \A c \in Calls : call'[c].invoice \in {call[c].invoice, None}
    <3>1. call' \in [Calls -> Requests] /\ call'[job[p].call].invoice = None
          /\ \A d \in Calls : d # job[p].call => call'[d] = call[d]
      BY <2>1, <2>4, AnswerGiven DEF Committed
    <3> QED BY <3>1
  <2> QED BY <1>3, <2>1, <2>2, <2>3, <2>4, <2>5
<1> QED BY <1>2, <1>3

\* The row of the commit, with the id that was left for it.
LEMMA CommitAdds ==
    ASSUME IInv, NEW p \in Procs, CommitPayment(p)
    PROVE  \E r \in Rows :
            /\ payment' = [payment EXCEPT ![nextRow] = r] /\ r.status = "COMPLETED" /\ r.refund = 0
            /\ r.invoice = job[p].invoice /\ r.amount = job[p].amount
            /\ r.ref = job[p].ref /\ r.by = job[p].call
            /\ nextRow \in Payments /\ payment[nextRow] = NoPayment
<1> USE IInvParts
<1> DEFINE r == [status |-> "COMPLETED", invoice |-> job[p].invoice, amount |-> job[p].amount,
                 refund |-> 0, ref |-> job[p].ref, by |-> job[p].call]
<1>1. job[p] \in Jobs /\ job[p].step = "commit" /\ payment' = [payment EXCEPT ![nextRow] = r]
  BY DEF TypeOK, CommitPayment
<1>2. r \in Rows
  BY <1>1 DEF Jobs, Rows
<1>3. nextRow \in Payments
  <2>1. p \in Recording
    BY <1>1 DEF Recording
  <2>2. Cardinality(Recording) # 0
    BY <2>1, SetsFinite, FS_EmptySet
  <2> QED BY <2>2, SetsFinite, PaymentConstants DEF Room, TypeOK, Payments
<1>4. payment[nextRow] = NoPayment
  BY <1>3 DEF RowsAreIssued, Payments
<1> QED BY <1>1, <1>2, <1>3, <1>4

LEMMA CommitPaymentKeeps ==
    ASSUME IInv, NEW p \in Procs, CommitPayment(p)
    PROVE  IInv'
<1> USE IInvParts
<1>2. job[p] \in Jobs /\ Finance \in Procs /\ Loop \in Procs /\ Finance # Loop
  BY DEF TypeOK, Procs, Finance, Loop
<1>3. PICK r \in Rows, n \in Payments :
            /\ payment' = [payment EXCEPT ![n] = r] /\ r.status = "COMPLETED" /\ r.refund = 0
            /\ r.invoice = job[p].invoice /\ r.amount = job[p].amount
            /\ r.ref = job[p].ref /\ r.by = job[p].call
            /\ n = nextRow /\ payment[n] = NoPayment
  BY CommitAdds
<1> DEFINE v == r.invoice
           a == r.amount
<1>1. /\ job[p].step = "commit" /\ nextRow' = n + 1
      /\ invoice' = IF job[p].covers THEN [invoice EXCEPT ![v].status = "PAID"] ELSE invoice
      /\ UNCHANGED <<stripe, odoo, raced, troubled>>
  BY <1>3 DEF CommitPayment
<1>4. /\ payment' \in [Payments -> Rows] /\ payment'[n] = r
      /\ \A k \in Payments : k # n => payment'[k] = payment[k]
      /\ \A w : w # v => Sum(PaymentsOf(w))' = Sum(PaymentsOf(w)) /\ PaidFor(w)' = PaidFor(w)
      /\ Sum(PaymentsOf(v))' = Sum(PaymentsOf(v)) + a /\ PaidFor(v)' = PaidFor(v) + a
      /\ \A i : RowsOf(i)' = IF i = r.ref THEN RowsOf(i) \cup {n} ELSE RowsOf(i)
      /\ \A i : n \notin RowsOf(i)
  BY <1>3, PaymentAdded
<1>5. a \in Nat /\ v \in Invoices \cup {None} /\ n \in Int
  BY <1>2, <1>3 DEF Jobs, TypeOK
<1>6. /\ job' \in [Procs -> Jobs] /\ call' \in [Calls -> Requests]
      /\ \A q \in Procs : q # p => job'[q] = job[q]
      /\ job'[p].step \in {"sync", "idle"}
      /\ p = Loop => /\ job'[p].ref = job[p].ref /\ job'[p].step = "sync"
                     /\ job'[p].call = job[p].call /\ job'[p].covers = job[p].covers
                     /\ job'[p].invoice = job[p].invoice
      /\ p = Loop => call' = call
      /\ p # Loop => /\ p = Finance /\ job'[p] = Idle /\ job[p].call \in Calls
                     /\ \E ans \in Committed : Answered(job[p].call, ans)
      /\ \A c \in Calls : call'[c].invoice \in {call[c].invoice, None}
  BY CommitGoesOn
<1>7. job[p].covers => v \in Invoices /\ invoice[v].status # "none"
  <2>1. job[p].covers => v # None
    BY <1>3 DEF JobsAreAsked, JobsAreWhole
  <2> QED BY <1>3, <1>5, <2>1 DEF InvoicesExist
<1>8. /\ invoice' \in [Invoices -> [status : {"none", "DRAFT", "PAID"}, total : Nat]]
      /\ \A w \in Invoices : /\ invoice'[w].total = invoice[w].total
                             /\ (w # v \/ ~job[p].covers) => invoice'[w].status = invoice[w].status
                             /\ (w = v /\ job[p].covers) => invoice'[w].status = "PAID"
  <2>1. invoice \in [Invoices -> [status : {"none", "DRAFT", "PAID"}, total : Nat]]
    BY DEF TypeOK
  <2>2. CASE job[p].covers
    BY <1>1, <1>7, <2>1, <2>2
  <2>3. CASE ~job[p].covers
    BY <1>1, <2>1, <2>3
  <2> QED BY <2>2, <2>3
<1> HIDE DEF v, a
<1>9. TypeOK'
  BY <1>1, <1>3, <1>4, <1>6, <1>8, PaymentConstants DEF TypeOK, Payments
<1>10. Room'
  <2>1. Recording' = Recording \ {p} /\ p \in Recording
    BY <1>1, <1>6 DEF Recording
  <2>2. Cardinality(Recording)' = Cardinality(Recording) - 1
    BY <2>1, SetsFinite, FS_RemoveElement
  <2>3. PaymentsQueued' \subseteq PaymentsQueued
    <3>1. CASE p = Loop
      BY <1>6, <3>1 DEF PaymentsQueued
    <3>2. CASE p # Loop
      BY <1>6, <3>2, AnswerGiven DEF PaymentsQueued, Committed
    <3> QED BY <3>1, <3>2
  <2>4. Cardinality(PaymentsQueued)' \in Nat
        /\ Cardinality(PaymentsQueued)' <= Cardinality(PaymentsQueued)
    BY <2>3, SetsFinite, FS_Subset, FS_CardinalityType
  <2> QED BY <1>1, <1>3, <1>5, <2>2, <2>4, SetsFinite, PaymentConstants DEF Room
<1>11. RowsAreIssued'
  <2> SUFFICES ASSUME NEW k \in Payments
               PROVE  /\ payment'[k].status = "none" => payment'[k] = NoPayment
                      /\ payment'[k].status = "none" <=> k >= nextRow'
    BY <1>10 DEF RowsAreIssued, Room
  <2>1. CASE k = n
    BY <1>1, <1>3, <1>4, <1>5, <2>1
  <2>2. CASE k # n
    BY <1>1, <1>3, <1>4, <1>5, <2>2 DEF RowsAreIssued, Payments
  <2> QED BY <2>1, <2>2
<1>12. InvoicesExist'
  <2> SUFFICES ASSUME NEW w \in Invoices
               PROVE  /\ invoice'[w].status = "none" =>
                        /\ \A k \in Payments : payment'[k].invoice # w
                        /\ \A q \in Procs : job'[q].invoice # w
                        /\ \A c \in Calls : call'[c].invoice # w
                        /\ \A i \in Intents : stripe'[i].invoice # w
                      /\ invoice'[w].status # "none" => invoice'[w].total > 0
    BY DEF InvoicesExist
  <2>1. invoice'[w].status = "none" <=> invoice[w].status = "none"
    BY <1>7, <1>8
  <2>2. w # None
    BY DEF Invoices, None
  <2>3. ASSUME invoice[w].status = "none"
        PROVE  /\ \A k \in Payments : payment'[k].invoice # w
               /\ \A q \in Procs : job'[q].invoice # w
               /\ \A c \in Calls : call'[c].invoice # w
               /\ \A i \in Intents : stripe'[i].invoice # w
    <3>1. v # w
      BY <1>3, <2>3 DEF InvoicesExist, v
    <3>2. \A k \in Payments : payment'[k].invoice # w
      BY <1>3, <1>4, <2>3, <3>1 DEF InvoicesExist
    <3>3. \A q \in Procs : job'[q].invoice \in {job[q].invoice, None}
      BY <1>6, <1>2 DEF Procs, Idle
    <3>4. \A q \in Procs : job'[q].invoice # w
      BY <2>2, <2>3, <3>3 DEF InvoicesExist
    <3>5. \A c \in Calls : call'[c].invoice # w
      BY <1>6, <2>2, <2>3 DEF InvoicesExist
    <3> QED BY <1>1, <2>3, <3>2, <3>4, <3>5 DEF InvoicesExist
  <2>4. invoice'[w].status # "none" => invoice'[w].total > 0
    BY <1>8, <2>1 DEF InvoicesExist
  <2> QED BY <2>1, <2>3, <2>4
<1>13. JobsAreAsked'
  <2>1. JobsAreWhole'
    <3> SUFFICES ASSUME NEW q \in Procs
                 PROVE  /\ job'[q].step = "idle" => job'[q] = Idle
                        /\ job'[q].covers => job'[q].invoice # None /\ job'[q].step \notin {"pick", "read"}
      BY DEF JobsAreWhole
    <3>1. CASE q # p
      BY <1>6, <3>1 DEF JobsAreAsked, JobsAreWhole
    <3>2. CASE q = p /\ p = Loop
      BY <1>6, <3>2 DEF JobsAreAsked, JobsAreWhole
    <3>3. CASE q = p /\ p # Loop
      BY <1>6, <3>3 DEF Idle
    <3> QED BY <3>1, <3>2, <3>3
  <2>2. LoopDelivers'
    BY <1>1, <1>2, <1>6 DEF JobsAreAsked, LoopDelivers
  <2>3. FinanceServes'
    <3>1. CASE p = Loop
      BY <1>2, <1>6, <3>1 DEF JobsAreAsked, FinanceServes
    <3>2. CASE p # Loop
      <4>1. \A c \in Calls : c # job[p].call => call'[c] = call[c]
        BY <1>6, <3>2, AnswerGiven DEF Committed
      <4>2. call'[job[p].call].state = "finished"
        BY <1>6, <3>2, AnswerGiven DEF Committed
      <4>3. \A c \in Calls : call'[c].state # "running"
        BY <1>6, <3>2, <4>1, <4>2 DEF JobsAreAsked, FinanceServes
      <4> QED BY <1>6, <3>2, <4>3 DEF FinanceServes, Idle
    <3> QED BY <3>1, <3>2
  <2> QED BY <2>1, <2>2, <2>3 DEF JobsAreAsked
<1>14. LedgerOK'
  <2>1. PaidWasCovered'
    <3> SUFFICES ASSUME NEW w \in Invoices, invoice'[w].status = "PAID"
                 PROVE  Sum(PaymentsOf(w))' >= invoice'[w].total
      BY DEF PaidWasCovered
    <3>1. Sum(PaymentsOf(w)) \in Nat /\ invoice[w].total \in Nat
      BY SumsOrdered DEF TypeOK
    <3>2. CASE w = v /\ job[p].covers
      <4>1. Sum(PaymentsOf(w)) + a >= invoice[w].total
        BY <1>1, <1>3, <3>2 DEF CoverIsKnown, v, a
      <4> QED BY <1>4, <1>8, <3>2, <4>1
    <3>3. CASE ~(w = v /\ job[p].covers)
      <4>1. Sum(PaymentsOf(w)) >= invoice[w].total
        BY <1>8, <3>3 DEF LedgerOK, PaidWasCovered
      <4>2. Sum(PaymentsOf(w))' \in {Sum(PaymentsOf(w)), Sum(PaymentsOf(w)) + a}
        BY <1>4
      <4> QED BY <1>5, <1>8, <3>1, <4>1, <4>2
    <3> QED BY <3>2, <3>3
  <2>2. CoveredIsPaid'
    <3> SUFFICES ASSUME NEW w \in Invoices, invoice'[w].status = "DRAFT", w \notin raced
                 PROVE  /\ PaidFor(w)' <= invoice[w].total
                        /\ \A k \in Payments : (payment'[k].status = "COMPLETED" /\ payment'[k].invoice = w) =>
                                payment'[k].amount < invoice[w].total
      BY <1>1, <1>8 DEF CoveredIsPaid, Completed, PaymentsOf
    <3>1. invoice[w].status = "DRAFT" /\ ~(w = v /\ job[p].covers)
      BY <1>8
    <3>2. /\ PaidFor(w) <= invoice[w].total
          /\ \A k \in Payments : (payment[k].status = "COMPLETED" /\ payment[k].invoice = w) =>
                payment[k].amount < invoice[w].total
      BY <3>1 DEF LedgerOK, CoveredIsPaid, Completed, PaymentsOf
    <3>3. w = v => PaidFor(w) + a <= invoice[w].total /\ a < invoice[w].total
      BY <1>1, <1>3, <3>1 DEF CoverIsKnown, v, a
    <3>4. PaidFor(w)' <= invoice[w].total
      BY <1>4, <3>2, <3>3
    <3>5. ASSUME NEW k \in Payments, payment'[k].status = "COMPLETED", payment'[k].invoice = w
          PROVE  payment'[k].amount < invoice[w].total
      <4>1. CASE k = n
        BY <1>4, <3>3, <3>5, <4>1 DEF v, a
      <4>2. CASE k # n
        BY <1>4, <3>2, <3>5, <4>2
      <4> QED BY <4>1, <4>2
    <3> QED BY <3>4, <3>5
  <2>3. CompletedIsWhole' /\ RefundsFit'
    <3>1. \A k \in Payments : k = n \/ payment'[k] = payment[k]
      BY <1>4
    <3>2. payment'[n].refund = 0 /\ payment'[n].amount \in Nat
      BY <1>3, <1>4, <1>5 DEF a
    <3>3. CompletedIsWhole'
      BY <3>1, <3>2 DEF LedgerOK, CompletedIsWhole
    <3>4. RefundsFit'
      <4> SUFFICES ASSUME NEW k \in Payments PROVE payment'[k].refund <= payment'[k].amount
        BY DEF RefundsFit
      <4>1. CASE k = n
        BY <3>2, <4>1
      <4>2. CASE k # n
        BY <3>1, <4>2 DEF LedgerOK, RefundsFit
      <4> QED BY <4>1, <4>2
    <3> QED BY <3>3, <3>4
  <2> QED BY <2>1, <2>2, <2>3 DEF LedgerOK
<1>15. CoverIsKnown'
  <2> SUFFICES ASSUME NEW q \in Procs, NEW w \in Invoices,
                      job'[q].step = "commit", job'[q].invoice = w
               PROVE  /\ job'[q].covers => Sum(PaymentsOf(w))' + job'[q].amount >= invoice'[w].total
                      /\ (~job'[q].covers /\ w \notin raced') =>
                              PaidFor(w)' + job'[q].amount <= invoice'[w].total
                              /\ job'[q].amount < invoice'[w].total
                      /\ UnderWay(q, w)' => w \in raced'
    BY DEF CoverIsKnown
  <2>1. q # p /\ job'[q] = job[q]
    BY <1>6
  <2>2. job[q].amount \in Nat /\ invoice[w].total \in Nat
    BY DEF TypeOK, Jobs
  <2>3. UnderWay(q, w)' => UnderWay(q, w)
    BY <1>6 DEF UnderWay
  <2>4. w = v => w \in raced
    <3>1. w = v => UnderWay(q, w)
      BY <1>1, <1>3, <2>1 DEF UnderWay, v
    <3> QED BY <2>1, <3>1 DEF CoverIsKnown
  <2>5. /\ job[q].covers => Sum(PaymentsOf(w)) + job[q].amount >= invoice[w].total
        /\ (~job[q].covers /\ w \notin raced) =>
            PaidFor(w) + job[q].amount <= invoice[w].total /\ job[q].amount < invoice[w].total
        /\ UnderWay(q, w) => w \in raced
    BY <2>1 DEF CoverIsKnown
  <2>6. Sum(PaymentsOf(w)) \in Nat
    BY SumsOrdered
  <2>7. Sum(PaymentsOf(w))' \in {Sum(PaymentsOf(w)), Sum(PaymentsOf(w)) + a}
    BY <1>4
  <2>8. job'[q].covers => Sum(PaymentsOf(w))' + job'[q].amount >= invoice'[w].total
    BY <1>5, <1>8, <2>1, <2>2, <2>5, <2>6, <2>7
  <2>9. (~job'[q].covers /\ w \notin raced') =>
            PaidFor(w)' + job'[q].amount <= invoice'[w].total /\ job'[q].amount < invoice'[w].total
    BY <1>1, <1>4, <1>8, <2>1, <2>4, <2>5
  <2> QED BY <1>1, <2>3, <2>5, <2>8, <2>9
<1>16. DeliveriesAreCounted'
  <2> SUFFICES ASSUME NEW i \in Intents
               PROVE  /\ ~stripe[i].paid => stripe[i] = NewIntent
                      /\ Cardinality(RowsOf(i)') + (IF At(i, {"read", "commit"})' THEN 1 ELSE 0)
                            <= stripe[i].sent
                      /\ odoo[i] + (IF At(i, {"read", "commit", "sync"})' THEN 1 ELSE 0)
                            <= stripe[i].sent
                      /\ (stripe[i].shop /\ stripe[i].sent > 0 /\ i \notin troubled) =>
                          /\ stripe[i].acked \/ job'[Loop].ref = i
                          /\ Cardinality(RowsOf(i)') = IF At(i, {"read", "commit"})' THEN 0 ELSE 1
                          /\ odoo[i] = IF At(i, {"read", "commit", "sync"})' THEN 0 ELSE 1
    BY <1>1 DEF DeliveriesAreCounted
  <2>1. job'[Loop].ref = job[Loop].ref
    BY <1>2, <1>6
  <2>2. At(i, {"read", "commit", "sync"})' <=> At(i, {"read", "commit", "sync"})
    BY <1>1, <1>2, <1>6 DEF At
  <2>3. RowsOf(i) \in SUBSET Payments /\ IsFiniteSet(RowsOf(i))
    BY PaymentsFinite DEF RowsOf
  <2>4. Cardinality(RowsOf(i)) \in Nat
    BY <2>3, FS_CardinalityType
  <2>5. CASE i = r.ref
    <3>1. p = Loop
      BY <1>2, <1>3, <2>5, PaymentConstants DEF JobsAreAsked, FinanceServes, Procs
    <3>2. At(i, {"read", "commit"}) /\ ~At(i, {"read", "commit"})'
      BY <1>1, <1>3, <1>6, <2>5, <3>1 DEF At
    <3>3. Cardinality(RowsOf(i)') = Cardinality(RowsOf(i)) + 1
      BY <1>4, <2>3, <2>5, FS_AddElement
    <3> QED BY <2>1, <2>2, <2>4, <3>2, <3>3 DEF DeliveriesAreCounted
  <2>6. CASE i # r.ref
    <3>1. At(i, {"read", "commit"})' <=> At(i, {"read", "commit"})
      BY <1>3, <1>6, <2>1, <2>6, <1>2 DEF At
    <3>2. RowsOf(i)' = RowsOf(i)
      BY <1>4, <2>6
    <3> QED BY <2>1, <2>2, <3>1, <3>2 DEF DeliveriesAreCounted
  <2> QED BY <2>5, <2>6
<1>17. CallsAreServed' /\ AnswersAreTrue'
  <2>1. CASE p = Loop
    <3>1. r.by \notin Calls
      BY <1>3, <2>1 DEF JobsAreAsked, LoopDelivers, Calls, None
    <3>2. \A c \in Calls : RowsBy(c)' = RowsBy(c)
      BY <1>3, <1>4, <3>1 DEF RowsBy, NoPayment, Calls, None
    <3> QED BY <1>6, <2>1, <3>2 DEF CallsAreServed, AnswersAreTrue
  <2>2. CASE p # Loop
    <3> DEFINE c == r.by
    <3>1. /\ c \in Calls /\ call[c].state = "running" /\ call[c].op = "payment"
          /\ \E ans \in Committed : Answered(c, ans)
      BY <1>1, <1>3, <1>6, <2>2 DEF JobsAreAsked, FinanceServes
    <3>2. call'[c].state = "finished" /\ \A d \in Calls : d # c => call'[d] = call[d]
      BY <3>1, AnswerGiven DEF Committed
    <3>4. RowsBy(c)' = {n}
      BY <1>3, <1>4, <3>1 DEF RowsBy, CallsAreServed
    <3>5. \A d \in Calls : d # c => RowsBy(d)' = RowsBy(d)
      BY <1>3, <1>4 DEF RowsBy, NoPayment, Calls, None
    <3>6. Cardinality({n}) = 1
      BY FS_Singleton
    <3> HIDE DEF c
    <3>7. CallsAreServed'
      BY <3>2, <3>5 DEF CallsAreServed
    <3>8. AnswersAreTrue'
      <4> SUFFICES ASSUME NEW d \in Calls
                   PROVE  /\ Cardinality(RowsBy(d)') <= 1
                          /\ (call'[d].op = "payment" /\ call'[d].answer = "ok") => RowsBy(d)' # {}
        BY DEF AnswersAreTrue
      <4>1. CASE d = c
        BY <3>4, <3>6, <4>1
      <4>2. CASE d # c
        BY <3>2, <3>5, <4>2 DEF AnswersAreTrue
      <4> QED BY <4>1, <4>2
    <3> QED BY <3>7, <3>8
  <2> QED BY <2>1, <2>2
<1> QED BY <1>9, <1>11, <1>12, <1>13, <1>14, <1>15, <1>16, <1>17 DEF IInv, LedgerOK

-----------------------------------------------------------------------------
(* Stripe, and what ends a recording.                                      *)

LEMMA Processes == Loop \in Procs /\ Finance \in Procs /\ Loop # Finance
                   /\ \A p \in Procs : p = Loop \/ p = Finance
BY DEF Procs, Loop, Finance

\* A step of the loop that has not to do with the tables.
LEMMA LoopGoesOn ==
    ASSUME IInv, NEW j \in Jobs, Goto(Loop, j), UNCHANGED <<invoice, payment, nextRow, call, raced>>,
           TypeOK', Room', LoopDelivers', DeliveriesAreCounted',
           j.step # "commit", j.step = "idle" => j = Idle,
           j.covers => j.invoice # None /\ j.step \notin {"pick", "read"},
           j.invoice \in {job[Loop].invoice, None} \/ invoice[j.invoice].status # "none",
           \A i \in Intents : stripe'[i].invoice = stripe[i].invoice
    PROVE  IInv'
<1> USE IInvParts, Processes
<1>1. job'[Loop] = j /\ job'[Finance] = job[Finance]
  BY JobMoves
<1>2. RowsAreIssued'
  BY DEF RowsAreIssued, Room
<1>3. InvoicesExist'
  BY <1>1, InvoicesStay
<1>4. JobsAreAsked'
  <2>1. JobsAreWhole'
    BY <1>1 DEF JobsAreAsked, JobsAreWhole
  <2>2. FinanceServes'
    BY <1>1 DEF JobsAreAsked, FinanceServes
  <2> QED BY <2>1, <2>2 DEF JobsAreAsked
<1>5. CoverIsKnown'
  BY <1>1, CoverStays
<1> QED BY <1>2, <1>3, <1>4, <1>5, LedgerStays, CallsStay DEF IInv, LedgerOK

\* A step of the finance server, or of its caller, before any commit.
LEMMA FinanceGoesOn ==
    ASSUME IInv, NEW j \in Jobs, Goto(Finance, j),
           UNCHANGED <<invoice, payment, nextRow, stripe, odoo, raced, troubled>>,
           call' \in [Calls -> Requests], Room', FinanceServes', CallsAreServed', AnswersAreTrue',
           j.step = "commit" => j = job[Finance], j.step = "idle" => j = Idle,
           j.covers => j.invoice # None /\ j.step \notin {"pick", "read"},
           j.invoice \in {job[Finance].invoice, None} \/ invoice[j.invoice].status # "none",
           \A c \in Calls : \/ call'[c].invoice \in {call[c].invoice, None}
                            \/ invoice[call'[c].invoice].status # "none"
    PROVE  IInv'
<1> USE IInvParts, Processes
<1>1. job' \in [Procs -> Jobs] /\ job'[Finance] = j /\ job'[Loop] = job[Loop]
  BY JobMoves
<1>2. TypeOK'
  BY <1>1 DEF TypeOK
<1>3. RowsAreIssued'
  BY DEF RowsAreIssued, Room
<1>4. InvoicesExist'
  BY <1>1, InvoicesStay
<1>5. JobsAreAsked'
  <2>1. JobsAreWhole'
    BY <1>1 DEF JobsAreAsked, JobsAreWhole
  <2>2. LoopDelivers'
    BY <1>1 DEF JobsAreAsked, LoopDelivers
  <2> QED BY <2>1, <2>2 DEF JobsAreAsked
<1>6. CoverIsKnown'
  BY <1>1, CoverStays
<1> QED BY <1>1, <1>2, <1>3, <1>4, <1>5, <1>6, LedgerStays, DeliveriesStay DEF IInv, LedgerOK

\* The loop is done with a delivery, or has got one step further with it.
LEMMA JobsHave ==
    /\ Idle \in Jobs /\ Idle.step = "idle" /\ Idle.call = None /\ Idle.covers = FALSE
    /\ Idle.invoice = None /\ Idle.ref = Agent
BY DEF Idle, Jobs

LEMMA JobStep ==
    ASSUME NEW j \in Jobs, NEW step \in {"idle", "pick", "read", "commit", "sync", "ack"}
    PROVE  /\ [j EXCEPT !.step = step] \in Jobs /\ [j EXCEPT !.step = step].step = step
           /\ [j EXCEPT !.step = step].call = j.call /\ [j EXCEPT !.step = step].covers = j.covers
           /\ [j EXCEPT !.step = step].invoice = j.invoice /\ [j EXCEPT !.step = step].ref = j.ref
BY DEF Jobs

LEMMA CountsAreNats ==
    ASSUME TypeOK, NEW i \in Intents
    PROVE  /\ Cardinality(RowsOf(i)) \in Nat /\ odoo[i] \in Nat
           /\ stripe[i] \in IntentRows /\ stripe[i].sent \in Nat
<1>1. IsFiniteSet(RowsOf(i))
  BY PaymentsFinite DEF RowsOf
<1>2. Cardinality(RowsOf(i)) \in Nat
  BY <1>1, FS_CardinalityType
<1>3. stripe[i] \in IntentRows /\ odoo[i] \in 0 .. MaxDeliveries
  BY DEF TypeOK
<1>4. stripe[i].sent \in 0 .. MaxDeliveries
  BY <1>3 DEF IntentRows
<1> QED BY <1>2, <1>3, <1>4, PaymentConstants

\* A delivery in trouble.
LEMMA LoopFails ==
    ASSUME IInv, NEW step \in {"sync", "ack", "idle"}, job[Loop].step # "idle",
           step = "sync" => job[Loop].step \in {"read", "commit"},
           step = "ack" => job[Loop].step = "sync",
           Goto(Loop, IF step = "idle" THEN Idle ELSE [job[Loop] EXCEPT !.step = step]),
           troubled' = troubled \cup {job[Loop].ref},
           UNCHANGED <<invoice, payment, nextRow, stripe, odoo, call, raced>>
    PROVE  IInv'
<1> USE IInvParts, Processes
<1>1. PICK j : j = IF step = "idle" THEN Idle ELSE [job[Loop] EXCEPT !.step = step]
  OBVIOUS
<1>2. job[Loop] \in Jobs
  BY DEF TypeOK
<1>3. /\ j \in Jobs /\ j.step = step /\ j.call = None /\ (j.covers => step # "idle" /\ job[Loop].covers)
      /\ j.invoice \in {job[Loop].invoice, None} /\ (step # "idle" => j.invoice = job[Loop].invoice)
      /\ (step # "idle" => j.ref = job[Loop].ref) /\ (step = "idle" => j = Idle)
  <2>1. job[Loop].call = None
    BY DEF JobsAreAsked, LoopDelivers
  <2>2. CASE step = "idle"
    BY <1>1, <2>2, JobsHave
  <2>3. CASE step # "idle"
    <3> DEFINE k == [job[Loop] EXCEPT !.step = step]
    <3>1. step \in {"idle", "pick", "read", "commit", "sync", "ack"}
      OBVIOUS
    <3>2. k \in Jobs /\ k.step = step
      BY <1>2, <3>1, JobStep
    <3>3. /\ k.call = job[Loop].call /\ k.covers = job[Loop].covers
          /\ k.invoice = job[Loop].invoice /\ k.ref = job[Loop].ref
      BY <1>2, JobStep
    <3>4. j = k
      BY <1>1, <2>3
    <3> HIDE DEF k
    <3> QED BY <2>1, <2>3, <3>2, <3>3, <3>4
  <2> QED BY <2>2, <2>3
<1>4. Goto(Loop, j) /\ job' \in [Procs -> Jobs] /\ job'[Loop] = j /\ job'[Finance] = job[Finance]
  BY <1>1, <1>3, JobMoves
<1>5. job[Loop].ref \in Intents
  BY DEF JobsAreAsked, LoopDelivers
<1>6. TypeOK'
  BY <1>4, <1>5 DEF TypeOK
<1>7. Room'
  <2>1. Recording' \subseteq Recording /\ PaymentsQueued' \subseteq PaymentsQueued
    BY <1>3, <1>4 DEF Recording, PaymentsQueued
  <2> QED BY <2>1, RoomStays
<1>8. LoopDelivers'
  BY <1>3, <1>4 DEF LoopDelivers, JobsAreAsked
<1>9. DeliveriesAreCounted'
  <2> SUFFICES ASSUME NEW i \in Intents
               PROVE  /\ ~stripe[i].paid => stripe[i] = NewIntent
                      /\ Cardinality(RowsOf(i)) + (IF At(i, {"read", "commit"})' THEN 1 ELSE 0)
                            <= stripe[i].sent
                      /\ odoo[i] + (IF At(i, {"read", "commit", "sync"})' THEN 1 ELSE 0)
                            <= stripe[i].sent
                      /\ (stripe[i].shop /\ stripe[i].sent > 0 /\ i \notin troubled') =>
                          /\ stripe[i].acked \/ job'[Loop].ref = i
                          /\ Cardinality(RowsOf(i)) = IF At(i, {"read", "commit"})' THEN 0 ELSE 1
                          /\ odoo[i] = IF At(i, {"read", "commit", "sync"})' THEN 0 ELSE 1
    BY DEF DeliveriesAreCounted, RowsOf
  <2>1. Cardinality(RowsOf(i)) \in Nat /\ odoo[i] \in Nat /\ stripe[i].sent \in Nat
    BY CountsAreNats
  <2>2. At(i, {"read", "commit"})' => At(i, {"read", "commit"})
    BY <1>3, <1>4 DEF At
  <2>3. At(i, {"read", "commit", "sync"})' => At(i, {"read", "commit", "sync"})
    BY <1>3, <1>4 DEF At
  <2>4. i \notin troubled' => i # job[Loop].ref /\ i \notin troubled
    OBVIOUS
  <2>5. i # job[Loop].ref => job'[Loop].ref # i
    BY <1>3, <1>4, JobsHave, PaymentConstants
  <2>6. i # job[Loop].ref => /\ ~At(i, {"read", "commit"}) /\ ~At(i, {"read", "commit"})'
                             /\ ~At(i, {"read", "commit", "sync"}) /\ ~At(i, {"read", "commit", "sync"})'
    BY <2>5 DEF At
  <2> QED BY <2>1, <2>2, <2>3, <2>4, <2>6 DEF DeliveriesAreCounted
<1> QED BY <1>3, <1>4, <1>6, <1>7, <1>8, <1>9, LoopGoesOn DEF JobsAreAsked, JobsAreWhole

LEMMA RecordingFailsKeeps ==
    ASSUME IInv, NEW p \in Procs, RecordingFails(p)
    PROVE  IInv'
<1> USE IInvParts, Processes
<1>1. /\ job[p].step \in {"pick", "read", "commit"}
      /\ UNCHANGED <<invoice, payment, nextRow, stripe, odoo, raced>>
  BY DEF RecordingFails
<1>2. CASE p = Loop
  <2>1. Goto(Loop, [job[Loop] EXCEPT !.step = "sync"]) /\ troubled' = troubled \cup {job[Loop].ref}
        /\ UNCHANGED call
    BY <1>2 DEF RecordingFails
  <2>2. job[Loop].step \in {"read", "commit"}
    BY <1>1, <1>2 DEF JobsAreAsked, LoopDelivers
  <2> QED BY <1>1, <2>1, <2>2, LoopFails
<1>3. CASE p = Finance
  <2>1. PICK c \in Calls : /\ c = job[Finance].call /\ call[c].state = "running"
                           /\ call[c].op = "payment"
    BY <1>1, <1>3 DEF JobsAreAsked, FinanceServes
  <2>2. Goto(Finance, Idle) /\ Answered(c, "error") /\ UNCHANGED troubled
    BY <1>3, <2>1 DEF RecordingFails
  <2>3. /\ call' \in [Calls -> Requests] /\ call'[c].state = "finished" /\ call'[c].invoice = None
        /\ \A d \in Calls : d # c => call'[d] = call[d]
    BY <2>2, AnswerGiven
  <2>4. job'[Finance] = Idle /\ job'[Loop] = job[Loop]
    BY <2>2, JobsHave, JobMoves
  <2>5. Room'
    <3>1. Recording' \subseteq Recording /\ PaymentsQueued' \subseteq PaymentsQueued
      BY <2>3, <2>4, JobsHave DEF Recording, PaymentsQueued
    <3> QED BY <1>1, <3>1, RoomStays
  <2>6. FinanceServes'
    BY <2>1, <2>3, <2>4, JobsHave DEF FinanceServes, JobsAreAsked
  <2>7. CallsAreServed' /\ AnswersAreTrue'
    BY <1>1, <2>1, <2>2, AnswersStayTrue
  <2>8. \A d \in Calls : call'[d].invoice \in {call[d].invoice, None}
    BY <2>3
  <2> QED BY <1>1, <2>2, <2>3, <2>5, <2>6, <2>7, <2>8, JobsHave, FinanceGoesOn
<1> QED BY <1>2, <1>3

LEMMA RestartKeeps ==
    ASSUME IInv, NEW p \in Procs, Restart(p)
    PROVE  IInv'
<1> USE IInvParts, Processes
<1>1. job[p].step # "idle" /\ UNCHANGED <<invoice, payment, nextRow, stripe, odoo, raced>>
      /\ Goto(p, Idle)
  BY DEF Restart, JobsAreAsked, JobsAreWhole
<1>2. CASE p = Loop
  <2>1. troubled' = troubled \cup {job[Loop].ref} /\ UNCHANGED call
    BY <1>2 DEF Restart
  <2> QED BY <1>1, <1>2, <2>1, LoopFails
<1>3. CASE p = Finance
  <2>1. /\ UNCHANGED troubled
        /\ call' = [c \in Calls |-> IF call[c].state \in {"queued", "running"}
                                    THEN Finished(c, "lost") ELSE call[c]]
    BY <1>3 DEF Restart
  <2>2. \A c \in Calls : Finished(c, "lost") \in [op : {call[c].op}, invoice : {None}, amount : {0},
                target : {None}, state : {"finished"}, answer : {"lost"}]
    BY DEF Finished, NoCall
  <2>3. \A c \in Calls : /\ Finished(c, "lost") \in Requests /\ Finished(c, "lost").invoice = None
                         /\ Finished(c, "lost").state = "finished" /\ Finished(c, "lost").answer = "lost"
    BY <2>2 DEF TypeOK, Requests
  <2>4. call' \in [Calls -> Requests]
    BY <2>1, <2>3 DEF TypeOK
  <2>5. \A c \in Calls : \/ call'[c] = call[c] /\ call[c].state \notin {"queued", "running"}
                         \/ /\ call'[c].state = "finished" /\ call'[c].answer = "lost"
                            /\ call'[c].invoice = None
    BY <2>1, <2>3
  <2>6. job'[Finance] = Idle /\ job'[Loop] = job[Loop]
    BY <1>1, <1>3, JobsHave, JobMoves
  <2>7. Room'
    <3>1. Recording' \subseteq Recording /\ PaymentsQueued' \subseteq PaymentsQueued
      BY <2>5, <2>6, JobsHave DEF Recording, PaymentsQueued
    <3> QED BY <1>1, <3>1, RoomStays
  <2>8. FinanceServes'
    BY <2>5, <2>6, JobsHave DEF FinanceServes, JobsAreAsked
  <2>9. \A c \in Calls : RowsBy(c)' = RowsBy(c)
    BY <1>1 DEF RowsBy
  <2>10. CallsAreServed'
    BY <2>5, <2>9 DEF CallsAreServed
  <2>11. AnswersAreTrue'
    <3> SUFFICES ASSUME NEW c \in Calls
                 PROVE  /\ Cardinality(RowsBy(c)') <= 1
                        /\ (call'[c].op = "payment" /\ call'[c].answer = "ok") => RowsBy(c)' # {}
      BY DEF AnswersAreTrue
    <3> QED BY <2>5, <2>9 DEF AnswersAreTrue
  <2>12. \A c \in Calls : call'[c].invoice \in {call[c].invoice, None}
    BY <2>5
  <2> QED BY <1>1, <1>3, <2>1, <2>4, <2>7, <2>8, <2>10, <2>11, <2>12, JobsHave, FinanceGoesOn
<1> QED BY <1>2, <1>3

\* Stripe has one more payment to deliver.
LEMMA CustomerPaysKeeps ==
    ASSUME IInv, NEW i \in Intents, CustomerPays(i)
    PROVE  IInv'
<1> USE IInvParts, Processes
<1>1. PICK shop \in BOOLEAN, v \in {w \in Invoices : invoice[w].status # "none"} \cup {None},
           a \in Amounts :
        stripe' = [stripe EXCEPT ![i] = [NewIntent EXCEPT !.shop = shop, !.invoice = v,
                                                          !.amount = a, !.paid = TRUE]]
  BY DEF CustomerPays
<1> DEFINE r == [NewIntent EXCEPT !.shop = shop, !.invoice = v, !.amount = a, !.paid = TRUE]
<1>2. ~stripe[i].paid /\ UNCHANGED <<invoice, payment, nextRow, job, odoo, call, raced, troubled>>
  BY DEF CustomerPays
<1>3. r \in [shop : {shop}, invoice : {v}, amount : {a}, paid : {TRUE}, sent : {0}, acked : {FALSE}]
  BY DEF NewIntent
<1>4. stripe[i] = NewIntent
  BY <1>2 DEF DeliveriesAreCounted
<1>5. stripe' = [stripe EXCEPT ![i] = r]
  BY <1>1
<1> HIDE DEF r
<1>6. stripe'[i] = r /\ \A k \in Intents : k # i => stripe'[k] = stripe[k]
  BY <1>5 DEF TypeOK
<1>7. TypeOK'
  <2>1. v \in Invoices \cup {None} /\ a \in Nat /\ 0 \in 0 .. MaxDeliveries
    BY PaymentConstants
  <2>2. r \in IntentRows
    BY <1>3, <2>1 DEF IntentRows
  <2> QED BY <1>2, <1>5, <2>2 DEF TypeOK
<1>8. RowsAreIssued'
  <2>1. Recording' \subseteq Recording /\ PaymentsQueued' \subseteq PaymentsQueued
    BY <1>2 DEF Recording, PaymentsQueued
  <2>2. Room'
    BY <1>2, <2>1, RoomStays
  <2> QED BY <1>2, <2>2 DEF RowsAreIssued, Room
<1>9. InvoicesExist'
  <2>1. \A k \in Intents : \/ stripe'[k].invoice \in {stripe[k].invoice, None}
                           \/ invoice[stripe'[k].invoice].status # "none"
    BY <1>3, <1>6
  <2> QED BY <1>2, <2>1, InvoicesStay
<1>10. job[Loop].step # "idle" => job[Loop].ref # i
  BY <1>4 DEF JobsAreAsked, LoopDelivers, NewIntent
<1>11. JobsAreAsked'
  <2>1. JobsAreWhole' /\ FinanceServes'
    BY <1>2 DEF JobsAreAsked, JobsAreWhole, FinanceServes
  <2>2. LoopDelivers'
    BY <1>2, <1>6, <1>10 DEF JobsAreAsked, LoopDelivers
  <2> QED BY <2>1, <2>2 DEF JobsAreAsked
<1>12. CoverIsKnown'
  BY <1>2, CoverStays
<1>13. DeliveriesAreCounted'
  <2> SUFFICES ASSUME NEW k \in Intents
               PROVE  /\ ~stripe'[k].paid => stripe'[k] = NewIntent
                      /\ stripe'[k].acked => stripe'[k].sent > 0
                      /\ Cardinality(RowsOf(k)) + (IF At(k, {"read", "commit"}) THEN 1 ELSE 0)
                            <= stripe'[k].sent
                      /\ odoo[k] + (IF At(k, {"read", "commit", "sync"}) THEN 1 ELSE 0)
                            <= stripe'[k].sent
                      /\ (stripe'[k].shop /\ stripe'[k].sent > 0 /\ k \notin troubled) =>
                          /\ stripe'[k].acked \/ job[Loop].ref = k
                          /\ Cardinality(RowsOf(k)) = IF At(k, {"read", "commit"}) THEN 0 ELSE 1
                          /\ odoo[k] = IF At(k, {"read", "commit", "sync"}) THEN 0 ELSE 1
    BY <1>2 DEF DeliveriesAreCounted, RowsOf, At
  <2>1. CASE k = i
    <3>1. stripe'[k].paid = TRUE /\ stripe'[k].sent = 0 /\ stripe'[k].acked = FALSE
      BY <1>3, <1>6, <2>1
    <3>2. stripe[k].sent = 0
      BY <1>4, <2>1 DEF NewIntent
    <3> QED BY <3>1, <3>2 DEF DeliveriesAreCounted
  <2>2. CASE k # i
    BY <1>6, <2>2 DEF DeliveriesAreCounted
  <2> QED BY <2>1, <2>2
<1> QED BY <1>2, <1>7, <1>8, <1>9, <1>11, <1>12, <1>13, LedgerStays, CallsStay DEF IInv, LedgerOK

LEMMA WebhookKeeps ==
    ASSUME IInv, NEW i \in Intents, Webhook(i)
    PROVE  IInv'
<1> USE IInvParts, Processes
<1>1. /\ stripe[i].paid /\ ~stripe[i].acked /\ stripe[i].sent < MaxDeliveries
      /\ job[Loop] = Idle /\ RoomToRecord
      /\ UNCHANGED <<invoice, payment, nextRow, odoo, call, raced, troubled>>
  BY DEF Webhook
<1>2. \A k \in Intents : ~At(k, {"read", "commit"}) /\ ~At(k, {"read", "commit", "sync"})
  BY <1>1 DEF At, Idle
<1>3. stripe[i] \in IntentRows /\ stripe[i].sent + 1 \in 0 .. MaxDeliveries
  BY <1>1, CountsAreNats, PaymentConstants
<1>4. \A k : RowsOf(k)' = RowsOf(k)
  BY <1>1 DEF RowsOf
<1>5. CASE stripe[i].shop
  <2> DEFINE j == [Idle EXCEPT !.step = "read", !.invoice = stripe[i].invoice,
                               !.amount = stripe[i].amount, !.ref = i]
             s == [stripe[i] EXCEPT !.sent = @ + 1]
  <2>1. Goto(Loop, j) /\ stripe' = [stripe EXCEPT ![i] = s]
    BY <1>5 DEF Webhook, TypeOK
  <2>2. j \in [step : {"read"}, invoice : {stripe[i].invoice}, amount : {stripe[i].amount},
               ref : {i}, call : {None}, covers : {FALSE}]
    BY DEF Idle
  <2>3. s \in [shop : {stripe[i].shop}, invoice : {stripe[i].invoice}, amount : {stripe[i].amount},
               paid : {stripe[i].paid}, sent : {stripe[i].sent + 1}, acked : {stripe[i].acked}]
    BY <1>3 DEF IntentRows
  <2> HIDE DEF j, s
  <2>4. j \in Jobs /\ s \in IntentRows
    BY <1>3, <2>2, <2>3 DEF Jobs, IntentRows
  <2>5. /\ job' \in [Procs -> Jobs] /\ job'[Loop] = j /\ job'[Finance] = job[Finance]
        /\ stripe' \in [Intents -> IntentRows] /\ stripe'[i] = s
        /\ \A k \in Intents : k # i => stripe'[k] = stripe[k]
    BY <2>1, <2>4, JobMoves DEF TypeOK
  <2>6. TypeOK'
    BY <1>1, <2>5 DEF TypeOK
  <2>7. Room'
    <3>1. Recording' = Recording \cup {Loop} /\ Loop \notin Recording
      BY <1>1, <2>2, <2>5 DEF Recording, Idle
    <3>2. Cardinality(Recording)' = Cardinality(Recording) + 1
      BY <3>1, SetsFinite, FS_AddElement
    <3>3. PaymentsQueued' = PaymentsQueued
      BY <1>1 DEF PaymentsQueued
    <3> QED BY <1>1, <3>2, <3>3, SetsFinite, PaymentConstants DEF Room, RoomToRecord, TypeOK
  <2>8. LoopDelivers'
    <3>1. stripe'[i].shop /\ ~stripe'[i].acked
      BY <1>1, <1>5, <2>3, <2>5
    <3>2. stripe'[i].sent > 0
      BY <2>3, <2>5, CountsAreNats
    <3> QED BY <2>2, <2>5, <3>1, <3>2 DEF LoopDelivers
  <2>9. DeliveriesAreCounted'
    <3> SUFFICES ASSUME NEW k \in Intents
                 PROVE  /\ ~stripe'[k].paid => stripe'[k] = NewIntent
                        /\ stripe'[k].acked => stripe'[k].sent > 0
                        /\ Cardinality(RowsOf(k)) + (IF At(k, {"read", "commit"})' THEN 1 ELSE 0)
                              <= stripe'[k].sent
                        /\ odoo[k] + (IF At(k, {"read", "commit", "sync"})' THEN 1 ELSE 0)
                              <= stripe'[k].sent
                        /\ (stripe'[k].shop /\ stripe'[k].sent > 0 /\ k \notin troubled) =>
                            /\ stripe'[k].acked \/ job'[Loop].ref = k
                            /\ Cardinality(RowsOf(k)) = IF At(k, {"read", "commit"})' THEN 0 ELSE 1
                            /\ odoo[k] = IF At(k, {"read", "commit", "sync"})' THEN 0 ELSE 1
      BY <1>1, <1>4 DEF DeliveriesAreCounted
    <3>1. CASE k = i
      <4>1. At(k, {"read", "commit"})' /\ At(k, {"read", "commit", "sync"})' /\ job'[Loop].ref = k
        BY <2>2, <2>5, <3>1 DEF At
      <4>2. /\ stripe'[k].sent = stripe[k].sent + 1 /\ stripe'[k].paid
            /\ stripe'[k].acked = stripe[k].acked
        BY <1>1, <2>3, <2>5, <3>1
      <4>3. k \notin troubled => stripe[k].sent = 0
        <5>1. job[Loop].ref # k
          BY <1>1, PaymentConstants DEF Idle
        <5> QED BY <1>1, <1>5, <3>1, <5>1, CountsAreNats DEF DeliveriesAreCounted
      <4>4. Cardinality(RowsOf(k)) <= stripe[k].sent /\ odoo[k] <= stripe[k].sent
        BY <1>2, CountsAreNats DEF DeliveriesAreCounted
      <4>5. k \notin troubled => Cardinality(RowsOf(k)) = 0 /\ odoo[k] = 0
        BY <4>3, <4>4, CountsAreNats
      <4> QED BY <4>1, <4>2, <4>4, <4>5, CountsAreNats
    <3>2. CASE k # i
      <4>1. ~At(k, {"read", "commit"})' /\ ~At(k, {"read", "commit", "sync"})'
        BY <2>2, <2>5, <3>2 DEF At
      <4>2. job[Loop].ref # k
        BY <1>1, PaymentConstants DEF Idle
      <4> QED BY <1>2, <2>5, <3>2, <4>1, <4>2 DEF DeliveriesAreCounted
    <3> QED BY <3>1, <3>2
  <2>10. \A k \in Intents : stripe'[k].invoice = stripe[k].invoice
    BY <2>3, <2>5
  <2>11. j.invoice = None \/ invoice[j.invoice].status # "none"
    <3>1. stripe[i].invoice \in Invoices \cup {None}
      BY <1>3 DEF IntentRows
    <3> QED BY <2>2, <3>1 DEF InvoicesExist
  <2> QED BY <1>1, <2>1, <2>2, <2>4, <2>6, <2>7, <2>8, <2>9, <2>10, <2>11, LoopGoesOn
<1>6. CASE ~stripe[i].shop
  <2> DEFINE s == [stripe[i] EXCEPT !.sent = @ + 1, !.acked = TRUE]
  <2>1. UNCHANGED job /\ stripe' = [stripe EXCEPT ![i] = s]
    BY <1>6 DEF Webhook, TypeOK
  <2>2. s \in [shop : {stripe[i].shop}, invoice : {stripe[i].invoice}, amount : {stripe[i].amount},
               paid : {stripe[i].paid}, sent : {stripe[i].sent + 1}, acked : {TRUE}]
    BY <1>3 DEF IntentRows
  <2> HIDE DEF s
  <2>3. s \in IntentRows
    BY <1>3, <2>2 DEF IntentRows
  <2>4. /\ stripe' \in [Intents -> IntentRows] /\ stripe'[i] = s
        /\ \A k \in Intents : k # i => stripe'[k] = stripe[k]
    BY <2>1, <2>3 DEF TypeOK
  <2>5. Goto(Loop, Idle)
    BY <1>1, <2>1 DEF Goto, TypeOK
  <2>6. TypeOK'
    BY <1>1, <2>1, <2>4 DEF TypeOK
  <2>7. Room'
    <3>1. Recording' \subseteq Recording /\ PaymentsQueued' \subseteq PaymentsQueued
      BY <1>1, <2>1 DEF Recording, PaymentsQueued
    <3> QED BY <1>1, <3>1, RoomStays
  <2>8. LoopDelivers'
    BY <1>1, <2>1, JobsHave DEF LoopDelivers
  <2>9. DeliveriesAreCounted'
    <3> SUFFICES ASSUME NEW k \in Intents
                 PROVE  /\ ~stripe'[k].paid => stripe'[k] = NewIntent
                        /\ stripe'[k].acked => stripe'[k].sent > 0
                        /\ Cardinality(RowsOf(k)) + (IF At(k, {"read", "commit"}) THEN 1 ELSE 0)
                              <= stripe'[k].sent
                        /\ odoo[k] + (IF At(k, {"read", "commit", "sync"}) THEN 1 ELSE 0)
                              <= stripe'[k].sent
                        /\ (stripe'[k].shop /\ stripe'[k].sent > 0 /\ k \notin troubled) =>
                            /\ stripe'[k].acked \/ job[Loop].ref = k
                            /\ Cardinality(RowsOf(k)) = IF At(k, {"read", "commit"}) THEN 0 ELSE 1
                            /\ odoo[k] = IF At(k, {"read", "commit", "sync"}) THEN 0 ELSE 1
      BY <1>1, <1>4, <2>1 DEF DeliveriesAreCounted, At
    <3>1. CASE k = i
      <4>1. stripe'[k].sent = stripe[k].sent + 1 /\ stripe'[k].paid /\ ~stripe'[k].shop
        BY <1>1, <1>6, <2>2, <2>4, <3>1
      <4>2. Cardinality(RowsOf(k)) <= stripe[k].sent /\ odoo[k] <= stripe[k].sent
        BY <1>2, CountsAreNats DEF DeliveriesAreCounted
      <4> QED BY <1>2, <4>1, <4>2, CountsAreNats
    <3>2. CASE k # i
      BY <2>4, <3>2 DEF DeliveriesAreCounted
    <3> QED BY <3>1, <3>2
  <2>10. \A k \in Intents : stripe'[k].invoice = stripe[k].invoice
    BY <2>2, <2>4
  <2> QED BY <1>1, <2>5, <2>6, <2>7, <2>8, <2>9, <2>10, JobsHave, LoopGoesOn
<1> QED BY <1>5, <1>6

\* Odoo has the payment.
LEMMA SyncToOdooKeeps ==
    ASSUME IInv, SyncToOdoo
    PROVE  IInv'
<1> USE IInvParts, Processes
<1>1. job[Loop].step = "sync" /\ job[Loop] \in Jobs
      /\ UNCHANGED <<invoice, payment, nextRow, stripe, call, raced>>
  BY DEF SyncToOdoo, TypeOK
<1>2. Goto(Loop, [job[Loop] EXCEPT !.step = "ack"])
  BY DEF SyncToOdoo
<1>3. CASE UNCHANGED odoo /\ troubled' = troubled \cup {job[Loop].ref}
  BY <1>1, <1>2, <1>3, LoopFails
<1>4. CASE odoo' = Entered(job[Loop]) /\ UNCHANGED troubled
  <2> DEFINE j == [job[Loop] EXCEPT !.step = "ack"]
  <2>1. j \in Jobs /\ j.step = "ack"
    BY <1>1, JobStep
  <2>2. /\ j.call = job[Loop].call /\ j.covers = job[Loop].covers
        /\ j.invoice = job[Loop].invoice /\ j.ref = job[Loop].ref
    BY <1>1, JobStep
  <2>3. Goto(Loop, j)
    BY <1>2
  <2> HIDE DEF j
  <2>4. job' \in [Procs -> Jobs] /\ job'[Loop] = j /\ job'[Finance] = job[Finance]
    BY <2>1, <2>3, JobMoves
  <2>5. PICK i \in Intents : i = job[Loop].ref
    BY <1>1 DEF JobsAreAsked, LoopDelivers
  <2>6. odoo[i] + 1 <= stripe[i].sent
    BY <1>1, <2>5 DEF DeliveriesAreCounted, At
  <2>7. odoo[i] + 1 \in 0 .. MaxDeliveries
    BY <2>6, CountsAreNats, PaymentConstants DEF TypeOK, IntentRows
  <2>8. /\ odoo' \in [Intents -> 0 .. MaxDeliveries] /\ odoo'[i] = odoo[i] + 1
        /\ \A k \in Intents : k # i => odoo'[k] = odoo[k]
    BY <1>4, <2>5, <2>7 DEF Entered, TypeOK
  <2>9. TypeOK'
    BY <1>1, <1>4, <2>4, <2>8 DEF TypeOK
  <2>10. Room'
    <3>1. Recording' \subseteq Recording /\ PaymentsQueued' \subseteq PaymentsQueued
      BY <1>1, <2>1, <2>4 DEF Recording, PaymentsQueued
    <3> QED BY <1>1, <3>1, RoomStays
  <2>11. LoopDelivers'
    BY <1>1, <2>1, <2>2, <2>4 DEF LoopDelivers, JobsAreAsked
  <2>12. DeliveriesAreCounted'
    <3> SUFFICES ASSUME NEW k \in Intents
                 PROVE  /\ ~stripe[k].paid => stripe[k] = NewIntent
                        /\ Cardinality(RowsOf(k)) + (IF At(k, {"read", "commit"})' THEN 1 ELSE 0)
                              <= stripe[k].sent
                        /\ odoo'[k] + (IF At(k, {"read", "commit", "sync"})' THEN 1 ELSE 0)
                              <= stripe[k].sent
                        /\ (stripe[k].shop /\ stripe[k].sent > 0 /\ k \notin troubled) =>
                            /\ stripe[k].acked \/ job'[Loop].ref = k
                            /\ Cardinality(RowsOf(k)) = IF At(k, {"read", "commit"})' THEN 0 ELSE 1
                            /\ odoo'[k] = IF At(k, {"read", "commit", "sync"})' THEN 0 ELSE 1
      BY <1>1, <1>4 DEF DeliveriesAreCounted, RowsOf
    <3>1. ~At(k, {"read", "commit"})' /\ ~At(k, {"read", "commit", "sync"})' /\ ~At(k, {"read", "commit"})
      BY <1>1, <2>1, <2>4 DEF At
    <3>2. job'[Loop].ref = job[Loop].ref
      BY <2>2, <2>4
    <3>3. CASE k = i
      <4>1. At(k, {"read", "commit", "sync"})
        BY <1>1, <2>5, <3>3 DEF At
      <4> QED BY <2>6, <2>8, <3>1, <3>2, <3>3, <4>1 DEF DeliveriesAreCounted
    <3>4. CASE k # i
      <4>1. ~At(k, {"read", "commit", "sync"})
        BY <2>5, <3>4 DEF At
      <4> QED BY <2>8, <3>1, <3>2, <3>4, <4>1 DEF DeliveriesAreCounted
    <3> QED BY <3>3, <3>4
  <2>13. j.covers => j.invoice # None
    BY <2>2 DEF JobsAreAsked, JobsAreWhole
  <2> QED BY <1>1, <2>1, <2>2, <2>3, <2>9, <2>10, <2>11, <2>12, <2>13, LoopGoesOn
<1> QED BY <1>3, <1>4 DEF SyncToOdoo

LEMMA AcknowledgeKeeps ==
    ASSUME IInv, Acknowledge
    PROVE  IInv'
<1> USE IInvParts, Processes
<1>1. /\ job[Loop].step = "ack" /\ Goto(Loop, Idle)
      /\ UNCHANGED <<invoice, payment, nextRow, odoo, call, raced>>
  BY DEF Acknowledge
<1>2. CASE UNCHANGED stripe /\ troubled' = troubled \cup {job[Loop].ref}
  BY <1>1, <1>2, LoopFails
<1>3. CASE stripe' = [stripe EXCEPT ![job[Loop].ref].acked = TRUE] /\ UNCHANGED troubled
  <2>1. PICK i \in Intents : i = job[Loop].ref
    BY <1>1 DEF JobsAreAsked, LoopDelivers
  <2> DEFINE s == [stripe[i] EXCEPT !.acked = TRUE]
  <2>2. stripe[i] \in IntentRows
    BY CountsAreNats
  <2>3. s \in [shop : {stripe[i].shop}, invoice : {stripe[i].invoice}, amount : {stripe[i].amount},
               paid : {stripe[i].paid}, sent : {stripe[i].sent}, acked : {TRUE}]
    BY <2>2 DEF IntentRows
  <2>4. stripe' = [stripe EXCEPT ![i] = s]
    BY <1>3, <2>1 DEF TypeOK
  <2> HIDE DEF s
  <2>5. s \in IntentRows
    BY <2>2, <2>3 DEF IntentRows
  <2>6. /\ stripe' \in [Intents -> IntentRows] /\ stripe'[i] = s
        /\ \A k \in Intents : k # i => stripe'[k] = stripe[k]
    BY <2>4, <2>5 DEF TypeOK
  <2>7. job' \in [Procs -> Jobs] /\ job'[Loop] = Idle /\ job'[Finance] = job[Finance]
    BY <1>1, JobsHave, JobMoves
  <2>8. TypeOK'
    BY <1>1, <1>3, <2>6, <2>7 DEF TypeOK
  <2>9. Room'
    <3>1. Recording' \subseteq Recording /\ PaymentsQueued' \subseteq PaymentsQueued
      BY <1>1, <2>7, JobsHave DEF Recording, PaymentsQueued
    <3> QED BY <1>1, <3>1, RoomStays
  <2>10. LoopDelivers'
    BY <2>7, JobsHave DEF LoopDelivers
  <2>11. DeliveriesAreCounted'
    <3> SUFFICES ASSUME NEW k \in Intents
                 PROVE  /\ ~stripe'[k].paid => stripe'[k] = NewIntent
                        /\ stripe'[k].acked => stripe'[k].sent > 0
                        /\ Cardinality(RowsOf(k)) + (IF At(k, {"read", "commit"})' THEN 1 ELSE 0)
                              <= stripe'[k].sent
                        /\ odoo[k] + (IF At(k, {"read", "commit", "sync"})' THEN 1 ELSE 0)
                              <= stripe'[k].sent
                        /\ (stripe'[k].shop /\ stripe'[k].sent > 0 /\ k \notin troubled) =>
                            /\ stripe'[k].acked \/ job'[Loop].ref = k
                            /\ Cardinality(RowsOf(k)) = IF At(k, {"read", "commit"})' THEN 0 ELSE 1
                            /\ odoo[k] = IF At(k, {"read", "commit", "sync"})' THEN 0 ELSE 1
      BY <1>1, <1>3, SMTT(20) DEF DeliveriesAreCounted, RowsOf
    <3>1. /\ ~At(k, {"read", "commit"})' /\ ~At(k, {"read", "commit", "sync"})'
          /\ ~At(k, {"read", "commit"}) /\ ~At(k, {"read", "commit", "sync"})
      BY <1>1, <2>7, JobsHave DEF At
    <3>2. CASE k = i
      <4>1. /\ stripe'[k].paid = stripe[k].paid /\ stripe'[k].sent = stripe[k].sent
            /\ stripe'[k].shop = stripe[k].shop /\ stripe'[k].acked = TRUE
        BY <2>3, <2>6, <3>2
      <4>2. stripe[k].paid
        BY <1>1, <2>1, <3>2 DEF DeliveriesAreCounted, JobsAreAsked, LoopDelivers, NewIntent
      <4>3. stripe[k].sent > 0
        BY <1>1, <2>1, <3>2 DEF JobsAreAsked, LoopDelivers
      <4> QED BY <3>1, <4>1, <4>2, <4>3 DEF DeliveriesAreCounted
    <3>3. CASE k # i
      BY <2>1, <2>6, <3>1, <3>3 DEF DeliveriesAreCounted
    <3> QED BY <3>2, <3>3
  <2>12. \A k \in Intents : stripe'[k].invoice = stripe[k].invoice
    BY <2>3, <2>6
  <2> QED BY <1>1, <2>8, <2>9, <2>10, <2>11, <2>12, JobsHave, LoopGoesOn
<1> QED BY <1>2, <1>3 DEF Acknowledge

-----------------------------------------------------------------------------
(* The agent's calls.                                                      *)

\* A call goes on, nobody has recorded anything.
LEMMA CallGoesOn ==
    ASSUME IInv, NEW c \in Calls, NEW r \in Requests, call' = [call EXCEPT ![c] = r],
           UNCHANGED <<invoice, payment, nextRow, job, stripe, odoo, raced, troubled>>,
           Room', r.state \in {"queued", call[c].state}, r.state = "running" => r.op = call[c].op,
           call[c].state \in {"unused", "queued"} \/ r.state = "running",
           call[c].state # "finished", r.answer \in {"none", "lost"},
           r.state = "unused" => r.answer = "none",
           (r.state = "queued" /\ r.op = "invoice") => r.amount > 0,
           (r.state = "queued" /\ r.op = "refund") => r.target \in Payments,
           r.invoice \in {call[c].invoice, None} \/ invoice[r.invoice].status # "none"
    PROVE  IInv'
<1> USE IInvParts, Processes
<1>1. /\ call' \in [Calls -> Requests] /\ call'[c] = r
      /\ \A d \in Calls : d # c => call'[d] = call[d]
  BY DEF TypeOK
<1>2. \A d \in Calls : RowsBy(d)' = RowsBy(d)
  BY DEF RowsBy
<1>3. CallsAreServed'
  BY <1>1, <1>2 DEF CallsAreServed
<1>4. AnswersAreTrue'
  <2> SUFFICES ASSUME NEW d \in Calls
               PROVE  /\ Cardinality(RowsBy(d)') <= 1
                      /\ (call'[d].op = "payment" /\ call'[d].answer = "ok") => RowsBy(d)' # {}
    BY DEF AnswersAreTrue
  <2>1. CASE d = c
    BY <1>1, <1>2, <2>1 DEF AnswersAreTrue
  <2>2. CASE d # c
    BY <1>1, <1>2, <2>2 DEF AnswersAreTrue
  <2> QED BY <2>1, <2>2
<1>5. FinanceServes'
  <2>1. job[Finance].step # "idle" => call'[job[Finance].call].state = "running"
                                      /\ call'[job[Finance].call].op = "payment"
    BY <1>1 DEF JobsAreAsked, FinanceServes
  <2>2. \A d \in Calls : call'[d].state = "running" => call[d].state = "running"
    BY <1>1
  <2> QED BY <2>1, <2>2 DEF JobsAreAsked, FinanceServes
<1>6. \A d \in Calls : \/ call'[d].invoice \in {call[d].invoice, None}
                       \/ invoice[call'[d].invoice].status # "none"
  BY <1>1
<1>7. job[Finance] \in Jobs /\ Goto(Finance, job[Finance])
  BY DEF TypeOK, Goto
<1>8. /\ job[Finance].step = "idle" => job[Finance] = Idle
      /\ job[Finance].covers => job[Finance].invoice # None /\ job[Finance].step \notin {"pick", "read"}
  BY DEF JobsAreAsked, JobsAreWhole
<1> QED BY <1>1, <1>3, <1>4, <1>5, <1>6, <1>7, <1>8, FinanceGoesOn

LEMMA AskKeeps ==
    ASSUME IInv, NEW c \in Calls, NEW op \in {"invoice", "payment", "refund"},
           NEW v \in Invoices \cup {None}, NEW a \in Nat, NEW k \in Payments \cup {None},
           op = "invoice" => a > 0, op = "refund" => k \in Payments, Ask(c, op, v, a, k)
    PROVE  IInv'
<1> USE IInvParts, Processes
<1> DEFINE r == [NoCall EXCEPT !.op = op, !.invoice = v, !.amount = a, !.target = k, !.state = "queued"]
<1>1. /\ call[c].state = "unused" /\ call' = [call EXCEPT ![c] = r]
      /\ op = "payment" => RoomToRecord
      /\ v # None => invoice[v].status # "none"
      /\ UNCHANGED <<invoice, payment, nextRow, job, stripe, odoo, raced, troubled>>
  BY DEF Ask
<1>2. r \in [op : {op}, invoice : {v}, amount : {a}, target : {k}, state : {"queued"}, answer : {"none"}]
  BY DEF NoCall
<1> HIDE DEF r
<1>3. r \in Requests
  BY <1>2 DEF Requests
<1>4. call'[c] = r /\ \A d \in Calls : d # c => call'[d] = call[d]
  BY <1>1 DEF TypeOK
<1>5. Room'
  <2>1. Recording' = Recording
    BY <1>1 DEF Recording
  <2>2. CASE op = "payment"
    <3>1. PaymentsQueued' = PaymentsQueued \cup {c} /\ c \notin PaymentsQueued
      BY <1>1, <1>2, <1>4, <2>2 DEF PaymentsQueued
    <3>2. Cardinality(PaymentsQueued)' = Cardinality(PaymentsQueued) + 1
      BY <3>1, SetsFinite, FS_AddElement
    <3> QED BY <1>1, <2>1, <2>2, <3>2, SetsFinite, PaymentConstants DEF Room, RoomToRecord, TypeOK
  <2>3. CASE op # "payment"
    <3>1. PaymentsQueued' \subseteq PaymentsQueued
      BY <1>1, <1>2, <1>4, <2>3 DEF PaymentsQueued
    <3> QED BY <1>1, <2>1, <3>1, RoomStays
  <2> QED BY <2>2, <2>3
<1> QED BY <1>1, <1>2, <1>3, <1>5, CallGoesOn

LEMMA TimeOutKeeps ==
    ASSUME IInv, NEW c \in Calls, TimeOut(c)
    PROVE  IInv'
<1> USE IInvParts, Processes
<1> DEFINE r == [call[c] EXCEPT !.answer = "lost"]
<1>1. /\ call[c].state \in {"queued", "running"} /\ call[c] \in Requests
      /\ UNCHANGED <<invoice, payment, nextRow, job, stripe, odoo, raced, troubled>>
  BY DEF TimeOut, TypeOK
<1>2. r \in [op : {call[c].op}, invoice : {call[c].invoice}, amount : {call[c].amount},
             target : {call[c].target}, state : {call[c].state}, answer : {"lost"}]
  BY <1>1 DEF Requests
<1>3. call' = [call EXCEPT ![c] = r]
  BY DEF TimeOut, TypeOK
<1> HIDE DEF r
<1>4. r \in Requests
  BY <1>1, <1>2 DEF Requests
<1>5. Room'
  <2>1. call'[c] = r /\ \A d \in Calls : d # c => call'[d] = call[d]
    BY <1>3 DEF TypeOK
  <2>2. Recording' \subseteq Recording /\ PaymentsQueued' \subseteq PaymentsQueued
    BY <1>1, <1>2, <2>1 DEF Recording, PaymentsQueued
  <2> QED BY <1>1, <2>2, RoomStays
<1>6. /\ (r.state = "queued" /\ r.op = "invoice") => r.amount > 0
      /\ (r.state = "queued" /\ r.op = "refund") => r.target \in Payments
  BY <1>2 DEF CallsAreServed
<1> QED BY <1>1, <1>2, <1>3, <1>4, <1>5, <1>6, CallGoesOn

LEMMA ServePaymentKeeps ==
    ASSUME IInv, NEW c \in Calls, ServePayment(c)
    PROVE  IInv'
<1> USE IInvParts, Processes
<1> DEFINE step == IF call[c].invoice = None THEN "pick" ELSE "read"
           j == [Idle EXCEPT !.step = step, !.invoice = call[c].invoice, !.amount = call[c].amount,
                             !.call = c]
           r == [call[c] EXCEPT !.state = "running"]
<1>1. /\ call[c].state = "queued" /\ call[c].op = "payment" /\ job[Finance] = Idle
      /\ call[c] \in Requests /\ Goto(Finance, j)
      /\ UNCHANGED <<invoice, payment, nextRow, stripe, odoo, raced, troubled>>
  BY DEF ServePayment, TypeOK
<1>2. r \in [op : {"payment"}, invoice : {call[c].invoice}, amount : {call[c].amount},
             target : {call[c].target}, state : {"running"}, answer : {call[c].answer}]
  BY <1>1 DEF Requests
<1>3. call' = [call EXCEPT ![c] = r]
  BY DEF ServePayment, TypeOK
<1>4. step \in {"pick", "read"}
  OBVIOUS
<1> HIDE DEF step, r
<1>5. j \in [step : {step}, invoice : {call[c].invoice}, amount : {call[c].amount},
             ref : {Agent}, call : {c}, covers : {FALSE}]
  BY DEF Idle
<1> HIDE DEF j
<1>6. r \in Requests /\ j \in Jobs
  BY <1>1, <1>2, <1>4, <1>5 DEF Requests, Jobs
<1>7. /\ job'[Finance] = j /\ job'[Loop] = job[Loop]
      /\ call' \in [Calls -> Requests] /\ call'[c] = r
      /\ \A d \in Calls : d # c => call'[d] = call[d]
  BY <1>1, <1>3, <1>6, JobMoves DEF TypeOK
<1>8. Room'
  <2>1. Recording' = Recording \cup {Finance} /\ Finance \notin Recording
    BY <1>1, <1>4, <1>5, <1>7 DEF Recording, Idle
  <2>2. PaymentsQueued' = PaymentsQueued \ {c} /\ c \in PaymentsQueued
    BY <1>1, <1>2, <1>7 DEF PaymentsQueued
  <2>3. Cardinality(Recording)' = Cardinality(Recording) + 1
    BY <2>1, SetsFinite, FS_AddElement
  <2>4. Cardinality(PaymentsQueued)' = Cardinality(PaymentsQueued) - 1
    BY <2>2, SetsFinite, FS_RemoveElement
  <2> QED BY <1>1, <2>3, <2>4, SetsFinite, PaymentConstants DEF Room, TypeOK
<1>9. FinanceServes'
  <2>1. \A d \in Calls : call[d].state # "running"
    BY <1>1 DEF JobsAreAsked, FinanceServes, Idle, Calls, None
  <2> QED BY <1>2, <1>4, <1>5, <1>7, <2>1 DEF FinanceServes
<1>10. \A d \in Calls : RowsBy(d)' = RowsBy(d)
  BY <1>1 DEF RowsBy
<1>11. CallsAreServed'
  BY <1>1, <1>2, <1>7, <1>10 DEF CallsAreServed
<1>12. AnswersAreTrue'
  <2> SUFFICES ASSUME NEW d \in Calls
               PROVE  /\ Cardinality(RowsBy(d)') <= 1
                      /\ (call'[d].op = "payment" /\ call'[d].answer = "ok") => RowsBy(d)' # {}
    BY DEF AnswersAreTrue
  <2>1. call'[d].op = call[d].op /\ call'[d].answer = call[d].answer
    BY <1>1, <1>2, <1>7
  <2> QED BY <1>10, <2>1 DEF AnswersAreTrue
<1>13. \A d \in Calls : call'[d].invoice \in {call[d].invoice, None}
  BY <1>2, <1>7
<1>14. j.invoice = None \/ invoice[j.invoice].status # "none"
  <2>1. call[c].invoice \in Invoices \cup {None}
    BY <1>1 DEF Requests
  <2> QED BY <1>5, <2>1 DEF InvoicesExist
<1> QED BY <1>1, <1>4, <1>5, <1>6, <1>7, <1>8, <1>9, <1>11, <1>12, <1>13, <1>14, FinanceGoesOn

\* A new invoice, which nobody has paid for; or none.
LEMMA ServeInvoiceKeeps ==
    ASSUME IInv, NEW c \in Calls, ServeInvoice(c)
    PROVE  IInv'
<1> USE IInvParts, Processes
<1>1. PICK a \in {"ok", "error"} :
        /\ Answered(c, a)
        /\ \/ \E v \in Invoices :
                /\ invoice[v].status = "none"
                /\ invoice' = [invoice EXCEPT ![v] = [status |-> "DRAFT", total |-> call[c].amount]]
           \/ UNCHANGED invoice
  BY DEF ServeInvoice, Committed
<1>2. /\ call[c].state = "queued" /\ call[c].op = "invoice" /\ job[Finance] = Idle
      /\ call[c] \in Requests
      /\ UNCHANGED <<payment, nextRow, job, stripe, odoo, raced, troubled>>
  BY DEF ServeInvoice, TypeOK
<1>3. /\ call' \in [Calls -> Requests] /\ call'[c].state = "finished" /\ call'[c].invoice = None
      /\ \A d \in Calls : d # c => call'[d] = call[d]
  BY <1>1, AnswerGiven
<1>4. CallsAreServed' /\ AnswersAreTrue'
  BY <1>1, <1>2, AnswersStayTrue
<1>5. \A d \in Calls : call'[d].invoice \in {call[d].invoice, None}
  BY <1>3
<1>6. Room'
  <2>1. Recording' \subseteq Recording /\ PaymentsQueued' \subseteq PaymentsQueued
    BY <1>2, <1>3 DEF Recording, PaymentsQueued
  <2> QED BY <1>2, <2>1, RoomStays
<1>7. RowsAreIssued'
  BY <1>2, <1>6 DEF RowsAreIssued, Room
<1>8. JobsAreAsked'
  <2>1. JobsAreWhole' /\ LoopDelivers'
    BY <1>2 DEF JobsAreAsked, JobsAreWhole, LoopDelivers
  <2>2. FinanceServes'
    BY <1>2, <1>3 DEF JobsAreAsked, FinanceServes, Idle
  <2> QED BY <2>1, <2>2 DEF JobsAreAsked
<1>9. DeliveriesAreCounted'
  BY <1>2, DeliveriesStay
<1>10. CASE UNCHANGED invoice
  <2>1. TypeOK'
    BY <1>2, <1>3, <1>10 DEF TypeOK
  <2>2. InvoicesExist'
    BY <1>2, <1>5, <1>10, InvoicesStay
  <2>3. CoverIsKnown' /\ LedgerOK'
    BY <1>2, <1>10, CoverStays, LedgerStays
  <2> QED BY <1>4, <1>7, <1>8, <1>9, <2>1, <2>2, <2>3 DEF IInv, LedgerOK
<1>11. ASSUME NEW v \in Invoices, invoice[v].status = "none",
              invoice' = [invoice EXCEPT ![v] = [status |-> "DRAFT", total |-> call[c].amount]]
       PROVE  IInv'
  <2>1. call[c].amount \in Nat /\ call[c].amount > 0
    BY <1>2 DEF Requests, CallsAreServed
  <2>2. /\ invoice' \in [Invoices -> [status : {"none", "DRAFT", "PAID"}, total : Nat]]
        /\ invoice'[v].status = "DRAFT" /\ invoice'[v].total > 0
        /\ \A w \in Invoices : w # v => invoice'[w] = invoice[w]
    BY <1>11, <2>1 DEF TypeOK
  <2>3. \A w : Sum(PaymentsOf(w))' = Sum(PaymentsOf(w)) /\ PaidFor(w)' = PaidFor(w)
    BY <1>2 DEF Sum, Cents, PaidFor, PaymentsOf, Completed
  <2>4. PaidFor(v) = 0
    <3>1. Completed(PaymentsOf(v)) = {}
      BY <1>11 DEF InvoicesExist, PaymentsOf, Completed
    <3>2. CentsIn(payment, {}) = {}
      BY DEF CentsIn
    <3>3. SumIn(payment, {}) = 0
      BY <3>2, FS_EmptySet DEF SumIn
    <3> QED BY <3>1, <3>3, SumsOfNow
  <2>5. TypeOK'
    BY <1>2, <1>3, <2>2 DEF TypeOK
  <2>6. InvoicesExist'
    <3> SUFFICES ASSUME NEW w \in Invoices
                 PROVE  /\ invoice'[w].status = "none" =>
                            /\ \A k \in Payments : payment[k].invoice # w
                            /\ \A p \in Procs : job[p].invoice # w
                            /\ \A d \in Calls : call'[d].invoice # w
                            /\ \A i \in Intents : stripe[i].invoice # w
                        /\ invoice'[w].status # "none" => invoice'[w].total > 0
      BY <1>2 DEF InvoicesExist
    <3>1. CASE w = v
      BY <2>2, <3>1
    <3>2. CASE w # v
      <4>1. invoice'[w] = invoice[w] /\ w # None
        BY <2>2, <3>2 DEF Invoices, None
      <4> QED BY <1>5, <4>1 DEF InvoicesExist
    <3> QED BY <3>1, <3>2
  <2>7. CoverIsKnown'
    <3> SUFFICES ASSUME NEW q \in Procs, NEW w \in Invoices,
                        job[q].step = "commit", job[q].invoice = w
                 PROVE  /\ job[q].covers => Sum(PaymentsOf(w))' + job[q].amount >= invoice'[w].total
                        /\ (~job[q].covers /\ w \notin raced) =>
                                PaidFor(w)' + job[q].amount <= invoice'[w].total
                                /\ job[q].amount < invoice'[w].total
                        /\ UnderWay(q, w) => w \in raced
      BY <1>2 DEF CoverIsKnown, UnderWay
    <3>1. w # v
      BY <1>11 DEF InvoicesExist
    <3> QED BY <2>2, <2>3, <3>1 DEF CoverIsKnown
  <2>8. PaidWasCovered'
    BY <2>2, <2>3 DEF LedgerOK, PaidWasCovered
  <2>9. CoveredIsPaid'
    <3> SUFFICES ASSUME NEW w \in Invoices, invoice'[w].status = "DRAFT", w \notin raced
                 PROVE  /\ PaidFor(w)' <= invoice'[w].total
                        /\ \A k \in Completed(PaymentsOf(w)) : payment[k].amount < invoice'[w].total
      BY <1>2 DEF CoveredIsPaid, Completed, PaymentsOf
    <3>1. CASE w = v
      <4>1. PaidFor(w)' = 0 /\ Completed(PaymentsOf(w)) = {}
        BY <1>11, <2>3, <2>4, <3>1 DEF InvoicesExist, PaymentsOf, Completed
      <4>2. invoice'[w].total > 0 /\ invoice'[w].total \in Nat
        BY <2>2, <3>1
      <4> QED BY <4>1, <4>2
    <3>2. CASE w # v
      BY <2>2, <2>3, <3>2 DEF LedgerOK, CoveredIsPaid
    <3> QED BY <3>1, <3>2
  <2>10. CompletedIsWhole' /\ RefundsFit'
    BY <1>2 DEF LedgerOK, CompletedIsWhole, RefundsFit
  <2> QED BY <1>4, <1>7, <1>8, <1>9, <2>5, <2>6, <2>7, <2>8, <2>9, <2>10 DEF IInv
<1> QED BY <1>1, <1>10, <1>11

\* The tables after a refund of k: the sums paid stay or shrink.
LEMMA PaymentRefunded ==
    ASSUME TypeOK, NEW k \in Payments, NEW r \in Rows, payment' = [payment EXCEPT ![k] = r],
           r.amount = payment[k].amount, r.invoice = payment[k].invoice, r.ref = payment[k].ref,
           r.by = payment[k].by, r.status \notin {"none", "COMPLETED"}, payment[k].status # "none"
    PROVE  /\ payment' \in [Payments -> Rows] /\ payment'[k] = r
           /\ \A n \in Payments : n # k => payment'[n] = payment[n]
           /\ \A w : /\ Sum(PaymentsOf(w))' = Sum(PaymentsOf(w))
                     /\ PaidFor(w)' <= PaidFor(w) /\ PaidFor(w)' \in Nat
           /\ \A i : RowsOf(i)' = RowsOf(i)
<1>1. payment \in [Payments -> Rows]
  BY DEF TypeOK
<1>2. /\ payment' \in [Payments -> Rows] /\ payment'[k] = r
      /\ \A n \in Payments : n # k => payment'[n] = payment[n]
  BY <1>1
<1>3. \A n \in Payments : /\ payment'[n].amount = payment[n].amount
                          /\ payment'[n].invoice = payment[n].invoice
                          /\ payment'[n].ref = payment[n].ref
                          /\ payment'[n].status = "none" <=> payment[n].status = "none"
                          /\ payment'[n].status = "COMPLETED" => payment[n].status = "COMPLETED"
  BY <1>2
<1>4. \A S \in SUBSET Payments : SumIn(payment', S) = SumIn(payment, S)
  <2>1. \A n \in Payments : payment'[n].amount = payment[n].amount
    BY <1>3
  <2> SUFFICES ASSUME NEW S, S \subseteq Payments PROVE SumIn(payment', S) = SumIn(payment, S)
    OBVIOUS
  <2>2. \A n \in S : payment'[n].amount = payment[n].amount
    BY <2>1
  <2> QED BY ONLY <2>2, SumStays
<1>5. ASSUME NEW w
      PROVE  /\ Sum(PaymentsOf(w))' = Sum(PaymentsOf(w))
             /\ PaidFor(w)' <= PaidFor(w) /\ PaidFor(w)' \in Nat
  <2>1. PaymentsOf(w)' = PaymentsOf(w)
    BY <1>3 DEF PaymentsOf
  <2> DEFINE P == PaymentsOf(w)
             C == Completed(P)
  <2>2. PICK D : D = Completed(PaymentsOf(w))'
    OBVIOUS
  <2>3. P \in SUBSET Payments /\ C \in SUBSET P /\ D \in SUBSET C
    BY <1>3, <2>1, <2>2 DEF PaymentsOf, Completed
  <2>4. Sum(P)' = SumIn(payment', P) /\ PaidFor(w)' = SumIn(payment', D)
    BY <2>1, <2>2, SumsOfNext
  <2>5. Sum(P) = SumIn(payment, P) /\ PaidFor(w) = SumIn(payment, C)
    BY SumsOfNow
  <2> HIDE DEF P, C
  <2>6. SumIn(payment', P) = SumIn(payment, P) /\ SumIn(payment', D) = SumIn(payment, D)
    BY <1>4, <2>3
  <2>7. SumIn(payment, D) <= SumIn(payment, C) /\ SumIn(payment, D) \in Nat
    BY <1>1, <2>3, SumGrows, SumIsNat
  <2> QED BY <2>4, <2>5, <2>6, <2>7 DEF P
<1>6. \A i : RowsOf(i)' = RowsOf(i)
  BY <1>3 DEF RowsOf
<1> QED BY <1>2, <1>5, <1>6

LEMMA ServeRefundKeeps ==
    ASSUME IInv, NEW c \in Calls, ServeRefund(c)
    PROVE  IInv'
<1> USE IInvParts, Processes
<1>1. /\ call[c].state = "queued" /\ call[c].op = "refund" /\ job[Finance] = Idle
      /\ call[c] \in Requests
      /\ UNCHANGED <<invoice, nextRow, job, stripe, odoo, raced, troubled>>
  BY DEF ServeRefund, TypeOK
<1>2. PICK k \in Payments : k = call[c].target
  BY <1>1 DEF CallsAreServed
<1>3. PICK a : a = IF call[c].amount = 0 THEN payment[k].amount ELSE call[c].amount
  OBVIOUS
<1> DEFINE r == [payment[k] EXCEPT !.refund = @ + a, !.status = RefundedStatus(k, a)]
<1>4. PICK ans \in {"ok", "error"} :
        /\ Answered(c, ans)
        /\ \/ Refundable(k) /\ a <= payment[k].amount /\ payment' = [payment EXCEPT ![k] = r]
           \/ UNCHANGED payment
  <2>1. payment \in [Payments -> Rows]
    BY DEF TypeOK
  <2> QED BY <1>2, <1>3, <2>1 DEF ServeRefund, Committed
<1>5. /\ call' \in [Calls -> Requests] /\ call'[c].state = "finished" /\ call'[c].invoice = None
      /\ \A d \in Calls : d # c => call'[d] = call[d]
  BY <1>4, AnswerGiven
<1>6. \A d \in Calls : call'[d].invoice \in {call[d].invoice, None}
  BY <1>5
<1>7. Room'
  <2>1. Recording' \subseteq Recording /\ PaymentsQueued' \subseteq PaymentsQueued
    BY <1>1, <1>5 DEF Recording, PaymentsQueued
  <2> QED BY <1>1, <2>1, RoomStays
<1>8. JobsAreAsked'
  <2>1. JobsAreWhole' /\ LoopDelivers'
    BY <1>1 DEF JobsAreAsked, JobsAreWhole, LoopDelivers
  <2>2. FinanceServes'
    BY <1>1, <1>5 DEF JobsAreAsked, FinanceServes, Idle
  <2> QED BY <2>1, <2>2 DEF JobsAreAsked
<1>9. CASE UNCHANGED payment
  <2>1. TypeOK'
    BY <1>1, <1>5, <1>9 DEF TypeOK
  <2>2. InvoicesExist'
    BY <1>1, <1>6, <1>9, InvoicesStay
  <2>3. CoverIsKnown' /\ LedgerOK' /\ DeliveriesAreCounted'
    BY <1>1, <1>9, CoverStays, LedgerStays, DeliveriesStay
  <2>4. CallsAreServed' /\ AnswersAreTrue'
    BY <1>1, <1>4, <1>9, AnswersStayTrue
  <2>5. RowsAreIssued'
    BY <1>1, <1>7, <1>9 DEF RowsAreIssued, Room
  <2> QED BY <1>8, <2>1, <2>2, <2>3, <2>4, <2>5 DEF IInv, LedgerOK
<1>10. CASE Refundable(k) /\ a <= payment[k].amount /\ payment' = [payment EXCEPT ![k] = r]
  <2>1. payment[k] \in Rows /\ payment[k].status = "COMPLETED" /\ payment[k].refund = 0
    BY <1>10 DEF Refundable, TypeOK, LedgerOK, CompletedIsWhole
  <2>2. a \in Nat
    BY <1>1, <1>3, <2>1 DEF Requests, Rows
  <2>3. r \in [status : {RefundedStatus(k, a)}, invoice : {payment[k].invoice}, amount : {payment[k].amount},
               refund : {payment[k].refund + a}, ref : {payment[k].ref}, by : {payment[k].by}]
    BY <2>1 DEF Rows
  <2>4. RefundedStatus(k, a) \in {"REFUNDED", "PARTIALLY_REFUNDED"}
    BY DEF RefundedStatus
  <2> HIDE DEF r
  <2>5. /\ r \in Rows /\ r.status \notin {"none", "COMPLETED"} /\ r.refund = a
        /\ r.amount = payment[k].amount /\ r.invoice = payment[k].invoice
        /\ r.ref = payment[k].ref /\ r.by = payment[k].by
    BY <2>1, <2>2, <2>3, <2>4 DEF Rows
  <2>6. /\ payment' \in [Payments -> Rows] /\ payment'[k] = r
        /\ \A n \in Payments : n # k => payment'[n] = payment[n]
        /\ \A w : /\ Sum(PaymentsOf(w))' = Sum(PaymentsOf(w))
                  /\ PaidFor(w)' <= PaidFor(w) /\ PaidFor(w)' \in Nat
        /\ \A i : RowsOf(i)' = RowsOf(i)
    BY <1>10, <2>1, <2>5, PaymentRefunded
  <2>7. TypeOK'
    BY <1>1, <1>5, <2>6 DEF TypeOK
  <2>8. RowsAreIssued'
    <3> SUFFICES ASSUME NEW n \in Payments
                 PROVE  /\ payment'[n].status = "none" => payment'[n] = NoPayment
                        /\ payment'[n].status = "none" <=> n >= nextRow
      BY <1>1, <1>7 DEF RowsAreIssued, Room
    <3>1. CASE n = k
      BY <2>1, <2>5, <2>6, <3>1 DEF RowsAreIssued
    <3>2. CASE n # k
      BY <2>6, <3>2 DEF RowsAreIssued
    <3> QED BY <3>1, <3>2
  <2>9. InvoicesExist'
    <3>1. \A n \in Payments : payment'[n].invoice = payment[n].invoice
      BY <2>5, <2>6
    <3> SUFFICES ASSUME NEW w \in Invoices, invoice[w].status = "none"
                 PROVE  /\ \A n \in Payments : payment'[n].invoice # w
                        /\ \A p \in Procs : job[p].invoice # w
                        /\ \A d \in Calls : call'[d].invoice # w
                        /\ \A i \in Intents : stripe[i].invoice # w
      BY <1>1 DEF InvoicesExist
    <3>2. w # None
      BY DEF Invoices, None
    <3> QED BY <1>6, <3>1, <3>2 DEF InvoicesExist
  <2>10. CoverIsKnown'
    <3> SUFFICES ASSUME NEW q \in Procs, NEW w \in Invoices,
                        job[q].step = "commit", job[q].invoice = w
                 PROVE  /\ job[q].covers => Sum(PaymentsOf(w))' + job[q].amount >= invoice[w].total
                        /\ (~job[q].covers /\ w \notin raced) =>
                                PaidFor(w)' + job[q].amount <= invoice[w].total
                                /\ job[q].amount < invoice[w].total
                        /\ UnderWay(q, w) => w \in raced
      BY <1>1 DEF CoverIsKnown, UnderWay
    <3>1. job[q].amount \in Nat /\ invoice[w].total \in Nat /\ PaidFor(w) \in Nat
      BY SumsOrdered DEF TypeOK, Jobs
    <3>2. PaidFor(w)' <= PaidFor(w) /\ PaidFor(w)' \in Nat
      BY <2>6
    <3>3. (~job[q].covers /\ w \notin raced) =>
            PaidFor(w) + job[q].amount <= invoice[w].total /\ job[q].amount < invoice[w].total
      BY DEF CoverIsKnown
    <3> QED BY <2>6, <3>1, <3>2, <3>3 DEF CoverIsKnown
  <2>11. LedgerOK'
    <3>1. PaidWasCovered'
      BY <1>1, <2>6 DEF LedgerOK, PaidWasCovered
    <3>2. CoveredIsPaid'
      <4> SUFFICES ASSUME NEW w \in Invoices, invoice[w].status = "DRAFT", w \notin raced
                   PROVE  /\ PaidFor(w)' <= invoice[w].total
                          /\ \A n \in Payments : (payment'[n].status = "COMPLETED" /\ payment'[n].invoice = w) =>
                                payment'[n].amount < invoice[w].total
        BY <1>1 DEF CoveredIsPaid, Completed, PaymentsOf
      <4>1. PaidFor(w)' <= PaidFor(w) /\ PaidFor(w)' \in Nat /\ PaidFor(w) \in Nat
        BY <2>6, SumsOrdered
      <4>2. invoice[w].total \in Nat
        BY DEF TypeOK
      <4>3. /\ PaidFor(w) <= invoice[w].total
            /\ \A n \in Payments : (payment[n].status = "COMPLETED" /\ payment[n].invoice = w) =>
                  payment[n].amount < invoice[w].total
        BY DEF LedgerOK, CoveredIsPaid, Completed, PaymentsOf
      <4>4. \A n \in Payments : payment'[n].status = "COMPLETED" => payment'[n] = payment[n]
        BY <2>5, <2>6
      <4> QED BY <4>1, <4>2, <4>3, <4>4
    <3>3. CompletedIsWhole'
      BY <2>5, <2>6 DEF LedgerOK, CompletedIsWhole
    <3>4. RefundsFit'
      <4> SUFFICES ASSUME NEW n \in Payments PROVE payment'[n].refund <= payment'[n].amount
        BY DEF RefundsFit
      <4>1. CASE n = k
        BY <1>10, <2>5, <2>6, <4>1
      <4>2. CASE n # k
        BY <2>6, <4>2 DEF LedgerOK, RefundsFit
      <4> QED BY <4>1, <4>2
    <3> QED BY <3>1, <3>2, <3>3, <3>4 DEF LedgerOK
  <2>12. DeliveriesAreCounted'
    BY <1>1, <2>6 DEF DeliveriesAreCounted, At
  <2>13. CallsAreServed' /\ AnswersAreTrue'
    <3>1. \A n \in Payments : payment'[n].by = payment[n].by
      BY <2>5, <2>6
    <3> QED BY <1>1, <1>4, <3>1, AnswersStayTrue
  <2> QED BY <1>8, <2>7, <2>8, <2>9, <2>10, <2>11, <2>12, <2>13 DEF IInv, LedgerOK
<1> QED BY <1>4, <1>9, <1>10

-----------------------------------------------------------------------------
(* The theorems.                                                           *)

LEMMA Initially == Init => IInv
<1> SUFFICES ASSUME Init PROVE IInv
  OBVIOUS
<1> USE Processes, PaymentConstants
<1>1. \A v \in Invoices : /\ invoice[v].status \in {"none", "DRAFT"} /\ invoice[v].total \in Nat
                          /\ invoice[v].status # "none" => invoice[v].total > 0
  <2> SUFFICES ASSUME NEW v \in Invoices
               PROVE  /\ invoice[v].status \in {"none", "DRAFT"} /\ invoice[v].total \in Nat
                      /\ invoice[v].status # "none" => invoice[v].total > 0
    OBVIOUS
  <2>1. invoice[v] = NoInvoice \/ invoice[v] \in [status : {"DRAFT"}, total : Totals]
    BY DEF Init
  <2>2. CASE invoice[v] = NoInvoice
    BY <2>2 DEF NoInvoice
  <2>3. CASE invoice[v] \in [status : {"DRAFT"}, total : Totals]
    <3>1. invoice[v].status = "DRAFT" /\ invoice[v].total \in Totals
      BY <2>3
    <3>2. invoice[v].total \in Nat \ {0}
      BY <3>1
    <3> QED BY <3>1, <3>2
  <2> QED BY <2>1, <2>2, <2>3
<1>2. payment = [k \in Payments |-> NoPayment] /\ NoPayment \in Rows
  BY DEF Init, NoPayment, Rows
<1>3. job = [p \in Procs |-> Idle] /\ Idle \in Jobs
  BY JobsHave DEF Init
<1>4. stripe = [i \in Intents |-> NewIntent] /\ NewIntent \in IntentRows
  BY DEF Init, NewIntent, IntentRows
<1>5. call = [c \in Calls |-> NoCall] /\ NoCall \in Requests
  BY DEF Init, NoCall, Requests
<1>6. TypeOK
  <2>1. invoice \in [Invoices -> [status : {"none", "DRAFT", "PAID"}, total : Nat]]
    <3>1. NoInvoice \in [status : {"none", "DRAFT", "PAID"}, total : Nat]
      BY DEF NoInvoice
    <3>2. [status : {"DRAFT"}, total : Totals] \subseteq [status : {"none", "DRAFT", "PAID"}, total : Nat]
      OBVIOUS
    <3> QED BY <3>1, <3>2 DEF Init
  <2>2. odoo \in [Intents -> 0 .. MaxDeliveries] /\ nextRow \in 1 .. MaxPayments + 1
    BY DEF Init
  <2>3. raced \subseteq Invoices /\ troubled \subseteq Intents
    BY DEF Init
  <2> QED BY <1>2, <1>3, <1>4, <1>5, <2>1, <2>2, <2>3 DEF TypeOK
<1>7. RowsAreIssued
  <2>1. \A k \in Payments : payment[k] = NoPayment /\ payment[k].status = "none" /\ k >= nextRow
    BY <1>2 DEF Init, NoPayment, Payments
  <2>2. Recording = {} /\ PaymentsQueued = {}
    BY <1>3, <1>5, JobsHave DEF Recording, PaymentsQueued, NoCall
  <2>3. Cardinality(Recording) = 0 /\ Cardinality(PaymentsQueued) = 0 /\ nextRow = 1
    BY <2>2, FS_EmptySet DEF Init
  <2> QED BY <2>1, <2>3 DEF RowsAreIssued
<1>8. InvoicesExist
  <2>1. \A v \in Invoices : v # None
    BY DEF Invoices, None
  <2> QED BY <1>1, <1>2, <1>3, <1>4, <1>5, <2>1, JobsHave DEF InvoicesExist, NoPayment, NewIntent, NoCall
<1>9. JobsAreAsked
  BY <1>3, <1>5, JobsHave DEF JobsAreAsked, JobsAreWhole, LoopDelivers, FinanceServes, NoCall
<1>10. CoverIsKnown
  BY <1>3, JobsHave DEF CoverIsKnown
<1>11. PaidWasCovered
  BY <1>1 DEF PaidWasCovered
<1>12. CoveredIsPaid
  <2> SUFFICES ASSUME NEW v \in Invoices, invoice[v].status = "DRAFT"
               PROVE  PaidFor(v) <= invoice[v].total /\ Completed(PaymentsOf(v)) = {}
    BY DEF CoveredIsPaid
  <2>1. Completed(PaymentsOf(v)) = {}
    BY <1>2 DEF PaymentsOf, Completed, NoPayment
  <2>2. SumIn(payment, {}) = 0
    BY FS_EmptySet DEF SumIn, CentsIn
  <2>3. PaidFor(v) = 0
    BY <2>1, <2>2, SumsOfNow
  <2>4. invoice[v].total \in Nat
    BY <1>1
  <2> QED BY <2>1, <2>3, <2>4
<1>13. CompletedIsWhole /\ RefundsFit
  BY <1>2 DEF CompletedIsWhole, RefundsFit, NoPayment
<1>14. DeliveriesAreCounted
  <2> SUFFICES ASSUME NEW i \in Intents
               PROVE  /\ Cardinality(RowsOf(i)) = 0 /\ odoo[i] = 0 /\ stripe[i] = NewIntent
                      /\ ~At(i, {"read", "commit"}) /\ ~At(i, {"read", "commit", "sync"})
    <3>1. NewIntent.sent = 0 /\ NewIntent.shop = FALSE /\ NewIntent.acked = FALSE
      BY DEF NewIntent
    <3> QED BY <3>1 DEF DeliveriesAreCounted
  <2>1. RowsOf(i) = {}
    BY <1>2 DEF RowsOf, NoPayment
  <2> QED BY <1>3, <1>4, <2>1, FS_EmptySet, JobsHave DEF At, Init
<1>15. CallsAreServed /\ AnswersAreTrue
  <2> SUFFICES ASSUME NEW c \in Calls
               PROVE  RowsBy(c) = {} /\ Cardinality(RowsBy(c)) = 0 /\ call[c] = NoCall
    BY DEF CallsAreServed, AnswersAreTrue, NoCall
  <2>1. RowsBy(c) = {}
    BY <1>2 DEF RowsBy, NoPayment, Calls, None
  <2> QED BY <1>5, <2>1, FS_EmptySet
<1> QED BY <1>6, <1>7, <1>8, <1>9, <1>10, <1>11, <1>12, <1>13, <1>14, <1>15 DEF IInv

LEMMA StepKeeps ==
    ASSUME IInv, [Next]_vars
    PROVE  IInv'
<1> USE Processes, PaymentConstants
<1>1. CASE \E i \in Intents : CustomerPays(i) \/ Webhook(i)
  BY <1>1, CustomerPaysKeeps, WebhookKeeps
<1>2. CASE SyncToOdoo \/ Acknowledge \/ PickInvoice
  BY <1>2, SyncToOdooKeeps, AcknowledgeKeeps, PickInvoiceKeeps
<1>3. CASE AgentAsks
  <2>1. PICK c \in Calls :
            \/ \E t \in Totals : Ask(c, "invoice", None, t, None)
            \/ \E v \in Invoices \cup {None}, a \in Amounts : Ask(c, "payment", v, a, None)
            \/ \E k \in Payments, a \in Amounts \cup {0} : Ask(c, "refund", None, a, k)
    BY <1>3 DEF AgentAsks
  <2>2. CASE \E t \in Totals : Ask(c, "invoice", None, t, None)
    BY <2>2, AskKeeps
  <2>3. CASE \E v \in Invoices \cup {None}, a \in Amounts : Ask(c, "payment", v, a, None)
    BY <2>3, AskKeeps
  <2>4. CASE \E k \in Payments, a \in Amounts \cup {0} : Ask(c, "refund", None, a, k)
    BY <2>4, AskKeeps
  <2> QED BY <2>1, <2>2, <2>3, <2>4
<1>4. CASE Serve
  BY <1>4, ServePaymentKeeps, ServeInvoiceKeeps, ServeRefundKeeps DEF Serve
<1>5. CASE \E c \in Calls : TimeOut(c)
  BY <1>5, TimeOutKeeps
<1>6. CASE \E p \in Procs : Record(p) \/ Restart(p)
  BY <1>6, ReadPaidKeeps, CommitPaymentKeeps, RecordingFailsKeeps, RestartKeeps DEF Record
<1>7. CASE UNCHANGED vars
  <2>1. UNCHANGED <<invoice, payment, nextRow, job, stripe, odoo, call, raced, troubled>>
    BY <1>7 DEF vars
  <2>2. TypeOK' /\ RowsAreIssued' /\ InvoicesExist'
    BY <2>1, IInvParts DEF TypeOK, RowsAreIssued, InvoicesExist, Recording, PaymentsQueued
  <2>3. JobsAreAsked'
    BY <2>1, IInvParts DEF JobsAreAsked, JobsAreWhole, LoopDelivers, FinanceServes
  <2>4. CoverIsKnown' /\ LedgerOK' /\ CallsAreServed' /\ AnswersAreTrue' /\ DeliveriesAreCounted'
    BY <2>1, IInvParts, CoverStays, LedgerStays, CallsStay, DeliveriesStay
  <2> QED BY <2>2, <2>3, <2>4 DEF IInv, LedgerOK
<1> QED BY <1>1, <1>2, <1>3, <1>4, <1>5, <1>6, <1>7 DEF Next

\* The inductive invariant: what the tables, the recordings under way and the
\* calls say of each other (PaymentService, stripe_webhook, FinanceMCPClient).
THEOREM Invariance == Spec => []IInv
<1>1. Init => IInv
  BY Initially
<1>2. IInv /\ [Next]_vars => IInv'
  BY StepKeeps
<1> QED BY <1>1, <1>2, PTL DEF Spec

\* However the loop and the finance server interleave, an invoice is marked
\* PAID only when its payments cover it (record_payment).
THEOREM PaidIsCovered == Spec => []PaidWasCovered
<1>1. IInv => PaidWasCovered
  BY DEF IInv
<1> QED BY <1>1, Invariance, PTL

\* An invoice stays open only while its payments are no more than its total and
\* none of them covers it alone, unless two of them were recorded at the same
\* time (record_payment's sum).
THEOREM OnlyRacesHidePayment == Spec => []CoveredIsPaid
<1>1. IInv => CoveredIsPaid
  BY DEF IInv
<1> QED BY <1>1, Invariance, PTL

\* No more is given back of a payment than was paid (refund_payment).
THEOREM RefundsAreBounded == Spec => []RefundsFit
<1>1. IInv => RefundsFit
  BY DEF IInv
<1> QED BY <1>1, Invariance, PTL

\* The day's summary never shows more than the shop has kept (get_pos_summary):
\* the cents of the payments that count are among those kept.
THEOREM SummaryIsCovered == Spec => []SummaryNeverOverstates
<1>1. IInv => SummaryNeverOverstates
  <2> SUFFICES ASSUME IInv PROVE SummaryNeverOverstates
    OBVIOUS
  <2>1. payment \in [Payments -> Rows]
    BY DEF IInv, TypeOK
  <2>2. IsFiniteSet(CentsIn(payment, Payments))
    BY <2>1, CentsFinite
  <2>3. Kept \subseteq CentsIn(payment, Payments)
    <3>1. \A k \in Payments : payment[k].refund \in Nat /\ payment[k].amount \in Nat
      BY <2>1 DEF Rows
    <3> QED BY <3>1 DEF Kept, CentsIn
  <2>4. Cents(Completed(Payments)) \subseteq Kept
    <3>1. \A k \in Payments : payment[k].amount \in Nat
      BY <2>1 DEF Rows
    <3>2. \A k \in Completed(Payments) : k \in Payments /\ payment[k].refund = 0
      BY DEF Completed, IInv, CompletedIsWhole
    <3>3. \A k \in Completed(Payments) : payment[k].amount - payment[k].refund = payment[k].amount
      BY <3>1, <3>2
    <3> QED BY <3>2, <3>3 DEF Cents, Kept
  <2>5. IsFiniteSet(Kept)
    BY <2>2, <2>3, FS_Subset
  <2> QED BY <2>4, <2>5, FS_Subset DEF SummaryNeverOverstates, PosTotal, Sum
<1> QED BY <1>1, Invariance, PTL

\* Stripe's payments are recorded and entered once when nothing fails, and
\* never more often than they were delivered (stripe_webhook).
THEOREM BooksAgreeWithStripe == Spec => []BooksAgree
<1>1. IInv => BooksAgree
  <2> SUFFICES ASSUME IInv, NEW i \in Intents
               PROVE  /\ Cardinality(RowsOf(i)) <= stripe[i].sent /\ odoo[i] <= stripe[i].sent
                      /\ (stripe[i].acked /\ stripe[i].shop /\ i \notin troubled) =>
                            Cardinality(RowsOf(i)) = 1 /\ odoo[i] = 1
    BY DEF BooksAgree
  <2> USE IInvParts
  <2>1. Cardinality(RowsOf(i)) <= stripe[i].sent /\ odoo[i] <= stripe[i].sent
    BY CountsAreNats DEF DeliveriesAreCounted
  <2>2. ASSUME stripe[i].acked, stripe[i].shop, i \notin troubled
        PROVE  Cardinality(RowsOf(i)) = 1 /\ odoo[i] = 1
    <3>1. ~At(i, {"read", "commit"}) /\ ~At(i, {"read", "commit", "sync"})
      BY <2>2 DEF At, JobsAreAsked, LoopDelivers
    <3>2. stripe[i].sent > 0
      BY <2>2 DEF DeliveriesAreCounted
    <3> QED BY <2>2, <3>1, <3>2 DEF DeliveriesAreCounted
  <2> QED BY <2>1, <2>2
<1> QED BY <1>1, Invariance, PTL

\* A payment that the agent was told of exists, and no call pays twice
\* (FinanceMCPClient._post).
THEOREM AnswersCanBeBelieved == Spec => []AnswersAreTrue
<1>1. IInv => AnswersAreTrue
  BY DEF IInv
<1> QED BY <1>1, Invariance, PTL
=============================================================================
