------------------------- MODULE WalkInQueueProofs -------------------------
(***************************************************************************)
(* What WalkInQueue guarantees for any number of queues, customers,        *)
(* employees and pool threads.                                             *)
(***************************************************************************)
EXTENDS WalkInQueue, FiniteSetTheorems, SequenceTheorems, TLAPS

-----------------------------------------------------------------------------
(* Changes and rows.                                                       *)

\* Every change a handler can build is well formed and stamps what it sets.
LEMMA ChangesOK ==
    /\ NoChange \in Change /\ Stamped(NoChange)
    /\ Completion \in Change /\ Stamped(Completion)
    /\ Cancellation \in Change /\ Stamped(Cancellation)
    /\ \A e \in Employees \cup {Nobody, Same} : Service(e) \in Change /\ Stamped(Service(e))
    /\ \A s \in Statuses : StatusChange(s) \in Change /\ Stamped(StatusChange(s))
    /\ \A r \in Row : CheckoutChange(r) \in Change /\ Stamped(CheckoutChange(r))
    /\ \A e \in Employees : Assignment(e) \in Change /\ Stamped(Assignment(e))
<1> USE ConstantsOK DEF Change, NoChange, Stamped, Statuses, Active, Finished, Marks
<1>1. NoChange \in Change /\ Stamped(NoChange)
    OBVIOUS
<1>2. Completion \in Change /\ Stamped(Completion)
    BY DEF Completion
<1>3. Cancellation \in Change /\ Stamped(Cancellation)
    BY DEF Cancellation
<1>4. \A e \in Employees \cup {Nobody, Same} : Service(e) \in Change /\ Stamped(Service(e))
    BY DEF Service
<1>5. \A s \in Statuses : StatusChange(s) \in Change /\ Stamped(StatusChange(s))
    BY DEF StatusChange
<1>6. \A r \in Row : CheckoutChange(r) \in Change /\ Stamped(CheckoutChange(r))
    BY DEF CheckoutChange, Completion
<1>7. \A e \in Employees : Assignment(e) \in Change /\ Stamped(Assignment(e))
    BY DEF Assignment
<1>8. QED
    BY <1>1, <1>2, <1>3, <1>4, <1>5, <1>6, <1>7

LEMMA IdleOK == Idle \in Job /\ Stamped(Idle.change) /\ Idle.item = NoItem /\ Idle.step = "idle"
<1>1. 0 \in 0 .. MaxItems
    BY ConstantsOK
<1>2. QED
    BY <1>1, ChangesOK DEF Idle, Job, Steps, NoItem

\* The jobs the handlers write down.
LEMMA JobsOK ==
    ASSUME NEW j
    PROVE
    /\ \A i \in ItemIds : j = [Idle EXCEPT !.step = "pick", !.item = i] =>
        j \in Job /\ j.step = "pick" /\ j.item = i /\ j.change = Idle.change
    /\ \A q \in Queues : j = [Idle EXCEPT !.step = "lock", !.q = q] =>
        j \in Job /\ j.step = "lock" /\ j.item = NoItem /\ j.change = Idle.change
    /\ j = [Idle EXCEPT !.step = "create"] =>
        j \in Job /\ j.step = "create" /\ j.item = NoItem /\ j.change = Idle.change
    /\ \A i \in ItemIds, c \in Change :
        j = [Idle EXCEPT !.step = "write", !.item = i, !.change = c] =>
            j \in Job /\ j.step = "write" /\ j.item = i /\ j.change = c
    /\ \A q \in Queues, n \in 0 .. MaxItems :
        j = [Idle EXCEPT !.step = "insert", !.q = q, !.pos = n] =>
            /\ j \in Job /\ j.step = "insert" /\ j.q = q /\ j.pos = n
            /\ j.item = NoItem /\ j.change = Idle.change
<1> USE ConstantsOK DEF Idle, Job, Steps
<1>1. NoChange \in Change /\ 0 \in 0 .. MaxItems
    BY ChangesOK
<1>2. /\ Idle.q \in Queues \cup {NoQueue} /\ Idle.pos \in 0 .. MaxItems
      /\ Idle.item \in ItemIds \cup {NoItem} /\ Idle.todo \in SUBSET ItemIds
      /\ Idle.change \in Change
    BY <1>1
<1>3. QED
    BY <1>1, <1>2

\* The job of a call-next that has read the list.
CallJob(s, q, i, T, c) ==
    [step |-> s, q |-> q, pos |-> 0, item |-> i, todo |-> T, change |-> c]

LEMMA CallJobOK ==
    ASSUME NEW s \in {"complete", "promote"}, NEW q \in Queues, NEW i \in ItemIds \cup {NoItem},
           NEW T \in SUBSET ItemIds, NEW c \in Change
    PROVE  LET j == CallJob(s, q, i, T, c) IN
           j \in Job /\ j.step = s /\ j.item = i /\ j.change = c
<1>1. 0 \in 0 .. MaxItems /\ s \in Steps
    BY ConstantsOK DEF Steps
<1>2. QED
    BY <1>1 DEF CallJob, Job

\* An update keeps rows well formed and stamped, and only adds to the
\* waiting customers those it records as returned.
LEMMA UpdateOK ==
    ASSUME TypeOK, StampsMatchStatus,
           NEW i \in ItemIds, NEW c \in Change, Stamped(c), Update(i, c)
    PROVE  /\ row' \in [ItemIds -> Row]
           /\ returned' \subseteq ItemIds /\ returned \subseteq returned'
           /\ StampsMatchStatus'
           /\ \A j \in ItemIds : Live(j) /\ row'[j].status = "waiting"
                => row[j].status = "waiting" \/ j \in returned'
<1>1. Changed(row[i], c) \in Row
    BY DEF Changed, Row, Change, TypeOK
<1>2. /\ Changed(row[i], c).status = "being_served" => "started" \in Changed(row[i], c).marks
      /\ Changed(row[i], c).status \in Finished => "completed" \in Changed(row[i], c).marks
    BY ConstantsOK DEF Changed, Stamped, StampsMatchStatus, Statuses, Active, Finished
<1>3. Changed(row[i], c).status = "waiting" => row[i].status = "waiting" \/ c.status = "waiting"
    BY DEF Changed
<1>4. \A j \in ItemIds : row'[j] = row[j] \/ (j = i /\ Live(i) /\ row'[j] = Changed(row[i], c))
    BY DEF Update, TypeOK
<1>5. row' \in [ItemIds -> Row]
    BY <1>1 DEF Update, TypeOK
<1>6. StampsMatchStatus'
    BY <1>2, <1>4 DEF StampsMatchStatus
<1>7. returned' \subseteq ItemIds /\ returned \subseteq returned'
    BY DEF Update, TypeOK
<1>8. \A j \in ItemIds : Live(j) /\ row'[j].status = "waiting"
            => row[j].status = "waiting" \/ j \in returned'
    BY <1>3, <1>4 DEF Update
<1>9. QED
    BY <1>5, <1>6, <1>7, <1>8

-----------------------------------------------------------------------------
(* Steps that only move one request on.                                    *)

LEMMA QuietStep ==
    ASSUME IInv, NEW p \in Procs, NEW j \in Job, Goto(p, j),
           UNCHANGED <<lock, onShift, table>>,
           queue' \in [Queues -> {"unused", "active", "closed", "deleted"}],
           \A q \in Queues : Exists(q) => Exists(q)',
           j.step # "insert", j.item < nextItem,
           j.step \in {"pick", "write"} => j.item # NoItem,
           Stamped(j.change),
           j.step \in {"complete", "promote"} /\ j.item # NoItem /\ Live(j.item) =>
                \A k \in Waiting(place[j.item].queue) : k < j.item => k \in returned
    PROVE  IInv'
<1> USE DEF Goto, table
<1>1. job' = [job EXCEPT ![p] = j] /\ job' \in [Procs -> Job]
    BY DEF IInv, TypeOK
<1>2. \A r \in Procs : job'[r] = IF r = p THEN j ELSE job[r]
    BY <1>1 DEF IInv, TypeOK
<1>3. TypeOK'
    BY <1>1 DEF IInv, TypeOK
<1>4. IdsIssued'
    BY <1>2 DEF IInv, IdsIssued, Live
<1>5. NumberingIsLocked'
    BY <1>2 DEF IInv, NumberingIsLocked, Exists, ItemsOf
<1>6. ArrivalOrder' /\ StampsMatchStatus'
    BY DEF IInv, ArrivalOrder, StampsMatchStatus, Live
<1>7. ItemsHaveQueues'
    BY ConstantsOK DEF IInv, TypeOK, ItemsHaveQueues, Live, Exists, Place
<1>8. ChangesAreStamped'
    BY <1>2 DEF IInv, ChangesAreStamped, Stamped
<1>9. ChoiceIsFair'
    BY <1>2 DEF IInv, ChoiceIsFair, Live, Waiting, ItemsOf
<1>10. QED
    BY <1>3, <1>4, <1>5, <1>6, <1>7, <1>8, <1>9 DEF IInv

\* Shifts, new queues and closed queues disturb no request and no item.
LEMMA OutsideStep ==
    ASSUME IInv, UNCHANGED <<lock, job, table>>,
           queue' \in [Queues -> {"unused", "active", "closed", "deleted"}],
           \A q \in Queues : Exists(q) => Exists(q)',
           onShift' \subseteq Employees
    PROVE  IInv'
<1> USE DEF table
<1>1. TypeOK'
    BY DEF IInv, TypeOK
<1>2. IdsIssued' /\ ArrivalOrder' /\ ChangesAreStamped' /\ StampsMatchStatus'
    BY DEF IInv, IdsIssued, ArrivalOrder, ChangesAreStamped, StampsMatchStatus, Live
<1>3. NumberingIsLocked'
    BY DEF IInv, NumberingIsLocked, Exists, ItemsOf
<1>4. ItemsHaveQueues'
    BY ConstantsOK DEF IInv, TypeOK, ItemsHaveQueues, Live, Exists, Place
<1>5. ChoiceIsFair'
    BY DEF IInv, ChoiceIsFair, Live, Waiting, ItemsOf
<1>6. QED
    BY <1>1, <1>2, <1>3, <1>4, <1>5 DEF IInv

-----------------------------------------------------------------------------
(* Steps that write queue items.                                           *)

\* An update by process p, which then goes on to job j.
LEMMA UpdateStep ==
    ASSUME IInv, NEW p \in Procs, NEW j \in Job, Goto(p, j),
           NEW i \in ItemIds, NEW c \in Change, Stamped(c), Update(i, c),
           UNCHANGED <<queue, place, nextItem, lock, onShift>>,
           j.step \notin {"insert", "pick", "write"}, j.item < nextItem,
           Stamped(j.change),
           j.step \in {"complete", "promote"} =>
                j.item = job[p].item /\ job[p].step \in {"complete", "promote"}
    PROVE  IInv'
<1> USE DEF Goto
<1>1. /\ row' \in [ItemIds -> Row]
      /\ returned' \subseteq ItemIds /\ returned \subseteq returned'
      /\ StampsMatchStatus'
      /\ \A k \in ItemIds : Live(k) /\ row'[k].status = "waiting"
            => row[k].status = "waiting" \/ k \in returned'
    BY UpdateOK DEF IInv
<1>2. /\ job' = [job EXCEPT ![p] = j] /\ job' \in [Procs -> Job]
      /\ \A r \in Procs : job'[r] = IF r = p THEN j ELSE job[r]
    BY DEF IInv, TypeOK
<1>3. TypeOK'
    BY <1>1, <1>2 DEF IInv, TypeOK
<1>4. IdsIssued'
    BY <1>2 DEF IInv, IdsIssued, Live
<1>5. NumberingIsLocked'
    BY <1>2 DEF IInv, NumberingIsLocked, Exists, ItemsOf
<1>6. ArrivalOrder' /\ ItemsHaveQueues'
    BY DEF IInv, ArrivalOrder, ItemsHaveQueues, Live, Exists
<1>7. ChangesAreStamped'
    BY <1>2 DEF IInv, ChangesAreStamped, Stamped
<1>8. ChoiceIsFair'
  <2> SUFFICES ASSUME NEW r \in Procs, job'[r].step \in {"complete", "promote"},
                      job'[r].item # NoItem, place'[job'[r].item].queue # NoQueue,
                      NEW k \in ItemIds, place'[k].queue = place'[job'[r].item].queue,
                      row'[k].status = "waiting", k < job'[r].item
               PROVE  k \in returned'
      BY DEF ChoiceIsFair, Waiting, ItemsOf, Live
  <2>1. job[r].step \in {"complete", "promote"} /\ job[r].item = job'[r].item
      BY <1>2
  <2>2. Live(job[r].item) /\ Live(k) /\ k \in ItemsOf(place[job[r].item].queue)
      BY <2>1 DEF Live, ItemsOf
  <2>3. CASE row[k].status = "waiting"
      BY <1>1, <2>1, <2>2, <2>3 DEF IInv, ChoiceIsFair, Waiting
  <2>4. QED
      BY <1>1, <2>2, <2>3
<1>9. QED
    BY <1>1, <1>3, <1>4, <1>5, <1>6, <1>7, <1>8 DEF IInv

\* The insert: the lock makes the number read the highest of its queue.
LEMMA InsertStep ==
    ASSUME IInv, NEW p \in Procs, JoinInsert(p)
    PROVE  IInv'
<1> DEFINE n == nextItem
           q == job[p].q
<1> USE DEF JoinInsert, Goto, Done
<1>1. /\ q \in Queues /\ q # NoQueue
      /\ lock[q] = p /\ Exists(q)
      /\ \A i \in ItemsOf(q) : place[i].pos < job[p].pos
      /\ job[p].pos \in 0 .. MaxItems
      /\ n \in ItemIds /\ n \in Nat
    BY ConstantsOK DEF IInv, NumberingIsLocked, TypeOK, Job, ItemIds
<1>2. ~Live(n)
    BY <1>1 DEF IInv, IdsIssued
<1>3. /\ place' \in [ItemIds -> Place]
      /\ \A i \in ItemIds : place'[i] = IF i = n THEN [queue |-> q, pos |-> job[p].pos] ELSE place[i]
    BY <1>1 DEF IInv, TypeOK, Place
<1>4. /\ row' \in [ItemIds -> Row]
      /\ \A i \in ItemIds : row'[i] = IF i = n THEN NewRow ELSE row[i]
      /\ NewRow.status = "waiting"
    BY <1>1 DEF IInv, TypeOK, Row, NewRow, Statuses, Active
<1> DEFINE next == IF p = Loop THEN [Idle EXCEPT !.step = "pick", !.item = n] ELSE Idle
<1>5. /\ next \in Job /\ next.change = Idle.change
      /\ next.step \in {"idle", "pick"}
      /\ next.item = NoItem \/ next.item = n
      /\ next.step = "pick" => next.item # NoItem
  <2>1. CASE p = Loop
    <3>1. next = [Idle EXCEPT !.step = "pick", !.item = n] /\ n # 0
        BY <1>1, <2>1 DEF ItemIds
    <3>2. n \in ItemIds
        BY <1>1
    <3> HIDE DEF next, n, JoinInsert
    <3>3. /\ next \in Job /\ next.step = "pick"
          /\ next.item = n /\ next.change = Idle.change
        BY <3>1, <3>2, JobsOK
    <3>4. QED
        BY <3>1, <3>3 DEF NoItem
  <2>2. CASE p # Loop
      BY <2>2, IdleOK
  <2>3. QED
      BY <2>1, <2>2
<1> HIDE DEF next
<1>6. job' \in [Procs -> Job] /\ \A r \in Procs : job'[r] = IF r = p THEN next ELSE job[r]
    BY <1>5 DEF IInv, TypeOK, next
<1>7. TypeOK'
    BY <1>1, <1>3, <1>4, <1>6, ConstantsOK DEF IInv, TypeOK, ItemIds, Released
<1>8. IdsIssued'
  <2>1. nextItem' = n + 1 /\ \A r \in Procs : job[r].item \in Nat
      BY <1>1, ConstantsOK DEF IInv, TypeOK, Job, ItemIds, NoItem
  <2>2. \A i \in ItemIds : place'[i].queue # NoQueue => i < nextItem'
    <3> TAKE i \in ItemIds
    <3>1. i \in Nat
        BY ConstantsOK DEF ItemIds
    <3>2. i = n \/ (place'[i].queue # NoQueue => i < n)
        BY <1>3 DEF IInv, IdsIssued, Live
    <3>3. QED
        BY <1>1, <2>1, <3>1, <3>2
  <2>3. \A r \in Procs : job'[r].item < nextItem'
    <3> TAKE r \in Procs
    <3>1. CASE r = p
        BY <1>1, <1>5, <1>6, <2>1, <3>1 DEF NoItem
    <3>2. CASE r # p
        BY <1>1, <1>6, <2>1, <3>2 DEF IInv, IdsIssued
    <3>3. QED
        BY <3>1, <3>2
  <2>4. \A r \in Procs : job'[r].step \in {"pick", "write"} => job'[r].item # NoItem
      BY <1>5, <1>6 DEF IInv, IdsIssued
  <2>5. QED
      BY <2>2, <2>3, <2>4 DEF IdsIssued, Live
<1>9. NumberingIsLocked'
  <2> SUFFICES ASSUME NEW r \in Procs, job'[r].step = "insert"
               PROVE  /\ job'[r].q \in Queues /\ lock'[job'[r].q] = r
                      /\ queue'[job'[r].q] \in {"active", "closed"}
                      /\ \A i \in ItemIds : place'[i].queue = job'[r].q
                            => place'[i].pos < job'[r].pos
      BY DEF NumberingIsLocked, Exists, ItemsOf
  <2>1. r # p /\ job'[r] = job[r] /\ job[r].step = "insert"
      BY <1>5, <1>6
  <2>2. /\ job[r].q \in Queues /\ lock[job[r].q] = r /\ Exists(job[r].q)
        /\ \A i \in ItemsOf(job[r].q) : place[i].pos < job[r].pos
      BY <2>1 DEF IInv, NumberingIsLocked
  <2>3. job[r].q # q
      BY <1>1, <2>1, <2>2
  <2>4. lock'[job[r].q] = r
      BY <2>1, <2>2 DEF Released
  <2>5. \A i \in ItemIds : place'[i].queue = job[r].q => place[i] = place'[i]
      BY <1>3, <2>3
  <2>6. QED
      BY <2>1, <2>2, <2>4, <2>5 DEF Exists, ItemsOf
<1>10. ArrivalOrder'
  <2> SUFFICES ASSUME NEW i \in ItemIds, NEW j \in ItemIds, Live(i)',
                      place'[i].queue = place'[j].queue, i < j
               PROVE  place'[i].pos < place'[j].pos
      BY DEF ArrivalOrder, Live
  <2>1. CASE i # n /\ j # n
      BY <1>3, <2>1 DEF IInv, ArrivalOrder, Live
  <2>2. CASE j = n
      BY <1>1, <1>3, <2>2 DEF ItemsOf
  <2>3. CASE i = n
    <3>1. j # n /\ place[j].queue = q
        BY <1>1, <1>3, <2>3
    <3>2. j < n
        BY <1>1, <3>1 DEF IInv, IdsIssued, Live
    <3>3. QED
        BY <1>1, <2>3, <3>2 DEF ItemIds
  <2>4. QED
      BY <2>1, <2>2, <2>3
<1>11. ItemsHaveQueues'
    BY <1>1, <1>3 DEF IInv, ItemsHaveQueues, Live, Exists
<1>12. ChangesAreStamped'
    BY <1>5, <1>6, IdleOK DEF IInv, ChangesAreStamped, Stamped
<1>13. StampsMatchStatus'
    BY <1>4 DEF IInv, StampsMatchStatus, Finished
<1>14. ChoiceIsFair'
  <2> SUFFICES ASSUME NEW r \in Procs, job'[r].step \in {"complete", "promote"},
                      job'[r].item # NoItem, place'[job'[r].item].queue # NoQueue,
                      NEW k \in ItemIds, place'[k].queue = place'[job'[r].item].queue,
                      row'[k].status = "waiting", k < job'[r].item
               PROVE  k \in returned'
      BY DEF ChoiceIsFair, Waiting, ItemsOf, Live
  <2>1. r # p /\ job'[r] = job[r]
      BY <1>5, <1>6
  <2>2. job[r].item \in ItemIds /\ job[r].item < n
      BY <2>1 DEF IInv, TypeOK, Job, IdsIssued
  <2>3. k # n /\ job[r].item # n
      BY <1>1, <2>1, <2>2 DEF ItemIds
  <2>4. Live(job[r].item) /\ k \in Waiting(place[job[r].item].queue)
      BY <1>3, <1>4, <2>1, <2>2, <2>3 DEF Live, Waiting, ItemsOf
  <2>5. QED
      BY <2>1, <2>4 DEF IInv, ChoiceIsFair
<1>15. QED
    BY <1>7, <1>8, <1>9, <1>10, <1>11, <1>12, <1>13, <1>14 DEF IInv
\* A queue's items are dropped, the queue itself stays or goes; it goes only
\* when nobody holds its lock.
LEMMA DropStep ==
    ASSUME IInv, NEW q \in Queues, DropItems(q),
           UNCHANGED <<nextItem, lock, onShift, job>>,
           queue' = queue \/ (Unlocked(q) /\ queue' = [queue EXCEPT ![q] = "deleted"])
    PROVE  IInv'
<1>1. /\ place' \in [ItemIds -> Place] /\ row' \in [ItemIds -> Row]
      /\ returned' \subseteq ItemIds
      /\ queue' \in [Queues -> {"unused", "active", "closed", "deleted"}]
    BY ConstantsOK DEF IInv, TypeOK, DropItems, ItemsOf, Place, NoPlace, Row, NewRow, Statuses, Active
<1>2. \A i \in ItemIds :
        /\ place'[i] = IF place[i].queue = q THEN NoPlace ELSE place[i]
        /\ row'[i] = IF place[i].queue = q THEN NewRow ELSE row[i]
        /\ NoPlace.queue = NoQueue /\ NewRow.status = "waiting"
    BY DEF DropItems, ItemsOf, NoPlace, NewRow
<1>3. \A i \in ItemIds : place'[i].queue # NoQueue => place'[i] = place[i] /\ row'[i] = row[i]
                                                     /\ place[i].queue # q
    BY <1>2
<1>4. \A x \in Queues : x # q => queue'[x] = queue[x]
    BY DEF IInv, TypeOK
<1>5. TypeOK'
    BY <1>1 DEF IInv, TypeOK
<1>6. IdsIssued'
    BY <1>3 DEF IInv, IdsIssued, Live
<1>7. NumberingIsLocked'
  <2> SUFFICES ASSUME NEW r \in Procs, job[r].step = "insert"
               PROVE  /\ job[r].q \in Queues /\ lock[job[r].q] = r
                      /\ queue'[job[r].q] \in {"active", "closed"}
                      /\ \A i \in ItemIds : place'[i].queue = job[r].q => place'[i].pos < job[r].pos
      BY DEF NumberingIsLocked, Exists, ItemsOf
  <2>1. /\ job[r].q \in Queues /\ job[r].q # NoQueue /\ lock[job[r].q] = r /\ Exists(job[r].q)
        /\ \A i \in ItemsOf(job[r].q) : place[i].pos < job[r].pos
      BY ConstantsOK DEF IInv, NumberingIsLocked
  <2>2. queue'[job[r].q] \in {"active", "closed"}
      BY <1>4, <2>1, ConstantsOK DEF Unlocked, Exists
  <2>3. QED
      BY <1>3, <2>1, <2>2 DEF ItemsOf
<1>8. ArrivalOrder'
    BY <1>3 DEF IInv, ArrivalOrder, Live
<1>9. ItemsHaveQueues'
    BY <1>3, <1>4, ConstantsOK DEF IInv, TypeOK, Place, ItemsHaveQueues, Live, Exists
<1>10. ChangesAreStamped'
    BY DEF IInv, ChangesAreStamped
<1>11. StampsMatchStatus'
    BY <1>2 DEF IInv, StampsMatchStatus, Finished
<1>12. ChoiceIsFair'
  <2> SUFFICES ASSUME NEW r \in Procs, job[r].step \in {"complete", "promote"},
                      job[r].item # NoItem, place'[job[r].item].queue # NoQueue,
                      NEW k \in ItemIds, place'[k].queue = place'[job[r].item].queue,
                      row'[k].status = "waiting", k < job[r].item
               PROVE  k \in returned'
      BY DEF ChoiceIsFair, Waiting, ItemsOf, Live
  <2>1. job[r].item \in ItemIds
      BY DEF IInv, TypeOK, Job
  <2>2. Live(job[r].item) /\ k \in Waiting(place[job[r].item].queue) /\ k \notin ItemsOf(q)
      BY <1>3, <2>1 DEF Live, Waiting, ItemsOf
  <2>3. k \in returned
      BY <2>2 DEF IInv, ChoiceIsFair
  <2>4. QED
      BY <2>2, <2>3 DEF DropItems
<1>13. QED
    BY <1>5, <1>6, <1>7, <1>8, <1>9, <1>10, <1>11, <1>12 DEF IInv

-----------------------------------------------------------------------------
(* Locking and unlocking.                                                  *)

LEMMA LockStep ==
    ASSUME IInv, NEW p \in Procs, NEW q \in Queues, Exists(q), LockAndNumber(p, q),
           UNCHANGED <<queue, onShift, table>>
    PROVE  IInv'
<1>1. PICK n \in 0 .. MaxItems - 1 :
        IsLastPosition(q, n) /\ Goto(p, [Idle EXCEPT !.step = "insert", !.q = q, !.pos = n + 1])
    BY DEF LockAndNumber
<1> DEFINE j == [Idle EXCEPT !.step = "insert", !.q = q, !.pos = n + 1]
<1>2. n + 1 \in 0 .. MaxItems /\ j = [Idle EXCEPT !.step = "insert", !.q = q, !.pos = n + 1]
    BY ConstantsOK
<1>3. Goto(p, j)
    BY <1>1
<1> HIDE DEF j
<1>4. /\ j \in Job /\ j.step = "insert" /\ j.q = q /\ j.pos = n + 1
      /\ j.item = NoItem /\ j.change = Idle.change
  <2>1. \A x \in Queues, k \in 0 .. MaxItems :
            j = [Idle EXCEPT !.step = "insert", !.q = x, !.pos = k] =>
                /\ j \in Job /\ j.step = "insert" /\ j.q = x /\ j.pos = k
                /\ j.item = NoItem /\ j.change = Idle.change
      BY JobsOK, Zenon
  <2>2. QED
      BY <1>2, <2>1, Zenon
<1>5. job' \in [Procs -> Job] /\ \A r \in Procs : job'[r] = IF r = p THEN j ELSE job[r]
    BY <1>3, <1>4 DEF Goto, IInv, TypeOK
<1>6. /\ lock' \in [Queues -> Procs \cup {NoProc}]
      /\ \A x \in Queues : lock'[x] = IF x = q THEN p ELSE lock[x]
      /\ lock[q] = NoProc
    BY DEF LockAndNumber, Unlocked, IInv, TypeOK
<1> USE DEF table
<1>7. TypeOK'
    BY <1>5, <1>6 DEF IInv, TypeOK
<1>8. IdsIssued'
    BY <1>4, <1>5 DEF IInv, IdsIssued, Live, TypeOK, NoItem
<1>9. NumberingIsLocked'
  <2> SUFFICES ASSUME NEW r \in Procs, job'[r].step = "insert"
               PROVE  /\ job'[r].q \in Queues /\ lock'[job'[r].q] = r
                      /\ queue[job'[r].q] \in {"active", "closed"}
                      /\ \A i \in ItemIds : place[i].queue = job'[r].q => place[i].pos < job'[r].pos
      BY DEF NumberingIsLocked, Exists, ItemsOf
  <2>1. CASE r = p
    <3>1. \A i \in ItemsOf(q) : place[i].pos \in Nat /\ place[i].pos <= n
        BY <1>1, ConstantsOK DEF IsLastPosition, ItemsOf, IInv, TypeOK, Place
    <3>2. QED
        BY <1>4, <1>5, <1>6, <2>1, <3>1 DEF Exists, ItemsOf
  <2>2. CASE r # p
    <3>1. /\ job'[r] = job[r] /\ job[r].q \in Queues /\ lock[job[r].q] = r /\ Exists(job[r].q)
          /\ \A i \in ItemsOf(job[r].q) : place[i].pos < job[r].pos
        BY <1>5, <2>2 DEF IInv, NumberingIsLocked
    <3>2. job[r].q # q
        BY <1>6, <3>1, ConstantsOK
    <3>3. QED
        BY <1>6, <3>1, <3>2 DEF Exists, ItemsOf
  <2>3. QED
      BY <2>1, <2>2
<1>10. ArrivalOrder' /\ ItemsHaveQueues' /\ StampsMatchStatus'
    BY DEF IInv, ArrivalOrder, ItemsHaveQueues, StampsMatchStatus, Live, Exists
<1>11. ChangesAreStamped'
    BY <1>4, <1>5, IdleOK DEF IInv, ChangesAreStamped, Stamped
<1>12. ChoiceIsFair'
    BY <1>4, <1>5 DEF IInv, ChoiceIsFair, Live, Waiting, ItemsOf
<1>13. QED
    BY <1>7, <1>8, <1>9, <1>10, <1>11, <1>12 DEF IInv

LEMMA FailStep ==
    ASSUME IInv, NEW p \in Procs, Fail(p)
    PROVE  IInv'
<1>1. /\ job' \in [Procs -> Job] /\ \A r \in Procs : job'[r] = IF r = p THEN Idle ELSE job[r]
    BY IdleOK DEF Fail, Done, Goto, IInv, TypeOK
<1>2. /\ lock' \in [Queues -> Procs \cup {NoProc}]
      /\ \A x \in Queues : lock'[x] = IF lock[x] = p THEN NoProc ELSE lock[x]
    BY DEF Fail, Released, IInv, TypeOK
<1>3. UNCHANGED <<queue, onShift, place, row, nextItem, returned>>
    BY DEF Fail, table
<1>4. TypeOK'
    BY <1>1, <1>2, <1>3 DEF IInv, TypeOK
<1>5. IdsIssued'
    BY <1>1, <1>3, IdleOK DEF IInv, IdsIssued, Live, TypeOK, NoItem
<1>6. NumberingIsLocked'
    BY <1>1, <1>2, <1>3, IdleOK DEF IInv, NumberingIsLocked, Exists, ItemsOf
<1>7. ArrivalOrder' /\ ItemsHaveQueues' /\ StampsMatchStatus'
    BY <1>3 DEF IInv, ArrivalOrder, ItemsHaveQueues, StampsMatchStatus, Live, Exists
<1>8. ChangesAreStamped'
    BY <1>1, IdleOK DEF IInv, ChangesAreStamped, Stamped
<1>9. ChoiceIsFair'
    BY <1>1, <1>3, IdleOK DEF IInv, ChoiceIsFair, Live, Waiting, ItemsOf
<1>10. QED
    BY <1>4, <1>5, <1>6, <1>7, <1>8, <1>9 DEF IInv
-----------------------------------------------------------------------------
(* One lemma per kind of request.                                          *)

\* A handler that has read an item it will write.
LEMMA ReadThenWriteStep ==
    ASSUME IInv, NEW i \in ItemIds, Live(i), NEW c \in Change, Stamped(c), ReadThenWrite(i, c)
    PROVE  IInv'
<1> DEFINE j == [Idle EXCEPT !.step = "write", !.item = i, !.change = c]
<1>1. Goto(Loop, j) /\ UNCHANGED <<queue, lock, onShift, table>> /\ Loop \in Procs
    BY DEF ReadThenWrite, Procs
<1>2. j = [Idle EXCEPT !.step = "write", !.item = i, !.change = c]
    OBVIOUS
<1> HIDE DEF j
<1>3. j \in Job /\ j.step = "write" /\ j.item = i /\ j.change = c
    BY <1>2, JobsOK
<1>4. i < nextItem /\ i # NoItem
    BY ConstantsOK DEF IInv, IdsIssued, ItemIds, NoItem
<1>5. queue' \in [Queues -> {"unused", "active", "closed", "deleted"}]
      /\ \A q \in Queues : Exists(q) => Exists(q)'
    BY <1>1 DEF IInv, TypeOK, Exists
<1>6. QED
    BY <1>1, <1>3, <1>4, <1>5, QuietStep

\* A request that ends, or goes to the step "create", without writing.
LEMMA EndStep ==
    ASSUME IInv, NEW p \in Procs,
           Done(p) \/ Goto(p, [Idle EXCEPT !.step = "create"]),
           UNCHANGED <<queue, lock, onShift, table>>
    PROVE  IInv'
<1>1. queue' \in [Queues -> {"unused", "active", "closed", "deleted"}]
      /\ \A q \in Queues : Exists(q) => Exists(q)'
    BY DEF IInv, TypeOK, Exists
<1>2. PICK j : Goto(p, j) /\ (j = Idle \/ j = [Idle EXCEPT !.step = "create"])
    BY DEF Done
<1>3. j \in Job /\ j.step \in {"idle", "create"} /\ j.item = NoItem /\ Stamped(j.change)
    BY <1>2, IdleOK, JobsOK
<1>4. NoItem < nextItem
    BY ConstantsOK DEF IInv, TypeOK, NoItem
<1>5. QED
    BY <1>1, <1>2, <1>3, <1>4, QuietStep

\* A backend join that knows its queue, whether found or just created.
LEMMA FoundQueueStep ==
    ASSUME IInv, NEW p \in Procs, NEW q \in Queues,
           Goto(p, [Idle EXCEPT !.step = "lock", !.q = q]) \/ Done(p),
           UNCHANGED <<lock, onShift, table>>,
           queue' \in [Queues -> {"unused", "active", "closed", "deleted"}],
           \A x \in Queues : Exists(x) => Exists(x)'
    PROVE  IInv'
<1>1. PICK j : Goto(p, j) /\ (j = [Idle EXCEPT !.step = "lock", !.q = q] \/ j = Idle)
    BY DEF Done
<1>2. j \in Job /\ j.step \in {"idle", "lock"} /\ j.item = NoItem /\ Stamped(j.change)
    BY <1>1, IdleOK, JobsOK
<1>3. NoItem < nextItem
    BY ConstantsOK DEF IInv, TypeOK, NoItem
<1>4. QED
    BY <1>1, <1>2, <1>3, QuietStep

LEMMA NewQueue ==
    ASSUME IInv, NEW q \in Unused, queue' = [queue EXCEPT ![q] = "active"]
    PROVE  /\ queue' \in [Queues -> {"unused", "active", "closed", "deleted"}]
           /\ \A x \in Queues : Exists(x) => Exists(x)'
BY DEF IInv, TypeOK, Unused, Exists

\* The choice of call-next: by ArrivalOrder the first position belongs to the
\* customer who joined first.
LEMMA CallNextStep ==
    ASSUME IInv, NEW p \in Procs, NEW q \in Queues, NEW e \in Employees \cup {Nobody},
           CallNext(p, q, e)
    PROVE  IInv'
<1>1. PICK i \in ItemIds \cup {NoItem}, s \in {"complete", "promote"}, T \in SUBSET ItemIds,
           c \in Change :
        /\ i # NoItem => i \in FirstWaiting(q)
        /\ Stamped(c)
        /\ Goto(p, CallJob(s, q, i, T, c))
  <2>1. Service(e) \in Change /\ Stamped(Service(e)) /\ Serving(q) \in SUBSET ItemIds
      BY ChangesOK DEF Serving, ItemsOf
  <2>2. \A i \in IF Waiting(q) = {} THEN {NoItem} ELSE FirstWaiting(q) :
            i \in ItemIds \cup {NoItem} /\ (i # NoItem => i \in FirstWaiting(q))
      BY DEF FirstWaiting, Waiting, ItemsOf
  <2>3. QED
      BY <2>1, <2>2 DEF CallNext, CallJob
<1>2. PICK j \in Job : Goto(p, j) /\ j.step = s /\ j.item = i /\ j.change = c
    BY <1>1, CallJobOK
<1>3. i < nextItem
  <2>1. CASE i = NoItem
      BY <2>1, ConstantsOK DEF IInv, TypeOK, NoItem
  <2>2. CASE i # NoItem
      BY <1>1, <2>2, ConstantsOK DEF FirstWaiting, Waiting, ItemsOf, IInv, IdsIssued, Live
  <2>3. QED
      BY <2>1, <2>2
<1>4. ASSUME i # NoItem, NEW k \in Waiting(place[i].queue), k < i
      PROVE  k \in returned
  <2>1. i \in ItemIds /\ place[i].queue = q /\ place[k].queue = q /\ k \in ItemIds /\ Live(k)
      BY <1>1, <1>4, ConstantsOK DEF FirstWaiting, Waiting, ItemsOf, Live
  <2>2. place[k].pos < place[i].pos
      BY <1>4, <2>1 DEF IInv, ArrivalOrder
  <2>3. place[i].pos <= place[k].pos
      BY <1>1, <1>4, <2>1 DEF FirstWaiting
  <2>4. place[i].pos \in Nat /\ place[k].pos \in Nat
      BY <2>1, ConstantsOK DEF IInv, TypeOK, Place
  <2>5. QED
      BY <2>2, <2>3, <2>4
<1>5. UNCHANGED <<queue, lock, onShift, table>>
      /\ queue' \in [Queues -> {"unused", "active", "closed", "deleted"}]
      /\ \A x \in Queues : Exists(x) => Exists(x)'
    BY DEF CallNext, IInv, TypeOK, Exists
<1>6. QED
    BY <1>1, <1>2, <1>3, <1>4, <1>5, QuietStep
-----------------------------------------------------------------------------
(* Every step, and the theorems.                                           *)

LEMMA InitOK == Init => IInv
<1> SUFFICES ASSUME Init PROVE IInv
    OBVIOUS
<1>1. TypeOK
    BY ConstantsOK, IdleOK DEF Init, TypeOK, Place, NoPlace, Row, NewRow, Statuses, Active, Marks
<1>2. IdsIssued /\ NumberingIsLocked /\ ChangesAreStamped /\ ChoiceIsFair
    BY IdleOK DEF Init, IdsIssued, NumberingIsLocked, ChangesAreStamped, ChoiceIsFair, Live, NoPlace, NoItem
<1>3. ArrivalOrder /\ ItemsHaveQueues
    BY DEF Init, ArrivalOrder, ItemsHaveQueues, Live, NoPlace
<1>4. StampsMatchStatus
    BY DEF Init, StampsMatchStatus, NewRow, Finished
<1>5. QED
    BY <1>1, <1>2, <1>3, <1>4 DEF IInv

\* The next transaction of a request that is under way.
LEMMA ContinueStep == ASSUME IInv, NEW p \in Procs, Continue(p) PROVE IInv'
<1>1. CASE CreateQueue(p)
  <2>1. PICK q \in Unused :
            /\ queue' = [queue EXCEPT ![q] = "active"]
            /\ IF p = Loop THEN Goto(p, [Idle EXCEPT !.step = "lock", !.q = q]) ELSE Done(p)
      BY <1>1 DEF CreateQueue
  <2>2. q \in Queues /\ UNCHANGED <<lock, onShift, table>>
      BY <1>1 DEF CreateQueue, Unused
  <2>3. QED
      BY <2>1, <2>2, NewQueue, FoundQueueStep
<1>2. CASE JoinLock(p)
  <2>1. job[p].q \in Queues
      BY <1>2 DEF JoinLock, Exists
  <2>2. QED
      BY <1>2, <2>1, LockStep DEF JoinLock
<1>3. CASE JoinInsert(p)
    BY <1>3, InsertStep
<1>4. CASE PickAssignee(p)
  <2>1. CASE Done(p)
      BY <1>4, <2>1, EndStep DEF PickAssignee
  <2>2. ASSUME NEW e \in LeastBusy,
               Goto(p, [job[p] EXCEPT !.step = "write", !.change = Assignment(e)])
        PROVE  IInv'
    <3>1. Assignment(e) \in Change /\ Stamped(Assignment(e)) /\ job[p] \in Job
        BY <2>2, ChangesOK DEF LeastBusy, IInv, TypeOK
    <3> DEFINE j == [job[p] EXCEPT !.step = "write", !.change = Assignment(e)]
    <3>2. /\ Goto(p, j) /\ j \in Job /\ j.step = "write" /\ j.item = job[p].item
          /\ j.change = Assignment(e)
        BY <2>2, <3>1 DEF Job, Steps
    <3> HIDE DEF j
    <3>3. j.item < nextItem /\ j.item # NoItem
        BY <1>4, <3>2 DEF PickAssignee, IInv, IdsIssued
    <3>4. UNCHANGED <<queue, lock, onShift, table>>
          /\ queue' \in [Queues -> {"unused", "active", "closed", "deleted"}]
          /\ \A x \in Queues : Exists(x) => Exists(x)'
        BY <1>4 DEF PickAssignee, IInv, TypeOK, Exists
    <3>5. QED
        BY <3>1, <3>2, <3>3, <3>4, QuietStep
  <2>3. QED
      BY <1>4, <2>1, <2>2 DEF PickAssignee
<1>5. CASE WriteItem(p)
  <2>1. /\ job[p].item \in ItemIds /\ job[p].change \in Change /\ Stamped(job[p].change)
      BY <1>5 DEF WriteItem, IInv, TypeOK, Job, IdsIssued, ChangesAreStamped
  <2>2. NoItem < nextItem
      BY ConstantsOK DEF IInv, TypeOK, NoItem
  <2>3. QED
      BY <1>5, <2>1, <2>2, IdleOK, UpdateStep DEF WriteItem, Done
<1>6. CASE CompleteOne(p)
  <2>1. PICK i \in job[p].todo :
            /\ Update(i, Completion)
            /\ Goto(p, [job[p] EXCEPT !.todo = @ \ {i},
                                      !.step = IF job[p].todo = {i} THEN "promote" ELSE "complete"])
      BY <1>6 DEF CompleteOne
  <2>2. job[p] \in Job /\ job[p].step = "complete" /\ i \in ItemIds
      BY <1>6, <2>1 DEF CompleteOne, IInv, TypeOK, Job
  <2> DEFINE j == [job[p] EXCEPT !.todo = @ \ {i},
                               !.step = IF job[p].todo = {i} THEN "promote" ELSE "complete"]
  <2>3. /\ Goto(p, j) /\ j \in Job /\ j.step \in {"complete", "promote"}
        /\ j.item = job[p].item /\ j.change = job[p].change
      BY <2>1, <2>2 DEF Job, Steps
  <2> HIDE DEF j
  <2>4. j.item < nextItem /\ Stamped(j.change)
      BY <2>3 DEF IInv, IdsIssued, ChangesAreStamped
  <2>5. UNCHANGED <<queue, place, nextItem, lock, onShift>>
      BY <1>6 DEF CompleteOne
  <2>6. QED
      BY <2>1, <2>2, <2>3, <2>4, <2>5, ChangesOK, UpdateStep
<1>7. CASE Promote(p)
  <2>1. job[p].item \in ItemIds \cup {NoItem} /\ job[p].change \in Change /\ Stamped(job[p].change)
      BY <1>7 DEF IInv, TypeOK, Job, ChangesAreStamped
  <2>2. NoItem < nextItem
      BY ConstantsOK DEF IInv, TypeOK, NoItem
  <2>3. CASE job[p].item = NoItem
      BY <1>7, <2>3, EndStep DEF Promote, table
  <2>4. CASE job[p].item # NoItem
      BY <1>7, <2>1, <2>2, <2>4, IdleOK, UpdateStep DEF Promote, Done
  <2>5. QED
      BY <2>3, <2>4
<1>8. QED
    BY <1>1, <1>2, <1>3, <1>4, <1>5, <1>6, <1>7 DEF Continue

\* Every request that may arrive.
LEMMA StaffAndCustomersStep == ASSUME IInv, StaffAndCustomers PROVE IInv'
<1>1. ASSUME JoinStart PROVE IInv'
  <2>1. Loop \in Procs
      BY DEF Procs
  <2>2. CASE Goto(Loop, [Idle EXCEPT !.step = "create"])
      BY <1>1, <2>1, <2>2, EndStep DEF JoinStart
  <2>3. ASSUME NEW q \in Queues, Goto(Loop, [Idle EXCEPT !.step = "lock", !.q = q]) PROVE IInv'
    <3>1. queue' \in [Queues -> {"unused", "active", "closed", "deleted"}]
          /\ \A x \in Queues : Exists(x) => Exists(x)'
        BY <1>1 DEF JoinStart, IInv, TypeOK, Exists
    <3>2. UNCHANGED <<lock, onShift, table>>
        BY <1>1 DEF JoinStart
    <3>3. QED
        BY <2>1, <2>3, <3>1, <3>2, FoundQueueStep
  <2>4. QED
      BY <1>1, <2>2, <2>3 DEF JoinStart, ActiveQueues
<1>2. ASSUME NEW p \in Procs, JoinForShop(p) PROVE IInv'
  <2>1. \A q \in ActiveQueues : q \in Queues /\ Exists(q)
      BY DEF ActiveQueues, Exists
  <2>2. QED
      BY <1>2, <2>1, LockStep DEF JoinForShop
<1>3. ASSUME NEW p \in {Loop, Mcp}, NEW q \in Queues, NEW e \in Employees \cup {Nobody},
             CallNext(p, q, e)
      PROVE  IInv'
    BY <1>3, CallNextStep DEF Procs
<1>4. ASSUME NEW i \in ItemIds, Checkout(i) \/ Leave(i) \/ RemoveItem(i) PROVE IInv'
  <2>1. Live(i) /\ row[i] \in Row
      BY <1>4 DEF Checkout, Leave, RemoveItem, IInv, TypeOK
  <2>2. QED
      BY <1>4, <2>1, ChangesOK, ReadThenWriteStep DEF Checkout, Leave, RemoveItem
<1>5. ASSUME NEW i \in ItemIds, NEW s \in Statuses, UpdateStatus(i, s) PROVE IInv'
    BY <1>5, ChangesOK, ReadThenWriteStep DEF UpdateStatus
<1>6. ASSUME NEW i \in ItemIds, NEW e \in Employees, Reassign(i, e) PROVE IInv'
    BY <1>6, ChangesOK, ReadThenWriteStep DEF Reassign
<1>7. ASSUME NEW i \in ItemIds, NEW e \in Employees, Serve(i, e) PROVE IInv'
    BY <1>7, ChangesOK, ReadThenWriteStep DEF Serve
<1>8. ASSUME NEW q \in Queues, ResetQueue(q) \/ DeleteQueue(q) PROVE IInv'
    BY <1>8, DropStep DEF ResetQueue, DeleteQueue
<1>9. ASSUME CloseQueues PROVE IInv'
  <2>1. UNCHANGED <<lock, job, onShift, table>>
        /\ queue' = [q \in Queues |-> IF q \in ActiveQueues THEN "closed" ELSE queue[q]]
      BY <1>9 DEF CloseQueues
  <2>2. queue' \in [Queues -> {"unused", "active", "closed", "deleted"}]
      BY <2>1 DEF IInv, TypeOK
  <2>3. \A q \in Queues : Exists(q) => Exists(q)'
      BY <2>1 DEF Exists, ActiveQueues
  <2>4. onShift' \subseteq Employees
      BY <2>1 DEF IInv, TypeOK
  <2>5. QED
      BY <2>1, <2>2, <2>3, <2>4, OutsideStep
<1>10. ASSUME NEW p \in PoolThreads, ShowActiveQueue(p) \/ OwnerCreateQueue(p) PROVE IInv'
  <2>1. CASE ShowActiveQueue(p)
      BY <2>1, EndStep DEF ShowActiveQueue, Procs
  <2>2. CASE OwnerCreateQueue(p)
    <3>1. PICK q \in Unused : queue' = [queue EXCEPT ![q] = "active"]
        BY <2>2 DEF OwnerCreateQueue
    <3>2. UNCHANGED <<lock, job, table>> /\ onShift' \subseteq Employees
        BY <2>2 DEF OwnerCreateQueue, IInv, TypeOK
    <3>3. QED
        BY <3>1, <3>2, NewQueue, OutsideStep
  <2>3. QED
      BY <1>10, <2>1, <2>2
<1>11. ASSUME NEW e \in Employees, Clock(e) PROVE IInv'
  <2>1. UNCHANGED <<queue, lock, job, table>> /\ onShift' \subseteq Employees
      BY <1>11 DEF Clock, IInv, TypeOK
  <2>2. queue' \in [Queues -> {"unused", "active", "closed", "deleted"}]
        /\ \A q \in Queues : Exists(q) => Exists(q)'
      BY <2>1 DEF IInv, TypeOK, Exists
  <2>3. QED
      BY <2>1, <2>2, OutsideStep
<1>12. QED
    BY <1>1, <1>2, <1>3, <1>4, <1>5, <1>6, <1>7, <1>8, <1>9, <1>10, <1>11 DEF StaffAndCustomers

LEMMA NextOK == IInv /\ [Next]_vars => IInv'
<1> SUFFICES ASSUME IInv, [Next]_vars PROVE IInv'
    OBVIOUS
<1>1. ASSUME NEW p \in Procs, Continue(p) PROVE IInv'
    BY <1>1, ContinueStep
<1>2. ASSUME NEW p \in Procs, Fail(p) PROVE IInv'
    BY <1>2, FailStep
<1>3. CASE StaffAndCustomers
    BY <1>3, StaffAndCustomersStep
<1>4. CASE UNCHANGED vars
  <2>1. UNCHANGED <<queue, lock, onShift, job, table>>
      BY <1>4 DEF vars, table
  <2>2. queue' \in [Queues -> {"unused", "active", "closed", "deleted"}]
        /\ (\A q \in Queues : Exists(q) => Exists(q)') /\ onShift' \subseteq Employees
      BY <2>1 DEF IInv, TypeOK, Exists
  <2>3. QED
      BY <2>1, <2>2, OutsideStep
<1>5. QED
    BY <1>1, <1>2, <1>3, <1>4 DEF Next

\* What every transaction of the walk-in queue may rely on holds throughout:
\* ids are handed out before they are used, a queue whose position has been
\* read is locked and exists, changes carry their time stamps, and the choice
\* call-next made is still the fair one.
THEOREM InductiveInvariant == Spec => []IInv
BY InitOK, NextOK, PTL DEF Spec

\* Every column holds what it should.
THEOREM TypeCorrect == Spec => []TypeOK
<1>1. IInv => TypeOK
    BY DEF IInv
<1>2. QED
    BY <1>1, InductiveInvariant, PTL

\* Customers of one queue stand in the order in which they joined, whichever
\* process took the join and however the joins interleaved.
THEOREM JoinedInOrder == Spec => []ArrivalOrder
<1>1. IInv => ArrivalOrder
    BY DEF IInv
<1>2. QED
    BY <1>1, InductiveInvariant, PTL

\* No customer is in a queue that is gone, though joins race with deletes.
THEOREM NobodyInADeletedQueue == Spec => []ItemsHaveQueues
<1>1. IInv => ItemsHaveQueues
    BY DEF IInv
<1>2. QED
    BY <1>1, InductiveInvariant, PTL

\* No interleaving of stale writes leaves a status without its time stamp.
THEOREM StatusesAreStamped == Spec => []StampsMatchStatus
<1>1. IInv => StampsMatchStatus
    BY DEF IInv
<1>2. QED
    BY <1>1, InductiveInvariant, PTL

\* Call-next skips nobody: at the moment it promotes a customer, everyone who
\* joined that queue earlier and is still waiting was put back by staff.
THEOREM TurnsAreKept == Spec => CallNextKeepsTurn
<1> DEFINE Fair == \A p \in Procs :
        LET i == job[p].item IN
        (job[p].step = "promote" /\ job'[p] = Idle /\ row' # row /\ i # NoItem /\ Live(i)) =>
            \A j \in Waiting(place[i].queue) : j < i => j \in returned
<1>1. IInv /\ [Next]_vars => [Fair]_vars
    BY DEF IInv, ChoiceIsFair
<1>2. QED
    BY <1>1, InductiveInvariant, PTL DEF Spec, CallNextKeepsTurn

-----------------------------------------------------------------------------
(* The lines.                                                              *)

\* How many stand before a customer or in the same place: positions differ, so
\* of two customers of one queue the later has the higher rank.
LEMMA RanksDiffer ==
    ASSUME IInv, NEW q \in Queues
    PROVE  /\ IsFiniteSet(ItemsOf(q)) /\ Cardinality(ItemsOf(q)) \in Nat
           /\ \A i \in ItemsOf(q) :
                /\ Cardinality(UpTo(i)) \in 1 .. Cardinality(ItemsOf(q))
                /\ \A j \in ItemsOf(q) :
                        place[i].pos < place[j].pos => Cardinality(UpTo(i)) < Cardinality(UpTo(j))
           /\ \A i, j \in ItemsOf(q) : i < j => place[i].pos < place[j].pos
<1>1. IsFiniteSet(ItemsOf(q)) /\ Cardinality(ItemsOf(q)) \in Nat
  <2>1. IsFiniteSet(ItemIds)
    BY ConstantsOK, FS_Interval DEF ItemIds
  <2>2. ItemsOf(q) \in SUBSET ItemIds
    BY DEF ItemsOf
  <2> QED BY <2>1, <2>2, FS_Subset, FS_CardinalityType
<1>2. ASSUME NEW i \in ItemsOf(q)
      PROVE  /\ UpTo(i) = {j \in ItemsOf(q) : place[j].pos <= place[i].pos}
             /\ i \in UpTo(i) /\ place[i].pos \in Nat
             /\ UpTo(i) \in SUBSET ItemsOf(q) /\ IsFiniteSet(UpTo(i))
  <2>1. place[i].queue = q /\ place[i].pos \in 0 .. MaxItems
    BY DEF ItemsOf, IInv, TypeOK, Place
  <2>2. UpTo(i) = {j \in ItemsOf(q) : place[j].pos <= place[i].pos} /\ place[i].pos \in Nat
    BY <2>1, ConstantsOK DEF UpTo
  <2>3. i \in UpTo(i) /\ UpTo(i) \in SUBSET ItemsOf(q)
    BY <2>2
  <2> QED BY <1>1, <2>2, <2>3, FS_Subset
<1>3. ASSUME NEW i \in ItemsOf(q) PROVE Cardinality(UpTo(i)) \in 1 .. Cardinality(ItemsOf(q))
  <2>1. Cardinality(UpTo(i)) \in Nat /\ Cardinality(UpTo(i)) <= Cardinality(ItemsOf(q))
    BY <1>1, <1>2, FS_Subset, FS_CardinalityType
  <2>2. Cardinality(UpTo(i)) # 0
    BY <1>2, FS_EmptySet
  <2> QED BY <1>1, <2>1, <2>2
<1>4. ASSUME NEW i \in ItemsOf(q), NEW j \in ItemsOf(q), place[i].pos < place[j].pos
      PROVE  Cardinality(UpTo(i)) < Cardinality(UpTo(j))
  <2>1. UpTo(i) \in SUBSET UpTo(j) /\ j \in UpTo(j) /\ j \notin UpTo(i)
    BY <1>2, <1>4
  <2>2. /\ Cardinality(UpTo(i)) \in Nat /\ Cardinality(UpTo(j)) \in Nat
        /\ Cardinality(UpTo(i)) <= Cardinality(UpTo(j))
        /\ Cardinality(UpTo(i)) # Cardinality(UpTo(j))
    BY <1>2, <2>1, FS_Subset, FS_CardinalityType
  <2> QED BY <2>2
<1>5. ASSUME NEW i \in ItemsOf(q), NEW j \in ItemsOf(q), i < j PROVE place[i].pos < place[j].pos
  BY <1>5, ConstantsOK DEF ItemsOf, IInv, ArrivalOrder, Live
<1> QED BY <1>1, <1>3, <1>4, <1>5

\* Exactly one customer stands in each place of a queue, and LineOf names it.
LEMMA OneInEachPlace ==
    ASSUME IInv, NEW q \in Queues
    PROVE  /\ \A i \in ItemsOf(q) : Standing(q, Cardinality(UpTo(i))) = {i}
           /\ \A n \in 1 .. Cardinality(ItemsOf(q)) : \E i \in ItemsOf(q) : Standing(q, n) = {i}
           /\ LineOf(q) \in Seq(ItemsOf(q)) /\ Len(LineOf(q)) = Cardinality(ItemsOf(q))
           /\ \A n \in 1 .. Cardinality(ItemsOf(q)) : Standing(q, n) = {LineOf(q)[n]}
<1> DEFINE S == ItemsOf(q)
           k == Cardinality(S)
           rank == [i \in S |-> Cardinality(UpTo(i))]
<1>1. IsFiniteSet(S) /\ k \in Nat /\ rank \in [S -> 1 .. k] /\ S \subseteq Int
  BY RanksDiffer, ConstantsOK DEF ItemsOf, ItemIds
<1>2. ASSUME NEW i \in S, NEW j \in S, i # j PROVE rank[i] # rank[j]
  <2>1. i < j \/ j < i
    BY <1>1, <1>2
  <2>2. Cardinality(UpTo(i)) < Cardinality(UpTo(j)) \/ Cardinality(UpTo(j)) < Cardinality(UpTo(i))
    BY <2>1, RanksDiffer
  <2>3. rank[i] < rank[j] \/ rank[j] < rank[i]
    BY <2>2
  <2>4. rank[i] \in Int /\ rank[j] \in Int
    BY <1>1
  <2> QED BY <2>3, <2>4
<1>3. \A n : Standing(q, n) = {i \in S : rank[i] = n}
  BY DEF Standing
<1>4. IsFiniteSet(1 .. k) /\ Cardinality(1 .. k) = k
  BY <1>1, FS_Interval
<1> HIDE DEF rank, S
<1>5. rank \in Injection(S, 1 .. k)
  BY <1>1, <1>2 DEF Injection, IsInjective
<1>6. rank \in Surjection(S, 1 .. k)
  BY <1>4, <1>5, FS_Injection
<1>7. \A n \in 1 .. k : \E i \in S : rank[i] = n
  BY <1>6 DEF Surjection
<1>8. \A i \in S : Standing(q, rank[i]) = {i}
  BY <1>2, <1>3
<1>9. \A n \in 1 .. k : \E i \in S : Standing(q, n) = {i}
  BY <1>7, <1>8
<1>10. LineOf(q) = [n \in 1 .. k |-> CHOOSE i \in Standing(q, n) : TRUE]
  BY DEF LineOf, S
<1>11. \A n \in 1 .. k : LineOf(q)[n] \in S /\ Standing(q, n) = {LineOf(q)[n]}
  BY <1>9, <1>10
<1>12. LineOf(q) \in Seq(S) /\ Len(LineOf(q)) = k
  BY <1>1, <1>10, <1>11
<1>13. \A i \in S : rank[i] = Cardinality(UpTo(i))
  BY DEF rank
<1> QED BY <1>8, <1>9, <1>11, <1>12, <1>13 DEF S

\* A queue none of whose items changes keeps its line.
LEMMA SameLine ==
    ASSUME NEW q, ItemsOf(q)' = ItemsOf(q), \A i \in ItemsOf(q) : place'[i] = place[i]
    PROVE  LineOf(q)' = LineOf(q)
<1>1. \A i \in ItemsOf(q) : UpTo(i)' = UpTo(i)
  BY DEF UpTo, ItemsOf
<1>2. \A n : Standing(q, n)' = Standing(q, n)
  BY <1>1 DEF Standing
<1> QED BY <1>2 DEF LineOf

\* An empty queue has an empty line.
LEMMA NobodyInLine == ASSUME NEW q, ItemsOf(q) = {} PROVE LineOf(q) = <<>>
<1>1. Cardinality(ItemsOf(q)) = 0
  BY FS_EmptySet
<1> QED BY <1>1 DEF LineOf

LEMMA NobodyLeftInLine == ASSUME NEW q, ItemsOf(q)' = {} PROVE LineOf(q)' = <<>>
<1>1. Cardinality(ItemsOf(q)') = 0
  BY FS_EmptySet
<1> QED BY <1>1 DEF LineOf

\* The insert of a join is the arrival of the next ticket: everybody keeps the
\* place they had, and the new customer has everybody before them.
LEMMA JoinArrives ==
    ASSUME IInv, NEW p \in Procs, JoinInsert(p), NEW q, q = job[p].q, NEW m, m = nextItem
    PROVE  q \in Queues /\ Line!Arrive(q)
<1> DEFINE S == ItemsOf(q)
<1> PICK k : k = Cardinality(S)
  OBVIOUS
<1>1. /\ q \in Queues /\ m \in ItemIds /\ m \in Nat
      /\ \A i \in S : place[i].pos < job[p].pos
      /\ job[p].pos \in Nat
  BY ConstantsOK DEF JoinInsert, IInv, NumberingIsLocked, TypeOK, Job, ItemIds
<1>2. q # NoQueue /\ place[m].queue = NoQueue
  BY <1>1, ConstantsOK DEF IInv, IdsIssued, Live
<1>3. /\ \A i \in ItemIds : i # m => place'[i] = place[i]
      /\ place'[m].queue = q /\ place'[m].pos = job[p].pos
  BY <1>1 DEF JoinInsert, IInv, TypeOK
<1>4. ItemsOf(q)' = S \cup {m} /\ m \notin S
  BY <1>1, <1>2, <1>3 DEF ItemsOf
<1>5. \A x \in Queues : x # q => ItemsOf(x)' = ItemsOf(x) /\ m \notin ItemsOf(x)
  BY <1>1, <1>2, <1>3, ConstantsOK DEF ItemsOf
<1>6. \A i \in S : place[i].queue = q /\ place'[i] = place[i] /\ place[i].pos \in Nat
  BY <1>3, <1>4, ConstantsOK DEF ItemsOf, IInv, TypeOK, Place
<1> HIDE DEF S
<1>7. \A i \in S : UpTo(i)' = UpTo(i)
  <2> TAKE i \in S
  <2>1. UpTo(i)' = {j \in S \cup {m} : place'[j].pos <= place[i].pos}
    BY <1>4, <1>6 DEF UpTo
  <2>2. UpTo(i) = {j \in S : place[j].pos <= place[i].pos}
    BY <1>6 DEF UpTo, S
  <2>3. ~(place'[m].pos <= place[i].pos)
    BY <1>1, <1>3, <1>6
  <2>4. \A j \in S : place'[j].pos = place[j].pos
    BY <1>6
  <2> QED BY <2>1, <2>2, <2>3, <2>4
<1>8. UpTo(m)' = S \cup {m}
  <2>1. UpTo(m)' = {j \in S \cup {m} : place'[j].pos <= place'[m].pos}
    BY <1>3, <1>4 DEF UpTo
  <2>2. \A j \in S \cup {m} : place'[j].pos <= place'[m].pos
    BY <1>1, <1>3, <1>6
  <2> QED BY <2>1, <2>2
<1>9. IsFiniteSet(S) /\ k \in Nat /\ \A i \in S : Cardinality(UpTo(i)) \in 1 .. k
  BY <1>1, RanksDiffer DEF S
<1>10. Cardinality(S \cup {m}) = k + 1
  BY <1>4, <1>9, FS_AddElement
<1>11. \A n \in 1 .. k : Standing(q, n)' = Standing(q, n)
  <2> TAKE n \in 1 .. k
  <2>1. Standing(q, n)' = {i \in S \cup {m} : Cardinality(UpTo(i)') = n}
    BY <1>4 DEF Standing
  <2>2. Cardinality(UpTo(m)') # n
    BY <1>8, <1>9, <1>10
  <2> QED BY <1>7, <2>1, <2>2 DEF Standing, S
<1>12. Standing(q, k + 1)' = {m}
  <2>1. Standing(q, k + 1)' = {i \in S \cup {m} : Cardinality(UpTo(i)') = k + 1}
    BY <1>4 DEF Standing
  <2>2. Cardinality(UpTo(m)') = k + 1
    BY <1>8, <1>10
  <2>3. \A i \in S : Cardinality(UpTo(i)') # k + 1
    BY <1>7, <1>9
  <2> QED BY <2>1, <2>2, <2>3
<1>13. LineOf(q)' = Append(LineOf(q), m)
  <2>1. LineOf(q)' = [n \in 1 .. k + 1 |-> CHOOSE i \in Standing(q, n)' : TRUE]
    BY <1>4, <1>10 DEF LineOf
  <2>2. LineOf(q) = [n \in 1 .. k |-> CHOOSE i \in Standing(q, n) : TRUE]
    BY DEF LineOf, S
  <2>3. \A n \in 1 .. k : LineOf(q)'[n] = LineOf(q)[n]
    BY <1>9, <1>11, <2>1, <2>2
  <2>4. LineOf(q)'[k + 1] = m
    BY <1>9, <1>12, <2>1
  <2>5. LineOf(q) \in Seq(ItemIds) /\ Len(LineOf(q)) = k
    <3>1. LineOf(q) \in Seq(S) /\ Len(LineOf(q)) = k
      BY <1>1, OneInEachPlace DEF S
    <3>2. S \subseteq ItemIds
      BY DEF S, ItemsOf
    <3> QED BY <3>1, <3>2
  <2>6. LineOf(q)' \in Seq(ItemIds) /\ Len(LineOf(q)') = k + 1
    <3>1. \A n \in 1 .. k + 1 : LineOf(q)'[n] \in ItemIds
      <4>1. \A n \in 1 .. k : LineOf(q)[n] \in ItemIds
        BY <2>5, ElementOfSeq
      <4> QED BY <1>1, <1>9, <2>3, <2>4, <4>1
    <3> QED BY <1>9, <2>1, <3>1
  <2>7. /\ Append(LineOf(q), m) \in Seq(ItemIds) /\ Len(Append(LineOf(q), m)) = k + 1
        /\ \A n \in 1 .. k : Append(LineOf(q), m)[n] = LineOf(q)[n]
        /\ Append(LineOf(q), m)[k + 1] = m
    BY <1>1, <2>5, AppendProperties
  <2>8. \A n \in 1 .. k + 1 : LineOf(q)'[n] = Append(LineOf(q), m)[n]
    BY <1>9, <2>3, <2>4, <2>7
  <2> QED BY <2>6, <2>7, <2>8, SeqEqual
<1>14. \A x \in Queues : x # q => LineOf(x)' = LineOf(x)
  <2> TAKE x \in Queues
  <2> HAVE x # q
  <2>1. \A i \in ItemsOf(x) : place'[i] = place[i]
    BY <1>3, <1>5 DEF ItemsOf
  <2> QED BY <1>5, <2>1, SameLine
<1>15. nextItem' = m + 1 /\ m - 1 < MaxItems
  BY <1>1, ConstantsOK DEF JoinInsert, ItemIds
<1>16. nextItem - 1 < MaxItems /\ nextItem - 1 + 1 = m /\ (nextItem - 1)' = nextItem - 1 + 1
  BY <1>1, <1>15
<1>17. [x \in Queues |-> LineOf(x)][q] = LineOf(q)
  BY <1>1
<1>18. [x \in Queues |-> LineOf(x)]' = [[x \in Queues |-> LineOf(x)] EXCEPT ![q] = Append(LineOf(q), m)]
  BY <1>1, <1>13, <1>14
<1> QED BY <1>1, <1>16, <1>17, <1>18 DEF Line!Arrive

\* A reset and a delete empty one line and touch no other.
LEMMA DropClears ==
    ASSUME NEW q \in Queues, DropItems(q), UNCHANGED nextItem
    PROVE  Line!Clear(q)
<1>1. \A i \in ItemIds : place'[i] = IF place[i].queue = q THEN NoPlace ELSE place[i]
  BY DEF DropItems, ItemsOf
<1>2. NoPlace.queue \notin Queues
  BY ConstantsOK DEF NoPlace
<1>3. LineOf(q)' = <<>>
  <2>1. ItemsOf(q)' = {}
    BY <1>1, <1>2 DEF ItemsOf
  <2> QED BY <2>1, NobodyLeftInLine
<1>4. \A x \in Queues : x # q => LineOf(x)' = LineOf(x)
  <2> TAKE x \in Queues
  <2> HAVE x # q
  <2>1. ItemsOf(x)' = ItemsOf(x) /\ \A i \in ItemsOf(x) : place'[i] = place[i]
    BY <1>1, <1>2 DEF ItemsOf
  <2> QED BY <2>1, SameLine
<1>5. [x \in Queues |-> LineOf(x)]' = [[x \in Queues |-> LineOf(x)] EXCEPT ![q] = <<>>]
  BY <1>3, <1>4
<1> QED BY <1>5 DEF Line!Clear

\* Nothing else moves a line.
LEMMA LinesStay == ASSUME UNCHANGED <<place, nextItem>> PROVE UNCHANGED Line!vars
<1>1. \A q \in Queues : LineOf(q)' = LineOf(q)
  BY SameLine DEF ItemsOf
<1> QED BY <1>1 DEF Line!vars

LEMMA RequestsLeaveLines ==
    ASSUME StaffAndCustomers, ~(\E q \in Queues : ResetQueue(q) \/ DeleteQueue(q))
    PROVE  UNCHANGED <<place, nextItem>>
<1> USE DEF table
<1>1. ASSUME JoinStart \/ \E p \in Procs : JoinForShop(p) PROVE UNCHANGED <<place, nextItem>>
  BY <1>1 DEF JoinStart, JoinForShop
<1>2. ASSUME NEW p \in {Loop, Mcp}, NEW q \in Queues, NEW e \in Employees \cup {Nobody},
             CallNext(p, q, e)
      PROVE  UNCHANGED <<place, nextItem>>
  BY <1>2 DEF CallNext
<1>3. ASSUME NEW i \in ItemIds,
             \/ Checkout(i) \/ Leave(i) \/ RemoveItem(i)
             \/ \E s \in Statuses : UpdateStatus(i, s)
             \/ \E e \in Employees : Reassign(i, e) \/ Serve(i, e)
      PROVE  UNCHANGED <<place, nextItem>>
  <2>1. \E c : ReadThenWrite(i, c)
    BY <1>3 DEF Checkout, Leave, RemoveItem, UpdateStatus, Reassign, Serve
  <2> QED BY <2>1 DEF ReadThenWrite
<1>4. ASSUME \/ CloseQueues
             \/ \E p \in PoolThreads : ShowActiveQueue(p) \/ OwnerCreateQueue(p)
             \/ \E e \in Employees : Clock(e)
      PROVE  UNCHANGED <<place, nextItem>>
  BY <1>4 DEF CloseQueues, ShowActiveQueue, OwnerCreateQueue, Clock
<1> QED BY <1>1, <1>2, <1>3, <1>4 DEF StaffAndCustomers

\* Positions, row locks, two processes and the failures between their
\* transactions implement the lines the customers were promised: a join stands
\* at the end of its line, nobody changes place, and a line disappears only as
\* a whole.
THEOREM LinesAreImplemented == Spec => ImplementsLine
<1>1. Init => Line!Init
  <2> SUFFICES ASSUME Init PROVE Line!Init
    OBVIOUS
  <2>1. ASSUME NEW q \in Queues PROVE LineOf(q) = <<>>
    <3>1. ItemsOf(q) = {}
      BY ConstantsOK DEF Init, ItemsOf, NoPlace
    <3> QED BY <3>1, NobodyInLine
  <2>2. nextItem - 1 = 0
    BY DEF Init
  <2> QED BY <2>1, <2>2 DEF Line!Init
<1>2. IInv /\ [Next]_vars => [Line!Next]_(Line!vars)
  <2> SUFFICES ASSUME IInv, [Next]_vars PROVE Line!Next \/ UNCHANGED Line!vars
    OBVIOUS
  <2>1. ASSUME NEW p \in Procs, JoinInsert(p) PROVE Line!Next
    BY <2>1, JoinArrives DEF Line!Next
  <2>2. ASSUME NEW p \in Procs, Continue(p), ~JoinInsert(p) PROVE UNCHANGED <<place, nextItem>>
    BY <2>2 DEF Continue, CreateQueue, JoinLock, PickAssignee, WriteItem, CompleteOne, Promote, table
  <2>3. ASSUME NEW p \in Procs, Fail(p) PROVE UNCHANGED <<place, nextItem>>
    BY <2>3 DEF Fail, table
  <2>4. ASSUME NEW q \in Queues, ResetQueue(q) \/ DeleteQueue(q) PROVE Line!Next
    <3>1. DropItems(q) /\ UNCHANGED nextItem
      BY <2>4 DEF ResetQueue, DeleteQueue
    <3> QED BY <3>1, DropClears DEF Line!Next
  <2>5. CASE StaffAndCustomers
    BY <2>4, <2>5, RequestsLeaveLines, LinesStay
  <2>6. CASE UNCHANGED vars
    BY <2>6, LinesStay DEF vars
  <2> QED BY <2>1, <2>2, <2>3, <2>5, <2>6, LinesStay DEF Next
<1> QED BY <1>1, <1>2, InductiveInvariant, PTL DEF Spec, ImplementsLine, Line!Spec

\* What a line says of a queue: it names every customer of the queue and
\* nobody else, each once, and whoever stands further back has the higher
\* position and joined later.
LinesListTheQueues ==
    \A q \in Queues :
        /\ {LineOf(q)[n] : n \in 1 .. Len(LineOf(q))} = ItemsOf(q)
        /\ \A m, n \in 1 .. Len(LineOf(q)) : m < n =>
                /\ place[LineOf(q)[m]].pos < place[LineOf(q)[n]].pos
                /\ LineOf(q)[m] < LineOf(q)[n]

\* The lines of LinesAreImplemented are the queues as the tables hold them.
THEOREM LinesAreFaithful == Spec => []LinesListTheQueues
<1>1. ASSUME IInv, NEW q \in Queues
      PROVE  /\ {LineOf(q)[n] : n \in 1 .. Len(LineOf(q))} = ItemsOf(q)
             /\ \A m, n \in 1 .. Len(LineOf(q)) : m < n =>
                    /\ place[LineOf(q)[m]].pos < place[LineOf(q)[n]].pos
                    /\ LineOf(q)[m] < LineOf(q)[n]
  <2> DEFINE S == ItemsOf(q)
             L == LineOf(q)
             k == Cardinality(S)
  <2>1. /\ \A i \in S : Standing(q, Cardinality(UpTo(i))) = {i}
        /\ L \in Seq(S) /\ Len(L) = k
        /\ \A n \in 1 .. k : Standing(q, n) = {L[n]}
    BY <1>1, OneInEachPlace
  <2>2. /\ k \in Nat
        /\ \A i \in S : Cardinality(UpTo(i)) \in 1 .. k
        /\ \A i, j \in S : place[i].pos < place[j].pos => Cardinality(UpTo(i)) < Cardinality(UpTo(j))
        /\ \A i, j \in S : i < j => place[i].pos < place[j].pos
    BY <1>1, RanksDiffer
  <2>3. \A n \in 1 .. k : L[n] \in S /\ Cardinality(UpTo(L[n])) = n
    BY <2>1 DEF Standing
  <2>4. \A i \in S : L[Cardinality(UpTo(i))] = i
    BY <2>1, <2>2
  <2>5. S \subseteq Int /\ \A i \in S : place[i].pos \in Int
    BY <1>1, ConstantsOK DEF ItemsOf, ItemIds, IInv, TypeOK, Place
  <2> HIDE DEF S, L, k
  <2>6. {L[n] : n \in 1 .. Len(L)} = S
    BY <2>1, <2>2, <2>3, <2>4
  <2>7. ASSUME NEW m \in 1 .. k, NEW n \in 1 .. k, m < n
        PROVE  L[m] < L[n] /\ place[L[m]].pos < place[L[n]].pos
    <3>1. L[m] \in S /\ L[n] \in S /\ Cardinality(UpTo(L[m])) = m /\ Cardinality(UpTo(L[n])) = n
      BY <2>3
    <3>2. L[m] # L[n] /\ ~(L[n] < L[m])
      <4>1. L[m] # L[n]
        BY <2>2, <2>7, <3>1
      <4>2. L[n] < L[m] => place[L[n]].pos < place[L[m]].pos
        BY <2>2, <3>1
      <4>3. place[L[n]].pos < place[L[m]].pos => Cardinality(UpTo(L[n])) < Cardinality(UpTo(L[m]))
        BY <2>2, <3>1
      <4>4. L[n] < L[m] => n < m
        BY <3>1, <4>2, <4>3
      <4>5. m \in Int /\ n \in Int
        OBVIOUS
      <4> QED BY <2>7, <4>1, <4>4, <4>5
    <3>3. L[m] < L[n]
      <4>1. L[m] \in Int /\ L[n] \in Int
        BY <2>5, <3>1
      <4>2. \A a, b \in Int : a # b /\ ~(b < a) => a < b
        OBVIOUS
      <4> QED BY <3>2, <4>1, <4>2
    <3> QED BY <2>2, <3>1, <3>3
  <2> QED BY <2>1, <2>6, <2>7 DEF S, L, k
<1>2. IInv => LinesListTheQueues
  BY <1>1 DEF LinesListTheQueues
<1> QED BY <1>2, InductiveInvariant, PTL
=============================================================================
