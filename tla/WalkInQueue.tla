---------------------------- MODULE WalkInQueue ----------------------------
(***************************************************************************)
(* The walk-in queue of one shop: the tables queues and queue_items and    *)
(* everything that writes them.  Three kinds of process share the tables:  *)
(*                                                                         *)
(*   Loop         the backend's event loop, which runs the async handlers  *)
(*                of modules/queues/router.py one at a time, each of them  *)
(*                a sequence of separate database transactions;            *)
(*   Mcp          the event loop of the booking MCP server, a second       *)
(*                process with its own call-next, join and close;          *)
(*   PoolThreads  the backend's thread pool, which runs the plain handlers *)
(*                (show the active queue, create a queue) and the joins of *)
(*                the customer chat.                                       *)
(*                                                                         *)
(* A step is one transaction.  What a handler read in an earlier one is    *)
(* kept in job[p], and may be stale by the time it writes.                 *)
(***************************************************************************)
EXTENDS Integers, FiniteSets

CONSTANTS
    Queues,         \* ids the queues table may hand out (bound)
    MaxItems,       \* ids the queue_items table may hand out (bound)
    Employees,      \* users who can be assigned to a customer
    PoolThreads,    \* worker threads of the backend
    Requests,       \* the requests that arrive in this instance (bound)
    StaffStatuses,  \* statuses staff send to PATCH /items/{id}/status
    NoQueue, Nobody, NoProc, Same

Loop == "loop"
Mcp == "mcp"
Procs == {Loop, Mcp} \cup PoolThreads
ItemIds == 1 .. MaxItems
NoItem == 0

Active == {"waiting", "being_served"}
Finished == {"completed", "cancelled"}
Statuses == Active \cup Finished

ASSUME ConstantsOK ==
    /\ MaxItems \in Nat
    /\ StaffStatuses \subseteq Statuses
    /\ NoQueue \notin Queues
    /\ Nobody \notin Employees
    /\ Loop \notin PoolThreads /\ Mcp \notin PoolThreads
    /\ NoProc \notin Procs
    /\ Same \notin Statuses /\ Same \notin Employees /\ Same # Nobody

VARIABLES
    queue,      \* the queues table: [Queues -> {"unused", "active", "closed", "deleted"}]
    place,      \* queue_items.queue_id and .position; queue = NoQueue when there is no such row
    row,        \* the columns of a queue item that handlers update
    nextItem,   \* the id the next queue item gets
    lock,       \* who holds the row lock (SELECT ... FOR UPDATE) of a queue
    onShift,    \* the employees with an open shift
    job,        \* the request each process is in the middle of, and what it has read
    returned    \* history: items that staff have put back to waiting

vars == <<queue, place, row, nextItem, lock, onShift, job, returned>>
table == <<place, row, nextItem, returned>>

\* Columns set once and never cleared: service_started_at, completed_at, and
\* the CHECKED_OUT_AT line in the notes.
Marks == {"started", "completed", "paid"}

Row == [status : Statuses, assignee : Employees \cup {Nobody}, marks : SUBSET Marks]
Place == [queue : Queues \cup {NoQueue}, pos : 0 .. MaxItems]
NoPlace == [queue |-> NoQueue, pos |-> 0]
NewRow == [status |-> "waiting", assignee |-> Nobody, marks |-> {}]

\* What an UPDATE sets; a column it does not name keeps its value.
Change == [status : Statuses \cup {Same}, assignee : Employees \cup {Nobody, Same},
           marks : SUBSET Marks]
NoChange == [status |-> Same, assignee |-> Same, marks |-> {}]

Steps == {"idle", "create", "lock", "insert", "pick", "write", "complete", "promote"}
Idle == [step |-> "idle", q |-> NoQueue, pos |-> 0, item |-> NoItem,
         todo |-> {}, change |-> NoChange]
Job == [step : Steps, q : Queues \cup {NoQueue}, pos : 0 .. MaxItems,
        item : ItemIds \cup {NoItem}, todo : SUBSET ItemIds, change : Change]

Exists(q) == q \in Queues /\ queue[q] \in {"active", "closed"}
ActiveQueues == {q \in Queues : queue[q] = "active"}
Unused == {q \in Queues : queue[q] = "unused"}
Live(i) == place[i].queue # NoQueue
ItemsOf(q) == {i \in ItemIds : place[i].queue = q}

-----------------------------------------------------------------------------
(* Writing a queue item.                                                   *)

Changed(r, c) ==
    [status   |-> IF c.status = Same THEN r.status ELSE c.status,
     assignee |-> IF c.assignee = Same THEN r.assignee ELSE c.assignee,
     marks    |-> r.marks \cup c.marks]

\* update_queue_item: nothing happens when the row is gone, and the row's
\* present status is not looked at again.
Update(i, c) ==
    /\ row' = IF Live(i) THEN [row EXCEPT ![i] = Changed(@, c)] ELSE row
    /\ returned' = IF Live(i) /\ c.status = "waiting" /\ row[i].status # "waiting"
                   THEN returned \cup {i} ELSE returned

Completion == [NoChange EXCEPT !.status = "completed", !.marks = {"completed"}]
\* Mutant: cancelling forgets the time.
CancellationNoTime == [NoChange EXCEPT !.status = "cancelled"]

Cancellation == [NoChange EXCEPT !.status = "cancelled", !.marks = {"completed"}]

Service(e) == [status |-> "being_served", assignee |-> e, marks |-> {"started"}]
Assignment(e) == [NoChange EXCEPT !.assignee = e]

\* Mutant: only the start of service is stamped.
StatusChangeNoEnd(s) ==
    [NoChange EXCEPT !.status = s, !.marks = IF s = "being_served" THEN {"started"} ELSE {}]

\* PATCH /items/{id}/status: any status to any status.
StatusChange(s) ==
    [NoChange EXCEPT !.status = s, !.marks = IF s = "being_served" THEN {"started"}
                                             ELSE IF s \in Finished THEN {"completed"} ELSE {}]

\* Checking out marks the notes; a customer still in line is completed.
CheckoutChange(r) ==
    IF r.status \in Active \/ (r.status = "completed" /\ "completed" \notin r.marks)
    THEN [Completion EXCEPT !.marks = {"completed", "paid"}]
    ELSE [NoChange EXCEPT !.marks = {"paid"}]

-----------------------------------------------------------------------------
(* Joining.                                                                *)

Busy(p) == job[p].step # "idle"
Goto(p, j) == job' = [job EXCEPT ![p] = j]
Done(p) == Goto(p, Idle)

\* Bound: every join under way will find a free item id.
RoomToJoin ==
    nextItem + Cardinality({p \in Procs : job[p].step \in {"create", "lock", "insert"}})
        <= MaxItems

\* Bound: every request about to create a queue will find a free queue id.
RoomToCreate == Cardinality({p \in Procs : job[p].step = "create"}) < Cardinality(Unused)

\* The backend's join reads the active queues and takes the first one the
\* database returns (no ORDER BY), or sets out to create one.
JoinStart ==
    /\ ~Busy(Loop) /\ RoomToJoin
    /\ \/ \E q \in ActiveQueues : Goto(Loop, [Idle EXCEPT !.step = "lock", !.q = q])
       \/ ActiveQueues = {} /\ RoomToCreate /\ Goto(Loop, [Idle EXCEPT !.step = "create"])
    /\ UNCHANGED <<queue, lock, onShift, table>>

\* GET /shop/{id}/active, in a pool thread: creates a queue if it saw none.
ShowActiveQueue(p) ==
    /\ p \in PoolThreads /\ ~Busy(p)
    /\ ActiveQueues = {} /\ RoomToCreate
    /\ Goto(p, [Idle EXCEPT !.step = "create"])
    /\ UNCHANGED <<queue, lock, onShift, table>>

CreateQueue(p) ==
    /\ job[p].step = "create"
    /\ \E q \in Unused :
        /\ queue' = [queue EXCEPT ![q] = "active"]
        /\ IF p = Loop THEN Goto(p, [Idle EXCEPT !.step = "lock", !.q = q]) ELSE Done(p)
    /\ UNCHANGED <<lock, onShift, table>>

\* POST /shop/{id}: the owner opens one more queue, whatever is open already.
OwnerCreateQueue(p) ==
    /\ p \in PoolThreads /\ ~Busy(p)
    /\ RoomToCreate
    /\ \E q \in Unused : queue' = [queue EXCEPT ![q] = "active"]
    /\ UNCHANGED <<lock, onShift, job, table>>

\* n is max(position) of queue q, 0 when the queue has no item.
IsLastPosition(q, n) ==
    /\ \A i \in ItemsOf(q) : place[i].pos <= n
    /\ n = 0 \/ \E i \in ItemsOf(q) : place[i].pos = n

\* Mutant: the SELECT has no FOR UPDATE.
UnlockedAlways(q) == TRUE

Unlocked(q) == lock[q] = NoProc

\* Mutant: the transaction is left open.
ReleasedNever(p) == lock

\* COMMIT and ROLLBACK release the row locks of the transaction.
Released(p) == [q \in Queues |-> IF lock[q] = p THEN NoProc ELSE lock[q]]

\* SELECT ... FOR UPDATE waits for the queue's row, then max(position) is read.
LockAndNumber(p, q) ==
    /\ Unlocked(q)
    /\ lock' = [lock EXCEPT ![q] = p]
    /\ \E n \in 0 .. MaxItems - 1 :
        /\ IsLastPosition(q, n)
        /\ Goto(p, [Idle EXCEPT !.step = "insert", !.q = q, !.pos = n + 1])

\* create_queue_item does not ask whether the queue is still active, only
\* whether it exists.  It always does: the handler that deletes queues runs on
\* the same event loop.
JoinLock(p) ==
    /\ job[p].step = "lock"
    /\ Exists(job[p].q)
    /\ LockAndNumber(p, job[p].q)
    /\ UNCHANGED <<queue, onShift, table>>

\* join_queue_for_shop, called by the MCP server and, in a pool thread, by the
\* customer chat: it finds, locks and numbers in one transaction.
JoinForShop(p) ==
    /\ p # Loop /\ ~Busy(p) /\ RoomToJoin
    /\ \E q \in ActiveQueues : LockAndNumber(p, q)
    /\ UNCHANGED <<queue, onShift, table>>

\* INSERT and COMMIT, which releases the lock; the backend then assigns.
JoinInsert(p) ==
    /\ job[p].step = "insert"
    /\ nextItem \in ItemIds
    /\ place' = [place EXCEPT ![nextItem] = [queue |-> job[p].q, pos |-> job[p].pos]]
    /\ row' = [row EXCEPT ![nextItem] = NewRow]
    /\ nextItem' = nextItem + 1
    /\ lock' = Released(p)
    /\ IF p = Loop THEN Goto(p, [Idle EXCEPT !.step = "pick", !.item = nextItem]) ELSE Done(p)
    /\ UNCHANGED <<queue, onShift, returned>>

Load(e) ==
    Cardinality({i \in ItemIds : /\ place[i].queue \in ActiveQueues
                                 /\ row[i].status \in Active
                                 /\ row[i].assignee = e})

\* get_least_busy_employee: ties and the no-queue fallback follow row order,
\* which the query leaves open.
LeastBusy == {e \in onShift : ActiveQueues = {} \/ \A f \in onShift : Load(e) <= Load(f)}

PickAssignee(p) ==
    /\ job[p].step = "pick"
    /\ \/ \E e \in LeastBusy :
            Goto(p, [job[p] EXCEPT !.step = "write", !.change = Assignment(e)])
       \/ onShift = {} /\ Done(p)
    /\ UNCHANGED <<queue, lock, onShift, table>>

-----------------------------------------------------------------------------
(* Handlers that read one item, decide, and write it in a later transaction. *)

ReadThenWrite(i, c) ==
    /\ ~Busy(Loop)
    /\ Goto(Loop, [Idle EXCEPT !.step = "write", !.item = i, !.change = c])
    /\ UNCHANGED <<queue, lock, onShift, table>>

UpdateStatus(i, s) == Live(i) /\ s \in StaffStatuses /\ ReadThenWrite(i, StatusChange(s))

Checkout(i) == Live(i) /\ ReadThenWrite(i, CheckoutChange(row[i]))

Reassign(i, e) ==
    Live(i) /\ row[i].status \in Active /\ ReadThenWrite(i, Assignment(e))

\* Out of order; whoever was assigned already stays assigned.
Serve(i, user) ==
    /\ Live(i) /\ row[i].status = "waiting"
    /\ ReadThenWrite(i, Service(IF row[i].assignee = Nobody THEN user ELSE Same))

Leave(i) == Live(i) /\ row[i].status \in Active /\ ReadThenWrite(i, Cancellation)

\* The staff's remove has no condition on the status.
RemoveItem(i) == Live(i) /\ ReadThenWrite(i, Cancellation)

WriteItem(p) ==
    /\ job[p].step = "write"
    /\ Update(job[p].item, job[p].change)
    /\ Done(p)
    /\ UNCHANGED <<queue, place, nextItem, lock, onShift>>

-----------------------------------------------------------------------------
(* Calling the next customer: one read, then one transaction per write.    *)

Waiting(q) == {i \in ItemsOf(q) : row[i].status = "waiting"}
Serving(q) == {i \in ItemsOf(q) : row[i].status = "being_served"}

\* Mutant: no ORDER BY position.
FirstWaitingUnordered(q) == Waiting(q)

FirstWaiting(q) == {i \in Waiting(q) : \A j \in Waiting(q) : place[i].pos <= place[j].pos}

\* Mutant: the backend, too, insists on an active queue.
CallableActive(p) == {q \in Queues : p \in {Loop, Mcp} /\ queue[q] = "active"}

\* The backend is told which queue; the MCP server takes an active one.
Callable(p) ==
    {q \in Queues : IF p = Loop THEN Exists(q) ELSE p = Mcp /\ queue[q] = "active"}

\* The MCP server may find no employee at all; the backend falls back to the
\* user who called.
CallNext(p, q, e) ==
    /\ ~Busy(p) /\ q \in Callable(p)
    /\ p = Loop => e # Nobody
    /\ \E i \in IF Waiting(q) = {} THEN {NoItem} ELSE FirstWaiting(q) :
        Goto(p, [step |-> IF Serving(q) = {} THEN "promote" ELSE "complete",
                 q |-> q, pos |-> 0, item |-> i, todo |-> Serving(q), change |-> Service(e)])
    /\ UNCHANGED <<queue, lock, onShift, table>>

\* Customers that were being served when the list was read are completed.
CompleteOne(p) ==
    /\ job[p].step = "complete"
    /\ \E i \in job[p].todo :
        /\ Update(i, Completion)
        /\ Goto(p, [job[p] EXCEPT !.todo = @ \ {i},
                                  !.step = IF job[p].todo = {i} THEN "promote" ELSE "complete"])
    /\ UNCHANGED <<queue, place, nextItem, lock, onShift>>

\* With nobody waiting the request answers 404, after the completions.
Promote(p) ==
    /\ job[p].step = "promote"
    /\ IF job[p].item = NoItem THEN UNCHANGED <<row, returned>>
                               ELSE Update(job[p].item, job[p].change)
    /\ Done(p)
    /\ UNCHANGED <<queue, place, nextItem, lock, onShift>>

-----------------------------------------------------------------------------
(* Whole queues, shifts and failures.                                      *)

\* Mutant: only the customers still in line are deleted.
DropItemsInLine(q) ==
    LET gone == {i \in ItemsOf(q) : row[i].status \in Active} IN
    /\ place' = [i \in ItemIds |-> IF i \in gone THEN NoPlace ELSE place[i]]
    /\ row' = [i \in ItemIds |-> IF i \in gone THEN NewRow ELSE row[i]]
    /\ returned' = returned \ gone

\* Mutant: the items of every queue of the shop are deleted.
DropItemsOfShop(q) ==
    /\ place' = [i \in ItemIds |-> NoPlace]
    /\ row' = [i \in ItemIds |-> NewRow]
    /\ returned' = {}

\* DELETE FROM queue_items WHERE queue_id = q.
DropItems(q) ==
    /\ place' = [i \in ItemIds |-> IF i \in ItemsOf(q) THEN NoPlace ELSE place[i]]
    /\ row' = [i \in ItemIds |-> IF i \in ItemsOf(q) THEN NewRow ELSE row[i]]
    /\ returned' = returned \ ItemsOf(q)

ResetQueue(q) ==
    /\ ~Busy(Loop) /\ Exists(q)
    /\ DropItems(q)
    /\ UNCHANGED <<queue, nextItem, lock, onShift, job>>

\* Deleting the queue's row waits for whoever holds its lock.
DeleteQueue(q) ==
    /\ ~Busy(Loop) /\ Exists(q) /\ Unlocked(q)
    /\ queue' = [queue EXCEPT ![q] = "deleted"]
    /\ DropItems(q)
    /\ UNCHANGED <<nextItem, lock, onShift, job>>

\* The agent's close: every active queue at once, and the items stay.
CloseQueues ==
    /\ ~Busy(Mcp) /\ ActiveQueues # {}
    /\ \A q \in ActiveQueues : Unlocked(q)
    /\ queue' = [q \in Queues |-> IF q \in ActiveQueues THEN "closed" ELSE queue[q]]
    /\ UNCHANGED <<lock, onShift, job, table>>

\* Shifts, seen from the queue: an employee clocks in or out.
Clock(e) ==
    /\ onShift' = IF e \in onShift THEN onShift \ {e} ELSE onShift \cup {e}
    /\ UNCHANGED <<queue, lock, job, table>>

\* A database call raises, or the process restarts: the open transaction
\* rolls back, the ones before it stay.
Fail(p) ==
    /\ Busy(p)
    /\ lock' = Released(p)
    /\ Done(p)
    /\ UNCHANGED <<queue, onShift, table>>

-----------------------------------------------------------------------------

Init ==
    /\ queue \in [Queues -> {"unused", "active"}]
    /\ place = [i \in ItemIds |-> NoPlace]
    /\ row = [i \in ItemIds |-> NewRow]
    /\ nextItem = 1
    /\ lock = [q \in Queues |-> NoProc]
    /\ onShift = {}
    /\ job = [p \in Procs |-> Idle]
    /\ returned = {}

\* The next transaction of the request process p is in the middle of.
Continue(p) ==
    CreateQueue(p) \/ JoinLock(p) \/ JoinInsert(p) \/ PickAssignee(p)
    \/ WriteItem(p) \/ CompleteOne(p) \/ Promote(p)

Asked(kind) == kind \in Requests

StaffAndCustomers ==
    \/ Asked("join") /\ (JoinStart \/ \E p \in Procs : JoinForShop(p))
    \/ \E p \in {Loop, Mcp}, q \in Queues, e \in Employees \cup {Nobody} :
            Asked("call-next") /\ CallNext(p, q, e)
    \/ \E i \in ItemIds : Asked("checkout") /\ Checkout(i)
    \/ \E i \in ItemIds : Asked("leave") /\ Leave(i)
    \/ \E i \in ItemIds : Asked("remove") /\ RemoveItem(i)
    \/ \E i \in ItemIds, s \in Statuses : UpdateStatus(i, s)
    \/ \E i \in ItemIds, e \in Employees : Asked("reassign") /\ Reassign(i, e)
    \/ \E i \in ItemIds, e \in Employees : Asked("serve") /\ Serve(i, e)
    \/ \E q \in Queues : Asked("reset") /\ ResetQueue(q)
    \/ \E q \in Queues : Asked("delete") /\ DeleteQueue(q)
    \/ Asked("close") /\ CloseQueues
    \/ \E p \in PoolThreads : ShowActiveQueue(p) \/ OwnerCreateQueue(p)
    \/ \E e \in Employees : Asked("clock") /\ Clock(e)

Next ==
    \/ \E p \in Procs : Continue(p) \/ Fail(p)
    \/ StaffAndCustomers

Spec == Init /\ [][Next]_vars

\* A request once accepted goes on to its next transaction, PostgreSQL grants
\* a row lock to its waiters in turn, the calls of one queue, made again and
\* again, are not all rolled back, and staff do not stop calling the next
\* customer of a queue that exists.
Fairness ==
    /\ \A p \in Procs : WF_vars(Continue(p))
    /\ SF_vars(JoinLock(Loop))
    /\ \A q \in Queues :
        /\ SF_vars(\E e \in Employees : CallNext(Loop, q, e))
        /\ SF_vars(job[Loop].q = q /\ CompleteOne(Loop))
        /\ SF_vars(job[Loop].q = q /\ Promote(Loop))

FairSpec == Spec /\ Fairness

-----------------------------------------------------------------------------
(* Properties.                                                             *)

TypeOK ==
    /\ queue \in [Queues -> {"unused", "active", "closed", "deleted"}]
    /\ place \in [ItemIds -> Place]
    /\ row \in [ItemIds -> Row]
    /\ nextItem \in 1 .. MaxItems + 1
    /\ lock \in [Queues -> Procs \cup {NoProc}]
    /\ onShift \subseteq Employees
    /\ job \in [Procs -> Job]
    /\ returned \subseteq ItemIds

\* Within a queue, customers who joined later stand at strictly higher
\* positions, whichever of the two processes took their join, and whatever
\* was reset or closed in between (create_queue_item, join_queue_for_shop).
ArrivalOrder ==
    \A i, j \in ItemIds :
        (Live(i) /\ place[i].queue = place[j].queue /\ i < j) => place[i].pos < place[j].pos

\* A queue item's queue exists: a join that is under way while the owner
\* deletes the queue leaves no customer in a queue nobody can call from.
ItemsHaveQueues == \A i \in ItemIds : Live(i) => Exists(place[i].queue)

\* Reports and the ten-minute checkout list rest on the time stamps: whoever
\* is being served has a start time, whoever is finished has an end time,
\* under every interleaving of stale writes.
StampsMatchStatus ==
    \A i \in ItemIds :
        /\ row[i].status = "being_served" => "started" \in row[i].marks
        /\ row[i].status \in Finished => "completed" \in row[i].marks

\* Call-next skips nobody: when it promotes a customer, everyone who joined
\* that queue earlier and is still waiting was put back in line by staff.
CallNextKeepsTurn ==
    [][\A p \in Procs :
        LET i == job[p].item IN
        (job[p].step = "promote" /\ job'[p] = Idle /\ row' # row /\ i # NoItem /\ Live(i)) =>
            \A j \in Waiting(place[i].queue) : j < i => j \in returned]_vars

\* Everybody in the queue of i who does not stand behind i.
UpTo(i) == {j \in ItemsOf(place[i].queue) : place[j].pos <= place[i].pos}

\* Who stands in the n-th place of queue q: one customer, by ArrivalOrder.
Standing(q, n) == {i \in ItemsOf(q) : Cardinality(UpTo(i)) = n}

\* A queue's line: its customers in the order of their positions.
LineOf(q) ==
    [n \in 1 .. Cardinality(ItemsOf(q)) |-> CHOOSE i \in Standing(q, n) : TRUE]

Line == INSTANCE TicketLine WITH
            line <- [q \in Queues |-> LineOf(q)],
            issued <- nextItem - 1

\* Positions, row locks and two processes implement lines that only grow at
\* the end.  A reset or delete is the line's Clear (create_queue_item,
\* join_queue_for_shop, reset_queue, delete_queue).
ImplementsLine == Line!Spec

\* Every accepted request ends: no join, delete or close waits for ever for a
\* row lock.
RequestsEnd == \A p \in Procs : Busy(p) ~> ~Busy(p)

\* If staff keep calling, nobody waits for ever, unless staff put someone
\* back in line; this includes customers of a queue the agent has closed.
WaitingAreCalled ==
    \A i \in ItemIds :
        (Live(i) /\ row[i].status = "waiting") ~>
            (~Live(i) \/ row[i].status # "waiting" \/ returned # {})

-----------------------------------------------------------------------------
(* Why the safety properties hold: what every transaction may rely on.     *)

\* A row that exists, or that a request remembers, has an id handed out.
IdsIssued ==
    /\ \A i \in ItemIds : Live(i) => i < nextItem
    /\ \A p \in Procs : job[p].item < nextItem
    /\ \A p \in Procs : job[p].step \in {"pick", "write"} => job[p].item # NoItem

\* Between the numbering and the insert the queue's row is locked, so the
\* queue stays and the number read stays above every position in it.
NumberingIsLocked ==
    \A p \in Procs : job[p].step = "insert" =>
        /\ job[p].q \in Queues
        /\ lock[job[p].q] = p
        /\ Exists(job[p].q)
        /\ \A i \in ItemsOf(job[p].q) : place[i].pos < job[p].pos

\* Every UPDATE that sets a status sets the time stamp that goes with it.
Stamped(c) ==
    /\ c.status = "being_served" => "started" \in c.marks
    /\ c.status \in Finished => "completed" \in c.marks

ChangesAreStamped == \A p \in Procs : Stamped(job[p].change)

\* From the moment call-next has read the list: whoever joined before its
\* choice and is waiting now was put back by staff.
ChoiceIsFair ==
    \A p \in Procs : job[p].step \in {"complete", "promote"} =>
        LET i == job[p].item IN
        i # NoItem /\ Live(i) =>
            \A j \in Waiting(place[i].queue) : j < i => j \in returned

IInv ==
    /\ TypeOK
    /\ IdsIssued
    /\ NumberingIsLocked
    /\ ArrivalOrder
    /\ ItemsHaveQueues
    /\ ChangesAreStamped
    /\ StampsMatchStatus
    /\ ChoiceIsFair
=============================================================================
