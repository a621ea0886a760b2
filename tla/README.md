# ZeroQWait in TLA+

TLA+ models of the parts of ZeroQWait that concurrency can break: the walk-in
queue, the approval flow of the owner's agent, the appointments, invoices and
payments, the migration of a shop's rows between schemas, the pages customers
watch, the registration in the chat, the hiring of employees and their shifts. TLC
checks them on small instances; TLAPS proves, for every instance, the safety properties
of all of them, and that the approval flow implements an abstract inbox. `PROJECT.json` maps each definition to the lines it models.

## 1. The system

ZeroQWait runs service shops: customers join a walk-in queue or book an
appointment, staff call and check out customers, the owner talks to a supervised
agent that may act only within the shop's policies.

What runs:

| process | what it runs | shares |
|---|---|---|
| backend event loop | the `async def` handlers, one at a time between two `await`s; database calls are synchronous, so a handler that awaits only at its end is never interrupted by another handler | PostgreSQL, Redis |
| backend thread pool | the plain `def` handlers, and the agent's graph (`asyncio.to_thread`) | same |
| booking MCP server | its own event loop and its own call-next, join, close, book, cancel | the same tables |
| finance MCP server | its own event loop; invoices, payments and refunds for the agent | the same tables |
| HR MCP server | its own event loop; hires, removes, plans shifts and clocks employees in and out for the agent | the same tables |
| voice MCP servers | wrappers around other servers | nothing |
| browsers | the reception page, the queue view and the chat: polls, a websocket, `localStorage` | the API |

There is one backend replica with one worker. PostgreSQL runs at READ COMMITTED:
each statement sees what was committed before it, and a transaction holds what it
locked until it ends. The unit of atomicity is therefore the transaction (often a
single statement), and a handler is a sequence of them. What it read in one may be
stale in the next.

### Components

**Walk-in queue** (`modules/queues`, `mcps/booking`, `db/analytics.py`). State: the
tables `queues` and `queue_items`. Operations: join (backend and booking server),
auto-assign, set status, check out, reassign, serve out of order, leave, remove,
call next (both), reset, delete, create, show (which may create), close. Hard: two
processes number the same line; read-then-write handlers; a queue deleted under a
join. Correct when customers stand in the order they joined, nobody is skipped,
nobody is lost in a queue that is gone, time stamps agree with statuses, everybody
is called in the end.

**Approval flow** (`agents/supervisor.py`, `agents/chat_service.py`,
`routers/agent_v2.py`, `modules/agent`). State: LangGraph's checkpoint thread of the
shop, the run of each chat, `agent_goals`, `agent_runs`, `approval_requests`,
`shop_policies`. Operations: a chat (sync or streamed), the graph's nodes, the gate,
interrupt and resume, filing a card, deciding it, changing a policy, timeouts. Hard:
all chats of a shop share one checkpoint thread, the graph of a chat that has timed
out keeps running, and the interrupt and the card are two records of one question.
Correct when nothing runs that policy or owner has not allowed, one approval
executes once, cards are shown once and decided once, and the owner is never stuck.

**Appointments** (`modules/appointments`, `mcps/booking`). State: the table
`appointments`. Operations: book, assign, set status, reschedule, list free slots.
Hard: a check and an insert without a lock, in two processes; a move made of two
transactions. Correct when an employee is not booked twice at one time, a booking
that is moved stays one booking, free time is offered.

**Employees and shifts** (`modules/employees`, `mcps/hr`, `agents/tools/hr_tools.py`,
`integrations/hr_mcp_client.py`). State: the rows of `users`, `shop_employees` and
`employee_shifts`, the agent's calls. Operations: hire by form or by agent, remove,
reactivate, clock in, clock out, plan a shift. Hard: the form commits a user and its
link to the shop one after the other, the HR server both at once; clock-in looks and
then inserts, the HR server inserts without a look; the client gives up a call after
ten seconds while the server goes on. Correct when usernames are unique and accounts
belong to the shop, a person is hired once, who is on shift is on the staff and on
one shift, and everybody can go home.

**Payments** (`modules/payments`, `routers/payments.py`, `mcps/finance`,
`integrations/finance_mcp_client.py`). State: the tables `invoices` and `payments`,
Stripe's intents, Odoo's books, the calls of the agent. Operations: create an
invoice, record a payment (webhook, agent), refund, summarise the day. Hard: two
processes record payments of one invoice, deliveries repeat, errors are returned
instead of raised, also after a commit, calls are given up while the server goes on,
amounts are Floats. Correct when an invoice is PAID only if its payments cover it and
not left open without a reason, and money is counted once.

**Tenant migration** (`tenant_manager.py`, `routers/tenants.py`, the middleware of
`main.py`). Moves a shop's rows between the shared and its own schema, statement by
statement, while the shop is open. State: both sets of tables, the shop's pointer,
the owner's tier, the search path each request has been given. Correct when no row
is lost or doubled and the pointer agrees with where the rows are.

**Live pages** (`websocket_manager.py`, the broadcasts of `modules/queues/router.py`,
`AIShopPublicPage.tsx`, `QueueViewPage.tsx`). State: the manager's list of
connections, the sockets, the polls under way, what each page shows and remembers.
Hard: answers that overtake one another and the join itself, connections that die
unnoticed or open after the page was left, a send that fails, a queue that is closed
with people in it. Correct when a customer in line keeps the place that was saved,
pages come to show the line, and who is done is let go.

**Registration** (`registration_agent.py`, the gate in `agent/master.py`,
`InlineRegistrationForm.tsx`). State: a step machine in Redis, the forms open in the
chat, then user and shop in one transaction. Hard: a submission does not say which
form it came from, several forms are open at once, a chat message waits for a
language model between reading the session and acting on it, Redis fails silently.
Correct when an account is made of data that was checked and a visitor who goes on
gets to an end.

**Redis** (`redis_client.py`): sessions, rate limits and caches. **Scheduler and daily
analytics** (`scheduler.py`, `analytics_processor.py`). **Audit log** (a bounded queue
and a writer). **WebSocket broadcasts**. **Customers' visit counts**.

The others (specialist agents, the legacy customer chat, memory, model settings,
users and permissions, shops and services, the voice servers, speech, the
owner's pages, deployment) keep no state a protocol could break
or are language models and pure I/O; `components` in PROJECT.json gives the reason
for each.

How they meet: the booking server writes the tables of the queue and the
appointments behind the backend's back; joins read the shifts; automatic assignment
of appointments reads the queue; a graph's approved action calls the booking, finance
or HR server; migrations move the tables of the queue under requests that are being
served; every change of the queue is broadcast to the pages, which poll as well; a
registration makes the account an owner's shop and queue hang on.

The hazards, each at its line with the properties that watch it, are listed in
PROJECT.json.

## 2. The modules

| module | content |
|---|---|
| `TicketLine` | abstract: each queue is one line, customers arrive at its end, a line is cleared as a whole |
| `WalkInQueue` | the queue's tables, row locks, every handler transaction by transaction, failures; its properties, inductive invariant and refinement mapping to `TicketLine` |
| `MCWalkInQueue` | symmetry |
| `WalkInQueueProofs` | theorems about `WalkInQueue` |
| `Inbox` | abstract: cards that ask about one action each, are settled once, and approvals that run at most one action |
| `ApprovalFlow` | chats, graph, checkpoint, gate, cards, decisions, policies, failures |
| `MCApprovalFlow` | symmetry |
| `ApprovalFlowProofs` | theorems about `ApprovalFlow` |
| `Appointments` | bookings of one shop by the backend and the booking server |
| `AppointmentsProofs` | theorems about `Appointments` |
| `Payments` | invoices, payments and refunds by the webhook and by the agent's calls |
| `PaymentsProofs` | theorems about `Payments` |
| `TenantMigration` | one shop's rows in two schemas, migrations and requests |
| `MCTenantMigration` | symmetry |
| `TenantMigrationProofs` | theorems about `TenantMigration` |
| `LivePages` | polls, broadcasts, websockets and what the customers' pages keep |
| `LivePagesProofs` | theorems about `LivePages` |
| `Registration` | sessions, forms and chat messages of visitors, and the accounts made |
| `RegistrationProofs` | theorems about `Registration` |
| `Staff` | accounts of employees and their shifts, by pool threads and the HR server |
| `StaffProofs` | theorems about `Staff` |

### WalkInQueue

`queue` and `lock` are the table `queues` and its row locks. A row of `queue_items`
is split in `place` (queue and position, written once, at the insert) and `row`
(status, assigned employee, and which of started, completed, checked-out has been
written; the marks are never cleared by the code). `job[p]` is the request a process
is in the middle of with what it has read; a process that is `idle` may take a
request. `returned` remembers whom staff have put back in line, `onShift` the
employees with an open shift.

| actions | code |
|---|---|
| `JoinStart`, `CreateQueue`, `JoinLock`, `JoinInsert`, `PickAssignee`, `WriteItem` | the backend's join: find or create the queue; lock and number; insert; choose; assign |
| `JoinForShop`, `JoinInsert` | `join_queue_for_shop`: the join of the booking server and of the customer chat (a pool thread) |
| `UpdateStatus`, `Checkout`, `Reassign`, `Serve`, `Leave`, `RemoveItem`, then `WriteItem` | read one item, decide, write it in another transaction |
| `CallNext`, `CompleteOne`, `Promote` | one read of the list, then a transaction per write |
| `ResetQueue`, `DeleteQueue`, `CloseQueues`, `ShowActiveQueue`, `OwnerCreateQueue`, `Clock` | single transactions |
| `Fail` | an exception or a restart: the open transaction rolls back |

The mapping to `TicketLine`: customer `i` stands in the n-th place of the line of
`place[i].queue` when n customers of that queue, `i` included, have no higher position
(`UpTo`, `Standing`, `LineOf`); the tickets issued are the ids below `nextItem`.

Cached views, broadcasts, prices, wait estimates and permissions are left out.
The archive step of the nightly maintenance is not an action: the SQL function
compares the status column with lower-case labels, the enum type has upper-case
ones, so the call raises, is caught, and archives nothing.

### ApprovalFlow

`worker[w]` is the graph run of chat w's thread, or of the approve handler (`Loop`);
`thread` the latest checkpoint; `handler`, `seen`, `goal`, `run` what a chat's handler
has done and read; `request` the cards; `loop` the synchronous section the event loop
is in, during which no other section runs, but worker threads do. `proposal[p]`
carries the policy mode of the moment it was made. Actions follow the graph's nodes
(`Begin`, `ExecutePlan`, `GatePasses`, `GateExecutes`, `GateSaves`, `GateRejects`,
`GateInterrupts`, `Synthesize`), the chat handler (`StartChat`, `ReadState`,
`FinishGoal`, `FinishRun`, `FileRequest`, `Abandon`, `Stop`) and the approve handler
(`DecideInterrupt`, `LoadCheckpoint`, `Resumed`, `DecideRequest`, `DecideRow`,
`DecideGoal`, `DecideRun`). `LoopFails` is an exception or a crash.

LangGraph is external. Assumed of it: a run saves a checkpoint after every node;
`get_state` and a resume load the latest checkpoint of the thread, whoever saved it;
an interrupt is kept with the checkpoint of the node that raised it.

`OwnersInbox` maps the rows of `approval_requests` to the cards of `Inbox`, what the
owner has approved to `approvals`, and the executions no policy mode permits to
`spent`; checkpoints, threads and handlers disappear. `ImplementsInbox` says that every
step is one of the inbox or none.

Left out: what specialists say, documents, memory, customer cases and the listings of
the inbox; the limit of 25 rows on the search for a matching card; expiry of cards
(nothing in the code acts on it).

### Appointments

`appt` is the table, `job[p]` the request in progress. `Book`, `Assign`, `Check`,
`Insert` are the steps of a booking; `Reschedule`, `CancelOld` and then `Check`,
`Insert` those of a move; `UpdateStatus` and `Fail` as named. `by`, `root`, `away`
and `revived` are history variables for the properties. `AvailableSlots` is the pure
function behind the slot listing. A move that changes the duration raises after its
first commit, because the old row has expired and its session is closed; `CancelOld`
says so.

### Payments

`invoice` and `payment` are the tables, `job[p]` the recording the backend's loop or
the finance server is in the middle of, `stripe` what Stripe has been told and has
delivered, `odoo` the entries in Odoo, `call` the agent's calls with what the caller
and the server know of each. `CustomerPays`, `Webhook`, then `ReadPaid`,
`CommitPayment` or `RecordingFails`, then `SyncToOdoo` and `Acknowledge` are the way of
a delivery; `Ask`, `TimeOut`, `ServePayment`, `PickInvoice`, `ServeInvoice`,
`ServeRefund` that of a call; `Restart` loses what a process was doing. `ReadPaid` and
`CommitPayment` are two statements, because the sum is read before the commit. A
delivery that is not acknowledged is repeated, up to `MaxDeliveries`. A handler that has
committed may still answer an error (`Committed`), because `session.refresh` is in the
same `try` as the commit.

Amounts and totals are Floats of dollars in the code and whole cents in the model. A
Float that stands for an amount is the one nearest to it, so two of them compare as
their cents do, and rounding errors of sums are far below a cent. The model keeps
the one comparison they decide: when several payments make up a total to the cent,
`Covers` lets `total_paid >= inv.total` be true or false (0.70 + 0.10 < 0.80). A
refund compares two amounts, and the day's summary is only added up: its property is
about which rows are counted, not about their rounding.

Left out: currencies and taxes, listings, and Stripe's and Odoo's own
state beyond what the code is told.

### TenantMigration

`public` and `tenant` give each row's version in the two schemas (0: no row),
`pointer` and `tier` the columns an upgrade sets, `mig[m]` the migration a pool thread
is in, with what its open transaction has inserted or deleted, `req[q]` the search
path a request was given at its start. `Begin`, `CreateSchema`, `Copy`, `Delete`, `Point`
are an upgrade, `Begin`, `Copy`, `Drop`, `Clear` a downgrade, `SetTier` the handler's
end, `MigrationFails` an exception or a restart anywhere. `Copy` and `Delete` are one
statement each, for one table, and see what has been committed by then; a statement
waits for rows an open transaction has touched (`Free`), and the copy of an item back
to the shared tables fails when its queue is not there (`Referenced`: the schema's own
tables are created without the foreign keys). Requests `Create`, `Join`,
`Change` and `Remove` rows where their path leads. Services, queues and items stand
for the eight tables: they have what the copies differ in (a parent, a child selected
through its parent, a table that stands alone).

### LivePages

`status` and `queueOf` are the rows as far as the pages tell them apart, `active` the
queue `GET /active` answers with (`Rows`), `page[b]` a browser's page, saved id and line,
`poll[b]` its requests under way, `sock` the sockets at both ends, `listed` the manager's
list, `sends` the broadcasts in progress. `Broadcast` is what most changes of the queue
end with; it says what happens to a snapshot that holds a customer: `checked_in_at` is
a `datetime`, which `send_json` cannot encode, so the send raises for each connection and
each is removed. `SendNext` is one send and its await.

| actions | code |
|---|---|
| `Join`, `SetStatus`, `Reassign`, `CallNext`, `CallNobody`, `Reset`, `Leave` | the router's handlers: an update, then a snapshot of the active queue (not when call-next finds nobody) |
| `ServerJoin`, `ServerChange`, `CloseQueues`, `DeleteQueue` | the booking server's join, call-next and close, and the router's delete: no snapshot |
| `Poll`, `PollFails`, `ShowList`, `Reconcile`, `Judge`, `Estimate` | the pages' requests and the handlers of their answers |
| `Connect`, `Opens`, `Register`, `AcceptFails`, `Drop`, `Hangup`, `ShowSnapshot` | the life of a socket; `Register` (server) and `Opens` (client) come in either order |
| `Told`, `Navigate` | the id is saved; the reception page is left, and its socket closed if it is open |

A close leaves the items in the old queue (`LeftBehind`), which can still be called by its
id. The next `GET /active` or join creates a queue; as long as it is empty, whether it
exists makes no difference to a list, so `CloseQueues` begins it at once. Left out:
prices and wait texts, feedback, speech, what the reception page shows as the
customer's own item, further queues an owner may have opened, and joins that
overlap a close or a delete.

### Registration

`session` is `reg:{session_id}`, with the step, the account type, the address, and which
steps' data have been entered and which have passed their checks; `account` the users by
address, with how each came to be; `open[v]` a bag of forms; `chat[v]` what the message
under way has read. `SubmitStep`, `SubmitRefused`, `SubmitUnseen`, `SubmitFinal` and
`SubmitFails` are the outcomes of `POST /step`; `Start`, `Cancel`, `Reload` the other
requests; `ChatReads` and then one of `ChatInterrupts`, `ChatReminds`, `ChatRegisters`,
`ChatsElsewhere` a message; `OtherTakes` an account made elsewhere. The address stands
for both unique columns. Cancelling and the session's expiry have the same effect
and are one action. A write to Redis, an answer, the look-up of an address and the
final transaction may each fail, as the code lets them: silently. The reload drops the
answer to a message under way, with the stream it would have come by.

Left out: the look-ups while typing (reads), country and phone formats, the summary.

### Staff

`account` lists the rows of `users` and `shop_employees` that belong together: whose,
which username (the person's name with a suffix), which kind of address, and whether
the link to the shop is missing, active or inactive. `shift` lists `employee_shifts`;
`by` and `notes` remember who opened a shift and what came between its check and its
insert. `job[t]` is a pool thread, `hr` the one request the HR server is in, `call` the
agent's calls, `wish[p]` what the owner was told last about hiring p.

| actions | code |
|---|---|
| `FormChecks`, `FormAddsUser`, `FormLinks` | `add_employee` of the router: look, insert the user, insert the link |
| `AskServer`, `ServerLooks`, `ServerAdds`, `ServerFails` | an approved `add_employee`: call, free username and address, one transaction |
| `GiveUp`, `ServerAnswerLost`, `FormAnswerLost` | the owner hears of a failure, and the employee is or will be there |
| `Remove`, `Reactivate` | one row of `shop_employees` each, by router or HR server |
| `ClockIn`, `ClockInLooks`, `ClockInInserts`, `ClockOut`, `ClockOutWrites` | the employee's own clock |
| `ServerClocksIn`, `ServerClocksOut`, `ServerCloses`, `ServerClockFails`, `AssignShift` | the HR server's |
| `ThreadFails` | an exception or a restart in a pool thread |

The active shift is any open one: the query has no order. The HR server takes the
latest, but by the clock of whichever process opened it (one writes UTC, the other
local time), so its choice is free too. All hires have the role employee. Left out:
profiles, photos, passwords, listings, shops other than one.

## 3. What is checked

| run | properties | instance | shows |
|---|---|---|---|
| `queue_joins` | `IInv`, `ArrivalOrder`, `ItemsHaveQueues`, `StampsMatchStatus`, `CallNextKeepsTurn` | 2 queues, 2 customers, 1 employee, 1 pool thread, all requests | joins of three processes and both call-nexts race with every stale write, delete, reset and close: the order of arrival, no customer without a queue, stamps that match, nobody skipped |
| `queue_liveness` | `RequestsEnd`, `WaitingAreCalled`, `ImplementsLine` | 2 queues, 2 customers, joins, calls, close, reset | everybody is called in the end; the queues implement `TicketLine` |
| `approval_policies` | `IInv`, `ExecutionsAreGranted`, `CardsAreWaitedFor`, `OneCardPerAction`, `ImplementsInbox` | 2 chats, 2 actions, 2 proposals, 1 failure, four initial modes, `require_approval` set at any time | the approval's promises that do hold; chats, graphs and handlers implement `Inbox` |
| `approval_liveness` | `BlockEnds` | 2 chats, 1 action, 1 failure | an owner who is held up can always get free |
| `approval_forbidden` | `ForbiddenNeverRuns` (violated) | 2 chats | a forbidden action runs |
| `appt_booking` | `IInv`, `BookedApart`, `OneOpenPerBooking`, `FreeSlotsAreOffered` | 1 employee, 3 appointments, 3 overlapping or touching times | one process never double-books; a moved booking stays one; free slots are offered |
| `payments` | `IInv`, `PaidWasCovered`, `CoveredIsPaid`, `RefundsFit`, `SummaryNeverOverstates`, `BooksAgree`, `AnswersAreTrue` | 2 invoices of 2, payments of 1 or 2, 1 intent delivered twice, 2 calls | PAID means covered; an open invoice is not overpaid, nor covered by one payment, unless two recordings raced; nothing is refunded twice; books agree with the deliveries as far as no failure comes between; a good answer means a payment, and no call makes two |
| `tenant_migration` | `IInv`, `QuietRowsAreServed`, `NeverInBoth`, `MarksAreTrue` | 1 service, 1 queue, 1 item, 2 migrating threads, 3 moves, 1 request | rows nobody writes during a move are safe whatever breaks off; no id in two places; what an interrupted or crossed move leaves |
| `tenant_routes` | `RequestsFindTheRows` (violated) | 1 move | routes without the shop in their path miss the shop's rows |
| `live_pages` | `IInv`, `PlacesAreKept`, `PagesCatchUp`, `ServedAreLetGo` | 1 browser, 1 walk-in, 2 polls at once, 1 socket, 3 changes, 1 failure | connections in order; a place is lost only to a list older than the join or to the close of the queue; pages catch up; the served are let go |
| `registration` | `IInv`, `AccountsAreComplete`, `NobodyIsStranded` | 2 visitors, 1 address, 2 forms at once, 3 messages, 1 failure | sessions have passed exactly the steps before theirs; accounts hold checked data but what ended the registration; visitors get to an end |
| `staff` | `IInv`, `OpenShiftsAreExplained`, `HiredOnce`, `EverybodyGoesHome` | 1 person, 2 threads, 1 call, 2 accounts, 2 shifts, 1 failure | names unique and accounts linked but for a form that broke off; nobody on shift who is not staff, or twice, but by the races the properties name; repeated calls hire once unless an answer was lost; everybody goes home |

Every property of a passing run has a mutant, a plausible error put into one mapped
definition (its comment says `Mutant:`), that makes TLC find the property violated.

### Bounds, and why they are enough

- `MaxItems`, `Queues`: ids the tables may hand out. A request that will need an id
  starts only while one is left for it (`RoomToJoin`, `RoomToCreate`), so no request
  is cut off in the middle. Order, turn and stamps are about pairs of customers, and
  a customer can be lost between two queues; the proofs cover every other size.
- `PoolThreads`: one thread suffices to create a queue, or to take the lock for a
  join of its own, between two statements of a join of the backend. `Requests` and
  `StaffStatuses` say which requests arrive. In `queue_joins` staff set "completed"
  only: with "waiting" as well it has six million states and passes too, in more time
  than a run is given; the proofs hold for every set of statuses.
- `Chats`, `MaxProposals`, `MaxRequests`: the races are between the chat that files or
  executes and one other. `MaxFailures`: one failure can hit any section; a second
  would only repeat it.
- `MaxAppointments = 3`: one standing appointment, one move, one competitor. `Starts`
  and `Durations` give overlapping, touching and equal times.
- `MaxPayments = 3`: two payments that cover an invoice between them and a repeated
  one. `MaxCalls = 2`: a call that is given up and the one asked instead.
  `MaxDeliveries = 2`: one redelivery.
- `MaxMigrations = 3`, two threads: an upgrade, a downgrade, and one that crosses
  either. `MaxVersion = 2`: a row as it was copied and one write since. One request:
  its path may be older than the move, and it may end and begin again.
- `PollSlots`: two answers are what can overtake each other. `MaxChanges = 3`: a join,
  a call or a close, and one more. One socket: a browser has one live one at most
  (`ConnectionsInOrder`, proved for every number); a new one beside the server's end of an
  old one needs two, which passes as well with one poll under way. `MaxFaults = 1`: a
  socket or a request lost.
- `MaxOpen = 2` forms: the one asked for and a stale one. `MaxChats = 3`: both visitors
  start and one message is under way, or one visitor starts twice. One address that
  passes the check, which both visitors and others want, and one that does not pass
  but reaches the table through the last step.
- `MaxAccounts = 2`, `MaxShifts = 2`: the second account of one person and the second
  shift of one employee are what must not be, or must be explained. Threads of hires
  and clock-ins that have begun are counted against the bound, so none is cut off.
  One call, since the server takes one at a time; it may be given up and another
  asked. `MaxFaults = 1`.

### Fairness

Queue (`WalkInQueue!Fairness`): a request that was accepted goes on (the handlers do
not wait for anything but the row lock, which PostgreSQL grants in turn: weak
fairness of `Continue`, strong for `JoinLock`, which another process's lock may
disable again and again); staff keep calling the next customer of each queue that
exists, and the calls of one queue are not rolled back every single time (strong
fairness of its `CallNext`, `CompleteOne`, `Promote`, since other handlers use the
loop in between). The booking server's call-next is not assumed to be used. Nothing
makes customers join or owners reset.

Approval (`ApprovalFlow!Fairness`): nodes of a run and sections of the loop proceed;
a chat that has read its state finishes; an owner who is blocked decides the card
shown first. Nothing is assumed of the number of chats or of policy changes.

Pages (`LivePages!FairSpec`): the timer of the page that is open fires, and requests are
answered and their answers handled (weak fairness for each browser, of its requests
taken together). Nothing is assumed of sockets, sends, navigation or staff: once
changes stop, at the bound, the pages have to come to rest by polling alone.

Registration (`Fairness`): a visitor with a session gives a good answer to the form
asked for if it is on the page, and reloads the page if it is not. Both are
continuously possible until done; failures and messages are what the bounds allow, so
they end, as they do in life. Nothing makes a visitor start.

Staff (`Fairness`): handlers that have begun go on; employees who are on shift press
clock-out again and again, and the pool comes to serve one of them (strong fairness,
since other requests use the threads in between). Shifts are bounded, so clock-ins
end. Nothing makes the owner or the HR server do anything.

`queue_liveness` switches deadlock checking off: when all ids are used and the staff
have called everybody, the system may stop. So do `payments` and `live_pages`, where
calls and changes are used up and nothing has to happen any more.

## 4. What is proved

`WalkInQueueProofs`, for any number of queues, customers, employees and threads, from
`ConstantsOK` only (`MaxItems` is a natural number, the extra values are new):

| theorem | statement |
|---|---|
| `InductiveInvariant` | `Spec => []IInv` |
| `TypeCorrect` | `Spec => []TypeOK` |
| `JoinedInOrder` | `Spec => []ArrivalOrder` |
| `NobodyInADeletedQueue` | `Spec => []ItemsHaveQueues` |
| `StatusesAreStamped` | `Spec => []StampsMatchStatus` |
| `TurnsAreKept` | `Spec => CallNextKeepsTurn` |
| `LinesAreImplemented` | `Spec => ImplementsLine` |
| `LinesAreFaithful` | `Spec => []LinesListTheQueues`: the lines name all customers of their queues and nobody else, in the order of positions and arrival |

The argument. The properties are not inductive by themselves; each needs to know
what a request that is between two transactions may rely on.

- `NumberingIsLocked`: from numbering to insert, a process holds the row lock of the
  queue, which exists, and the number it took is above every position in it. Nobody
  else can insert into that queue or delete it while the lock is held; a reset may
  remove customers, which keeps the number above the rest. This gives `ArrivalOrder`
  and, with the lock that a delete waits for, `ItemsHaveQueues`.
- `ChangesAreStamped`: every update that sets a status carries the stamp for it, and
  marks are only added. So no interleaving of stale writes can separate the two, which
  is `StampsMatchStatus`.
- `ChoiceIsFair`: once call-next has chosen, anybody who joined earlier and is waiting
  was put back by staff after the list was read. Joins come later in the line
  (`ArrivalOrder`, `IdsIssued`). This gives `CallNextKeepsTurn`.
- `IdsIssued`: ids that exist or are remembered have been handed out.

The proof has one lemma per action for each part that the action can disturb, and
combines them in `InductiveInvariant`.

For the refinement, places are numbers of customers: two customers of a queue have
different positions, so the later one has a higher rank (`RanksDiffer`), and as many
different ranks as customers leave no place empty and none with two (`OneInEachPlace`,
a counting argument on finite sets). A join changes no rank of those before it and gets
the next one itself (`JoinArrives`; this is where the row lock matters, through
`NumberingIsLocked`), so the line is appended to; a reset or delete maps to `Clear`
(`DropClears`); no other step writes positions or hands out ids (`LinesStay`). That a
refinement through `LineOf` says something is `LinesAreFaithful`.

`RegistrationProofs`, for any number of visitors, addresses, open forms, messages and
failures, from `RegistrationConstants` only (the bounds are natural numbers, a page has
room for one form at least, because a reload always restores the one that is asked for, the
extra values are new):

| theorem | statement |
|---|---|
| `Invariance` | `Spec => []IInv` |
| `SessionsSound` | `Spec => []SessionsAreSound` |
| `AccountsComplete` | `Spec => []AccountsAreComplete` |

The argument. That accounts are complete depends on what the session had passed when
the account was made, so the invariant `SInv` speaks of both: every session is typed
and `Sound` (it has passed exactly the steps before its own, with the address and the
account type if and only if those are among them), every account is `Complete`. The step lists
are written out and their order derived once (`StepLists`, `StepsDiffer`, `NextStep`):
the steps before the next one are those before this one and this one. With that
`AdvancedSound` shows that a checked submission keeps a session sound, and
`AccountComplete` that a final one of a sound session makes a complete account, with
the form that ended it as the only exception. Starting, cancelling, reloading,
messages and failures only keep, replace or remove whole sessions (`SessionSound`).

`Invariance` adds the rest of the state (`PInv`). It needs `SInv`, because the form shown
next is that of the step a sound session moves on to, and a message may show the form of a
step it read when the session was sound. The forms of a page are counted as pairs of a
step and a number (`Shown`), so that `FormAdded` and `FormRemoved` are facts about adding
and removing one element of a finite set: a submission puts one form in the place of one,
and the messages that add a form ask for room first.

`ApprovalFlowProofs`, for any number of chats, actions, proposals, cards and failures and
any policies, from `ConstantsOK` (the bounds are natural numbers, the modes are modes, the
extra values are new):

| theorem | statement |
|---|---|
| `Invariance` | `Spec => []IInv` |
| `ActionsAreGranted` | `Spec => []ExecutionsAreGranted` |
| `CardsHaveTheirWork` | `Spec => []CardsAreWaitedFor` |
| `CardsDiffer` | `Spec => []OneCardPerAction` |
| `InboxIsImplemented` | `Spec => ImplementsInbox` |

The argument. An approval is one answer that travels: from the owner's decision through
the checkpoint that is loaded to the gate, and back to the row. `AnswerIsUnused` says that
no other answer is under way and that this one is still to be spent, so the gate spends
an approval of its own. `OneRowPerChat` and `SectionsInOrder` say what the sections of the
event loop may rely on while worker threads go on: a chat files one row at most, after its
goal and run were written as waiting. `ProposalsExist` is needed because cards, threads
and chats remember proposals by number: a thread that is interrupted has one.
`ApprovalsAreGiven` counts rows decided as approved, with the one about to be written,
against the approvals given. For the refinement every action of `Next` is mapped, with
the invariant, to a step of `Inbox` or to a stutter.

`AppointmentsProofs`, for any number of appointments and employees and any times, from
`ConstantsOK` (natural and whole numbers, lengths above zero) and `StaffStatusesOK` (staff
set statuses that exist):

| theorem | statement |
|---|---|
| `Invariance` | `Spec => []IInv` |
| `OneProcessBooksApart` | `Spec => []BookedApart` |
| `AMovedBookingIsOne` | `Spec => []OneOpenPerBooking` |
| `SlotsAreOffered` | `Spec => []FreeSlotsAreOffered` |

The argument. `CheckedSlotIsFree`: between its check and its insert a process has itself
booked nothing that overlaps. `MovesAreFromCancelled`: when a move books, all that the
booking had before is cancelled. `IdsIssued` keeps rows, history and requests to ids that
were given; without it a new row could inherit a history.

`PaymentsProofs`, for any number of invoices, intents, payments, calls and deliveries and
any amounts, from `PaymentConstants` (bounds and amounts are natural numbers, amounts and
totals above zero, the extra value is new):

| theorem | statement |
|---|---|
| `Invariance` | `Spec => []IInv` |
| `PaidIsCovered` | `Spec => []PaidWasCovered` |
| `OnlyRacesHidePayment` | `Spec => []CoveredIsPaid` |
| `RefundsAreBounded` | `Spec => []RefundsFit` |
| `SummaryIsCovered` | `Spec => []SummaryNeverOverstates` |
| `BooksAgreeWithStripe` | `Spec => []BooksAgree` |
| `AnswersCanBeBelieved` | `Spec => []AnswersAreTrue` |

The argument. `CoverIsKnown` is its heart: a recording that will mark its invoice has seen
payments that cover it, which never go away; one that will not has seen too few, and
whatever was recorded since by the other process has put the invoice among the `raced`
("too few" admits the exact sum of several payments, where the Floats decide).
`DeliveriesAreCounted` gives each delivery one row and one entry in the books, minus what
the loop is still to write; `CallsAreServed` says that a call has no payment before it is
served; `RowsAreIssued` reserves an id for each recording under way (that is the bound's
part: no recording is cut off). A sum of amounts is written as the number of cents
(pairs of a payment and a cent of it), so that facts about sums are facts about
cardinalities of disjoint or nested finite sets, and no induction is needed.

`LivePagesProofs`, for any number of browsers, other customers, sockets, polls under way,
changes and failures, from `PageConstants` (bounds are natural numbers, browsers are not
walk-ins):

| theorem | statement |
|---|---|
| `Invariance` | `Spec => []IInv` |
| `CustomersKeepTheirPlace` | `Spec => []PlacesAreKept` |
| `ConnectionsStayInOrder` | `Spec => []ConnectionsInOrder` |

The argument. A page forgets an id for one of two reasons. A list that does not have the
item: `ListsAreUnderstood` says that such a list was read before the join or after the
queue was closed, or the item has been deleted since, and that the page which saved the
id has none of the first kind coming, or is among the `raced`. A snapshot of an empty line: `SnapshotsAreFresh` says that
none is on its way to the page of a customer in line, left or not, over a socket that is
open or connecting, because a snapshot of a line that holds anybody empties the list of connections instead, and a new connection starts with
nothing under way; a customer of a closed queue is not in that line, and is exempt. `JoinersMoveOn` ties the page to the row. A lemma for each group of
steps (changes of the queue, answers to polls, sockets) says what the group may disturb.

`StaffProofs`, for any number of people, threads, calls, accounts, shifts and failures, from
`StaffConstants` (bounds are natural numbers, the pool and the calls are finite sets, the
extra value is new):

| theorem | statement |
|---|---|
| `StaffInvariance` | `Spec => []IInv` |
| `ShiftsAreExplained` | `Spec => []OpenShiftsAreExplained` |
| `HiresHappenOnce` | `Spec => []HiredOnce` |

The argument. Accounts and shifts are never deleted, so what a request has read of
them still holds (`ThreadsAreWhole`, `ServerIsWhole`), except the two things a race may
change, which mark it (`ClockInsAreMarked`). `OneRequestAsks` (the owner waits for one request
per person, by form or by call) with `HiresAreKnown` (while no answer was lost, an account
that exists is known to the owner or about to be) gives `HiredOnce`. That a hire finds a
free suffix, so that usernames stay unique, is the pigeonhole principle: more suffixes are
tried than there are accounts. `RoomIsKept` is the bound's part.

`TenantMigrationProofs`, for any number of services, queues, items, versions, migrating
threads, moves and requests, from `TenantConstants` (rows of different tables differ, there
is a queue, a row can be written at least once):

| theorem | statement |
|---|---|
| `Invariance` | `Spec => []IInv` |
| `RowsAreInOnePlace` | `Spec => []NeverInBoth` |
| `QuietRowsStayServed` | `Spec => []QuietRowsAreServed` |
| `MarksStayTrue` | `Spec => []MarksAreTrue` |

The argument. An upgrade copies rows whose place in the schema is empty, a downgrade rows
whose shared place is, and no row is being copied twice (`CopiesAreApart`): so whatever an
open transaction holds can be committed without a second place. What keeps the first place
from staying is `DeletesAreLocked`: of the tables an upgrade has deleted from, no row it
copied is left, and what it is to delete stays locked until it commits. `ItemsHaveQueues` is
needed for both, because items are selected through their queues and go with them; for
rows in the schema, which has no foreign keys, `QuietItemsHaveQueues` says as much of the
items nobody touches. `QuietRowsAreCopied` (a quiet row is in the table served and not in
the other, and has been copied, truly, once its table has been) makes each of the two
commits keep what is served; and it makes the copies of a second move of the same kind
empty of quiet rows as soon as the first commits. `MovesKnowWhere` is what "crossed" rules
out: moves of both kinds at once. The steps of a move that commit no row, the copies and
deletes, the two commits, and the writes of requests (`Lawful` is what the handlers' writes
have in common) are four groups of lemmas.

What an invariant says of requests under way is in each module as a named conjunct of
`IInv`, with a comment, and TLC checks `IInv` on the runs.

Only model-checked: liveness under fairness, which TLAPS cannot prove (`RequestsEnd`,
`WaitingAreCalled`, `BlockEnds`, `PagesCatchUp`, `ServedAreLetGo`, `NobodyIsStranded`,
`EverybodyGoesHome`). Every invariant, action property and refinement that a passing run checks is
also a theorem.

## 5. Disagreements found

Two are violation runs; PROJECT.json quotes the sentence that the code contradicts.

1. `approval_forbidden`: a forbidden action is executed after approving a card that
   another chat filed from the shared checkpoint.
2. `tenant_routes`: after an upgrade, the routes that name a queue or an item look in
   the shared tables, where the shop's rows no longer are.

Others are behaviours of the models that the properties leave room for:

- A customer who checked out is served again by a call-next of the booking server that
  read the list before (`modules/queues/router.py:378` says otherwise).
- An action may have run before its card appears as pending, and an approval may run
  the proposal another chat saved after the check of `action_id` (`ApprovalFlow`).
- The conflict check forgets customers who have checked in; a reschedule with a new
  duration cancels the appointment and creates nothing (`Appointments`).
- Two payments of one invoice recorded at the same time leave it unpaid (`raced`), and so
  do payments that make up its total to the cent when their Floats sum to less (0.70
  and 0.10 for 0.80), though `payments/service.py:197` says "Mark invoice as paid when fully
  covered"; a redelivered event is recorded again; a payment that was committed can be
  answered with an error, by the refresh after the commit (`Payments`).
- Rows written during a move are lost or left behind (`raced`); a downgrade that breaks
  off between its commits leaves a pointer to no schema (`TenantMigration`).
- The first snapshot with a customer in line removes every live connection of the shop
  from the manager's list, though `websocket_manager.py:35` speaks of dead connections:
  the sockets carry nothing any more, and pages catch up by polling (`LivePages`).
- A list from before the join makes the reception page forget the customer's id
  (`raced` of `LivePages`).
- After the booking server's close, customers in the closed queue are shown nowhere, a
  poll of the reception page forgets their id, and the queue view keeps the id of one
  who is finished for ever: the item is not in the list, the estimate answers
  "completed", and `QueueViewPage.tsx:177-187` does nothing (`LeftBehind` of `LivePages`).
- A socket that is connecting when the reception page is left opens afterwards, is never
  closed by the page, and goes on handling snapshots (`AIShopPublicPage.tsx:269`).
- A form left open by a reminder and submitted at the last step creates the account,
  without "confirm" and with that form's data unchecked (`ended` of `Registration`),
  though `registration_agent.py:133` asks to "review your details and **confirm** to
  complete registration"; "Please try again" (`:490`) cannot help when the address was
  taken meanwhile, and a `form_error` is closed without being shown.

- The agent's clock-in opens a second shift, which `employees/router.py:167` refuses
  ("You are already clocked in. Please clock out first."); an employee who is removed
  on shift stays on shift and goes on being given customers (`queues/router.py:86`);
  a form that breaks off leaves a username taken by nobody's employee; a person whose
  hire was given up and is asked for again without an address gets a second account
  (`lost` of `Staff`).

Seen while reading, without a model: a manager whom the agent clocked in cannot clock
out (`employees/router.py:184`); shifts listed for a date cover its first instant only
(`hr_tools.py:165`); a status may follow any other, though the handler
lists valid transitions (`appointments/router.py:342`); appointments that start before
opening do not hide the time they take; call-next of the booking server may assign
nobody; a second proposal of an action leaves the second chat's goal waiting for ever;
`InShopDisplayPage.tsx:85` never refreshes (a stale closure); `QueueViewPage.tsx` says it
clears a place that answers 404 and does not; a limiter key that expires between its
read and its increment never expires again (`redis_client.py:152`); the scheduler does
not make up for days it was down.

## 6. Plan

Done, in the order of importance: `TicketLine`, `WalkInQueue`; `Inbox` and
`ApprovalFlow`; `Appointments`; `Payments`; `TenantMigration`; `LivePages`; `Registration`;
`Staff`; and the proofs of all of them.

To come:

1. The daily reports (`scheduler.py`, `analytics_processor.py`): days passed over while
   the backend was down, and customers who finish after the report.

## 7. Not modelled

`components` in PROJECT.json has every part with its reason. In short: language models
and what they decide (to the models, any proposal or intent may come); single
transactions that read or change one row (shops, services, users, feedback, settings,
documents, visit counts); the rate limiter, which needs Redis's clock; the nightly
aggregation; the audit log, on which nothing depends; speech, wrappers, deployment, seed data and
tests. By lines, most of the repository is that: prompts, tools that format answers, seeds and pages.
