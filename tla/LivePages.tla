----------------------------- MODULE LivePages -----------------------------
(***************************************************************************)
(* The pages customers watch, beside the queue of one shop.  A browser     *)
(* starts on the shop's reception page, joins, is told the id of its item, *)
(* saves it (localStorage) and moves on to the queue view.                 *)
(*                                                                         *)
(* A page learns of changes in two ways: it polls GET /active, several     *)
(* requests being under way at once, answered and handled in any order;    *)
(* and the reception page holds a websocket, to which the backend          *)
(* broadcasts a snapshot after most changes.                               *)
(*                                                                         *)
(* A customer stands for the item of their one join; the order of the line *)
(* is WalkInQueue's subject and is left out.  So is what it shows of joins *)
(* that overlap a close: here either is one step.                          *)
(***************************************************************************)
EXTENDS Integers, FiniteSets, SequencesExt

CONSTANTS
    Browsers,       \* customers who use the pages
    WalkIns,        \* customers who do not
    MaxSockets,     \* websockets at the same time (bound)
    PollSlots,      \* requests for the list a page has under way (bound)
    MaxChanges,     \* changes of the queue, and appointment events (bound)
    MaxFaults       \* requests and connections that fail (bound)

Customers == Browsers \cup WalkIns
Sockets == 1 .. MaxSockets

ASSUME PageConstants ==
    /\ MaxSockets \in Nat /\ MaxChanges \in Nat /\ MaxFaults \in Nat
    /\ Browsers \cap WalkIns = {}

VARIABLES
    status,     \* queue_items.status; "none" before the join, "deleted" when the row is gone
    queueOf,    \* queue_items.queue_id; 0 before the join
    active,     \* the shop's active queue
    page,       \* per browser: where it is, whether the id is saved, whether the queue view
                \* shows the item as the customer's own, the line it shows
    poll,       \* per browser and slot: a request for the list, or its answer
    sock,       \* the websockets: the client's end, the server's end, snapshots on the wire
    listed,     \* active_connections[shop]
    sends,      \* the broadcasts under way: the connections still to be sent to
    changes,    \* number of changes so far
    faults,     \* number of failures so far
    raced,      \* history: browsers told their id while an older list was on its way to them
    returned    \* history: customers put back in line after they were done

vars == <<status, queueOf, active, page, poll, sock, listed, sends,
          changes, faults, raced, returned>>
queueVars == <<status, queueOf, active, changes, returned>>
socketVars == <<sock, listed, sends>>

Active == {"waiting", "being_served"}
Statuses == Active \cup {"none", "over", "deleted"}     \* "over": completed or cancelled
Reception == {"reception", "joining", "told"}           \* the customer is still on that page
Queues == 1 .. MaxChanges + 1

\* What GET /active answers: the rows of the active queue, whatever their status.
\* When the active queue has been closed or deleted, whoever asks next creates
\* another; an empty queue and one that is still to be created look the same, so
\* a close begins the next one at once.
Rows == [c \in Customers |-> IF queueOf[c] = active THEN status[c] ELSE "none"]

\* A page finds the rows that are there and shows the active ones.
Listed(list) == {c \in Customers : list[c] \in Active \cup {"over"}}
Shown(list) == [c \in {d \in Customers : list[d] \in Active} |-> list[c]]
Line == Shown(Rows)
EmptyLine == [c \in {} |-> "waiting"]

NoPoll == [stage |-> "none", list |-> [c \in Customers |-> "none"], view |-> "queue"]
NoSocket == [of |-> "nobody", client |-> "closed", server |-> "ended", unread |-> 0]

OnPage(b, p) == page' = [page EXCEPT ![b] = p]

\* The sockets of b that bring messages now or, still connecting, may later.
LiveSockets(b) == {k \in Sockets : sock[k].of = b /\ sock[k].client # "closed"}

-----------------------------------------------------------------------------
(* Broadcasts.                                                             *)

\* Mutant: a connection that hangs up stays in the list.
StaysListed(k) == listed

\* disconnect: does nothing for a connection that is not in the list.
Disconnected(k) == RemoveFirst(listed, k)

\* Sending the list of active customers raises for every connection alike: the
\* items hold a datetime, which send_json cannot encode.  Each failure removes
\* the connection it was meant for, with no await in between.  What can be
\* encoded is sent to a copy of the list, and each send is an await.
Broadcast(message) ==
    IF message.type = "shop_live_snapshot" /\ message.line # EmptyLine
    THEN listed' = <<>> /\ UNCHANGED <<sock, sends>>
    ELSE /\ sends' = IF listed = <<>> THEN sends
                     ELSE sends \cup {[id |-> changes, type |-> message.type, to |-> listed]}
         /\ UNCHANGED <<sock, listed>>

\* The next connection of a broadcast: a client that is there gets the message,
\* when it has opened; for one that is not, the send may raise.
SendNext(s) ==
    LET k == Head(s.to) IN
    /\ sends' = (sends \ {s}) \cup IF Len(s.to) = 1 THEN {} ELSE {[s EXCEPT !.to = Tail(@)]}
    /\ \/ /\ sock' = IF sock[k].client # "closed" /\ s.type = "shop_live_snapshot"
                     THEN [sock EXCEPT ![k].unread = @ + 1] ELSE sock
          /\ UNCHANGED listed
       \/ /\ sock[k].client = "closed"
          /\ listed' = Disconnected(k)
          /\ UNCHANGED sock
    /\ UNCHANGED <<queueVars, page, poll, faults, raced>>

-----------------------------------------------------------------------------
(* Changes of the queue.                                                   *)

\* Customers whose row went from over to active.
Revived(new) == {c \in Customers : status[c] = "over" /\ new[c] \in Active}

Change(new) ==
    /\ changes < MaxChanges
    /\ changes' = changes + 1
    /\ status' = new
    /\ returned' = returned \cup Revived(new)

SameQueues == UNCHANGED <<queueOf, active>>

\* The booking server changes the queue and announces nothing.
Quiet == UNCHANGED <<poll, socketVars, faults, raced>>

\* A handler of the queues' router: the update, then a snapshot of the active
\* queue, whichever queue was changed.  The handler runs on the event loop,
\* without an await up to the first send.
Announce(new) ==
    /\ Change(new)
    /\ Broadcast([type |-> "shop_live_snapshot", line |-> Line'])
    /\ UNCHANGED <<poll, faults, raced>>

InTable(c) == status[c] \in Active \cup {"over"}
Serving(q) == {c \in Customers : queueOf[c] = q /\ status[c] = "being_served"}
Waiting(q) == {c \in Customers : queueOf[c] = q /\ status[c] = "waiting"}

\* The row goes into the active queue, and the page waits for its id.
Joins(c) ==
    /\ status[c] = "none"
    /\ queueOf' = [queueOf EXCEPT ![c] = active] /\ UNCHANGED active
    /\ IF c \in Browsers
       THEN page[c].at = "reception" /\ OnPage(c, [page[c] EXCEPT !.at = "joining"])
       ELSE UNCHANGED page

Join(c) == Joins(c) /\ Announce([status EXCEPT ![c] = "waiting"])

\* A join that the chat passes to the booking server.
ServerJoin(c) == Joins(c) /\ Change([status EXCEPT ![c] = "waiting"]) /\ Quiet

\* PATCH /items/{id}/status: any status.
SetStatus(c, s) ==
    /\ InTable(c)
    /\ SameQueues /\ Announce([status EXCEPT ![c] = s])
    /\ UNCHANGED page

\* Checkout, remove and serve are, for the pages, a SetStatus that has looked at
\* the status first; reassign changes nothing the pages show.
Reassign(c) ==
    /\ status[c] \in Active
    /\ SameQueues /\ Announce(status)
    /\ UNCHANGED page

Finishing(q) == [c \in Customers |-> IF c \in Serving(q) THEN "over" ELSE status[c]]

\* A queue is called by its id, also one that is closed.
CallNext(c) ==
    /\ status[c] = "waiting"
    /\ SameQueues /\ Announce([Finishing(queueOf[c]) EXCEPT ![c] = "being_served"])
    /\ UNCHANGED page

\* With nobody waiting the handler raises after it has completed those served,
\* before the broadcast.
CallNobody(q) ==
    /\ Waiting(q) = {} /\ Serving(q) # {}
    /\ SameQueues /\ Change(Finishing(q))
    /\ UNCHANGED page /\ Quiet

\* Leaving from the queue view, which forgets the id when the answer is good.
Leave(b) ==
    /\ page[b].at = "queue" /\ page[b].mine
    /\ status[b] \in Active
    /\ SameQueues /\ Announce([status EXCEPT ![b] = "over"])
    /\ OnPage(b, [page[b] EXCEPT !.saved = FALSE, !.mine = FALSE])

Emptied(q) == [c \in Customers |-> IF queueOf[c] = q /\ InTable(c) THEN "deleted" ELSE status[c]]

\* What is done to an empty queue that is not the active one, or is not
\* announced, shows nowhere and is left out.
Holds(q) == \E c \in Customers : queueOf[c] = q /\ InTable(c)

Reset(q) ==
    /\ Holds(q) \/ q = active
    /\ SameQueues /\ Announce(Emptied(q))
    /\ UNCHANGED page

\* Deleting a queue announces nothing.  The number of a deleted active queue
\* stands for the one created after it.
DeleteQueue(q) ==
    /\ Holds(q)
    /\ SameQueues /\ Change(Emptied(q))
    /\ UNCHANGED page /\ Quiet

\* One of the booking server's updates for its call-next: it completes an item or
\* has it served, as it found them before.
ServerChange(c, s) ==
    /\ InTable(c) /\ s \in {"being_served", "over"}
    /\ SameQueues /\ Change([status EXCEPT ![c] = s])
    /\ UNCHANGED page /\ Quiet

\* The booking server closes the active queue: its items stay as they are.
CloseQueues ==
    /\ Holds(active)
    /\ active' = active + 1 /\ UNCHANGED queueOf
    /\ Change(status)
    /\ UNCHANGED page /\ Quiet

\* An appointment event goes to the same connections; the pages ignore it.
AppointmentEvent ==
    /\ SameQueues /\ Change(status)
    /\ Broadcast([type |-> "appointment"])
    /\ UNCHANGED <<page, poll, faults, raced>>

-----------------------------------------------------------------------------
(* The pages.                                                              *)

\* A socket has brought a snapshot, or a broadcast under way will.
SnapshotComes(k) ==
    \/ sock[k].unread > 0
    \/ \E s \in sends : s.type = "shop_live_snapshot" /\ k \in Range(s.to)

\* Lists read before the join, and snapshots of an empty line, that will still
\* be handled by the reception page of b, open or left.
OlderListComing(b) ==
    \/ \E n \in PollSlots : /\ poll[b][n].stage \in {"answered", "metrics"}
                            /\ poll[b][n].view = "reception"
                            /\ b \notin Listed(poll[b][n].list)
    \/ \E k \in LiveSockets(b) : SnapshotComes(k)

\* The answer to the join arrives: the page saves the id.
Told(b) ==
    /\ page[b].at = "joining"
    /\ OnPage(b, [page[b] EXCEPT !.at = "told", !.saved = TRUE])
    /\ raced' = IF OlderListComing(b) THEN raced \cup {b} ELSE raced
    /\ UNCHANGED <<queueVars, poll, socketVars, faults>>

\* A second later it navigates; the reception page stops its timer, but not the
\* requests under way, and closes its socket if that is open.  One that is still
\* connecting opens later and goes on bringing messages to the page that was left.
Navigate(b) ==
    /\ page[b].at = "told"
    /\ OnPage(b, [page[b] EXCEPT !.at = "queue", !.mine = FALSE, !.shown = EmptyLine])
    /\ sock' = [k \in Sockets |-> IF sock[k].of = b /\ sock[k].client = "open"
                                  THEN [sock[k] EXCEPT !.client = "closed", !.unread = 0]
                                  ELSE sock[k]]
    /\ UNCHANGED <<queueVars, poll, listed, sends, faults, raced>>

View(b) == IF page[b].at \in Reception THEN "reception" ELSE "queue"
InSlot(b, n, p) == poll' = [poll EXCEPT ![b][n] = p]

\* Mutant: only the queue view polls.
PollFromQueueView(b, n) ==
    /\ poll[b][n].stage = "none"
    /\ View(b) = "queue"
    /\ InSlot(b, n, [stage |-> "answered", view |-> "queue", list |-> Rows])
    /\ UNCHANGED <<queueVars, page, socketVars, faults, raced>>

\* Mutant: the list is only of those being served.
PollServing(b, n) ==
    /\ poll[b][n].stage = "none"
    /\ InSlot(b, n, [stage |-> "answered", view |-> View(b), list |->
            [c \in Customers |-> IF status[c] = "waiting" THEN "none" ELSE Rows[c]]])
    /\ UNCHANGED <<queueVars, page, socketVars, faults, raced>>

\* The timer of the page that is open, every 20 s or, in the queue view, 5 s:
\* GET /active reads the list, in a pool thread.  A request counts from there;
\* before, it has done nothing.
Poll(b, n) ==
    /\ poll[b][n].stage = "none"
    /\ InSlot(b, n, [stage |-> "answered", view |-> View(b), list |-> Rows])
    /\ UNCHANGED <<queueVars, page, socketVars, faults, raced>>

PollFails(b, n) ==
    /\ poll[b][n].stage = "answered"
    /\ faults < MaxFaults
    /\ faults' = faults + 1
    /\ InSlot(b, n, NoPoll)
    /\ UNCHANGED <<queueVars, page, socketVars, raced>>

\* The reception page shows the list, then asks for the metrics.
ShowList(b, n) ==
    /\ poll[b][n].stage = "answered" /\ poll[b][n].view = "reception"
    /\ IF page[b].at \in Reception
       THEN OnPage(b, [page[b] EXCEPT !.shown = Shown(poll[b][n].list)])
       ELSE UNCHANGED page
    /\ InSlot(b, n, [poll[b][n] EXCEPT !.stage = "metrics"])
    /\ UNCHANGED <<queueVars, socketVars, faults, raced>>

\* reconcileMyQueueItem: an id that the list does not have is forgotten.  (What
\* this page shows of the item has no other consequence and is left out.)
Reconciled(b, list) == [page[b] EXCEPT !.saved = @ /\ b \in Listed(list)]

\* The metrics came, or failed: the list, by now older, is compared with the
\* saved id.  It happens even when the page has been left.
Reconcile(b, n) ==
    /\ poll[b][n].stage = "metrics"
    /\ OnPage(b, Reconciled(b, poll[b][n].list))
    /\ InSlot(b, n, NoPoll)
    /\ UNCHANGED <<queueVars, socketVars, faults, raced>>

\* Mutant: a finished item is kept like any other.
KeepsFinished(p, b, list) ==
    IF p.saved /\ b \in Listed(list) THEN [p EXCEPT !.mine = TRUE] ELSE p

\* What the queue view makes of a list: a finished item is let go.
Judged(p, b, list) ==
    IF p.saved /\ list[b] = "over" THEN [p EXCEPT !.saved = FALSE, !.mine = FALSE]
    ELSE IF p.saved /\ list[b] \in Active THEN [p EXCEPT !.mine = TRUE]
    ELSE p

\* The queue view shows the list; for an id that is not in it, it asks for the
\* item's estimate before it decides.
Judge(b, n) ==
    /\ poll[b][n].stage = "answered" /\ poll[b][n].view = "queue"
    /\ OnPage(b, [Judged(page[b], b, poll[b][n].list) EXCEPT !.shown = Shown(poll[b][n].list)])
    /\ InSlot(b, n, IF page[b].saved /\ b \notin Listed(poll[b][n].list)
                    THEN [NoPoll EXCEPT !.stage = "estimate"] ELSE NoPoll)
    /\ UNCHANGED <<queueVars, socketVars, faults, raced>>

\* GET /items/{id}/estimate: an active item is the page's own; otherwise, and
\* when the row is gone (404), nothing happens.
Estimate(b, n) ==
    /\ poll[b][n].stage = "estimate"
    /\ IF status[b] \in Active THEN OnPage(b, [page[b] EXCEPT !.mine = TRUE]) ELSE UNCHANGED page
    /\ InSlot(b, n, NoPoll)
    /\ UNCHANGED <<queueVars, socketVars, faults, raced>>

-----------------------------------------------------------------------------
(* The reception page's websocket.                                         *)

\* The ids of sockets are used again once nothing refers to them.
Free(k) ==
    /\ sock[k].server = "ended" /\ sock[k].client = "closed"
    /\ \A s \in sends : k \notin Range(s.to)

\* On opening the page, and 3 s after its socket closed.
Connect(b) ==
    /\ page[b].at \in Reception /\ LiveSockets(b) = {}
    /\ \E k \in Sockets :
        /\ Free(k) /\ \A j \in 1 .. k - 1 : ~Free(j)
        /\ sock' = [sock EXCEPT ![k] = [of |-> b, client |-> "connecting",
                                        server |-> "accepting", unread |-> 0]]
    /\ UNCHANGED <<queueVars, page, poll, listed, sends, faults, raced>>

\* manager.connect: accept is an await; then the connection is listed, and the
\* endpoint receives (answering pings) until that raises.
Register(k) ==
    /\ sock[k].server = "accepting"
    /\ sock' = [sock EXCEPT ![k].server = "receiving"]
    /\ listed' = Append(listed, k)
    /\ UNCHANGED <<queueVars, page, poll, sends, faults, raced>>

\* The client learns that it was accepted, before or after it is listed.
Opens(k) ==
    /\ sock[k].client = "connecting"
    /\ sock' = [sock EXCEPT ![k].client = "open"]
    /\ UNCHANGED <<queueVars, page, poll, listed, sends, faults, raced>>

\* The client went away before it was accepted.
AcceptFails(k) ==
    /\ sock[k].server = "accepting" /\ sock[k].client = "closed"
    /\ sock' = [sock EXCEPT ![k].server = "ended"]
    /\ UNCHANGED <<queueVars, page, poll, listed, sends, faults, raced>>

Drop(k) ==
    /\ sock[k].client # "closed"
    /\ faults < MaxFaults
    /\ faults' = faults + 1
    /\ sock' = [sock EXCEPT ![k].client = "closed", ![k].unread = 0]
    /\ UNCHANGED <<queueVars, page, poll, listed, sends, raced>>

\* receive_text raises: disconnect.
Hangup(k) ==
    /\ sock[k].server = "receiving" /\ sock[k].client = "closed"
    /\ sock' = [sock EXCEPT ![k].server = "ended"]
    /\ listed' = Disconnected(k)
    /\ UNCHANGED <<queueVars, page, poll, sends, faults, raced>>

\* The only snapshots that are ever sent are of an empty line.  A page that was
\* left shows nothing, but the id is forgotten.
ShowSnapshot(k) ==
    /\ sock[k].client = "open" /\ sock[k].unread > 0
    /\ sock' = [sock EXCEPT ![k].unread = @ - 1]
    /\ LET b == sock[k].of
           p == Reconciled(b, [c \in Customers |-> "none"])
       IN  OnPage(b, IF p.at \in Reception THEN [p EXCEPT !.shown = EmptyLine] ELSE p)
    /\ UNCHANGED <<queueVars, poll, listed, sends, faults, raced>>

-----------------------------------------------------------------------------
NewPage == [at |-> "reception", saved |-> FALSE, mine |-> FALSE, shown |-> EmptyLine]

Init ==
    /\ status = [c \in Customers |-> "none"]
    /\ queueOf = [c \in Customers |-> 0] /\ active = 1
    /\ page = [b \in Browsers |-> NewPage]
    /\ poll = [b \in Browsers |-> [n \in PollSlots |-> NoPoll]]
    /\ sock = [k \in Sockets |-> NoSocket]
    /\ listed = <<>> /\ sends = {}
    /\ changes = 0 /\ faults = 0 /\ raced = {} /\ returned = {}

Staff ==
    \/ \E c \in Customers : Join(c) \/ ServerJoin(c) \/ Reassign(c) \/ CallNext(c)
    \/ \E c \in Customers : \E s \in Active \cup {"over"} : SetStatus(c, s) \/ ServerChange(c, s)
    \/ \E q \in 1 .. active : CallNobody(q) \/ Reset(q) \/ DeleteQueue(q)
    \/ CloseQueues \/ AppointmentEvent

Customer(b) == Told(b) \/ Navigate(b)
Request(b, n) == ShowList(b, n) \/ Reconcile(b, n) \/ Judge(b, n) \/ Estimate(b, n)
Connection(k) == Register(k) \/ Hangup(k) \/ ShowSnapshot(k)

Next ==
    \/ Staff
    \/ \E b \in Browsers : Customer(b) \/ Leave(b) \/ Connect(b)
    \/ \E b \in Browsers, n \in PollSlots : Poll(b, n) \/ Request(b, n) \/ PollFails(b, n)
    \/ \E k \in Sockets : Connection(k) \/ Opens(k) \/ AcceptFails(k) \/ Drop(k)
    \/ \E s \in sends : SendNext(s)

Spec == Init /\ [][Next]_vars

\* The timer of the page that is open fires, and requests are answered and
\* handled.  Nothing is assumed of joins, staff and sockets.
FairSpec ==
    /\ Spec
    /\ \A b \in Browsers : /\ WF_vars(\E n \in PollSlots : Poll(b, n))
                           /\ WF_vars(\E n \in PollSlots : Request(b, n))

-----------------------------------------------------------------------------
(* Properties.                                                             *)

Lists == [Customers -> Statuses]
Lines == UNION {[shown -> Active] : shown \in SUBSET Customers}
Pages == [at : Reception \cup {"queue"}, saved : BOOLEAN, mine : BOOLEAN, shown : Lines]
Polls == [stage : {"none", "answered", "metrics", "estimate"}, list : Lists,
          view : {"reception", "queue"}]
Websockets == [of : Browsers \cup {"nobody"}, client : {"connecting", "open", "closed"},
               server : {"accepting", "receiving", "ended"}, unread : Nat]
Sends == [id : 0 .. MaxChanges, type : {"shop_live_snapshot", "appointment"},
          to : Seq(Sockets) \ {<<>>}]

TypeOK ==
    /\ status \in Lists
    /\ active \in Queues /\ active <= changes + 1 /\ queueOf \in [Customers -> 0 .. active]
    /\ page \in [Browsers -> Pages]
    /\ poll \in [Browsers -> [PollSlots -> Polls]]
    /\ sock \in [Sockets -> Websockets]
    /\ listed \in Seq(Sockets) /\ sends \subseteq Sends
    /\ changes \in 0 .. MaxChanges /\ faults \in 0 .. MaxFaults
    /\ raced \subseteq Browsers /\ returned \subseteq Customers

\* Customers of a queue that was closed after they joined.
LeftBehind == {c \in Customers : queueOf[c] \in 1 .. active - 1}

\* The manager lists a connection once, and only while its endpoint receives, so
\* a connection that hung up is not sent to again, whatever broadcasts were
\* under way (websocket_manager.py).  However it reconnects, a page has one
\* socket, and when the page has been left it is at most the one it was waiting
\* for (AIShopPublicPage.tsx, the effect of the websocket).
ConnectionsInOrder ==
    /\ \A i, j \in 1 .. Len(listed) : listed[i] = listed[j] => i = j
    /\ \A k \in Range(listed) : sock[k].server = "receiving"
    /\ \A b \in Browsers : Cardinality(LiveSockets(b)) <= 1

\* The customer is in line, was told the id, and no known cause makes a page of
\* theirs forget it.
Expects(b) ==
    /\ page[b].at \in {"told", "queue"} /\ status[b] \in Active
    /\ b \notin raced \cup returned \cup LeftBehind

\* A customer in line who was told their id finds their place on the queue view:
\* the id stays saved, unless a list from before the join was still on its way
\* to the reception page when it was saved (AIShopPublicPage.tsx, where
\* reconcileMyQueueItem forgets an id that an older list does not have), or their
\* queue was closed, whose rows the list no longer has.
PlacesAreKept ==
    \A b \in Browsers : Expects(b) => page[b].saved

\* Who has joined is not on the bare reception page, and the other way round; who
\* has joined has a queue.
JoinersMoveOn ==
    /\ \A b \in Browsers : page[b].at = "reception" <=> status[b] = "none"
    /\ \A c \in Customers : queueOf[c] = 0 <=> status[c] = "none"

\* What a list under way says of the browser's item is still so, or was changed
\* by staff since; one without the item was read before the join or after the
\* close, and none read before is under way to a reception page that saved the id.
ListsAreUnderstood ==
    \A b \in Browsers, n \in PollSlots :
        LET p == poll[b][n] IN
        /\ p.stage = "metrics" => p.view = "reception"
        /\ p.stage \in {"answered", "metrics"} =>
            /\ p.list[b] = "deleted" => status[b] = "deleted"
            /\ p.list[b] = "over" => status[b] \in {"over", "deleted"} \/ b \in returned
            /\ p.list[b] = "none" /\ p.view = "reception" =>
                    page[b].at \in {"reception", "joining"} \/ b \in raced \cup LeftBehind

\* No snapshot of an empty line comes to the page of a customer in line, not even
\* over a socket that was connecting when the page was left.
SnapshotsAreFresh ==
    /\ \A k \in Sockets : /\ sock[k].unread > 0 => sock[k].client # "closed"
                          /\ sock[k].client # "closed" => sock[k].of \in Browsers
    /\ \A b \in Browsers : Expects(b) => \A k \in LiveSockets(b) : ~SnapshotComes(k)

\* However polls, snapshots and reconnects overlap, connections are in order and
\* places are kept; with what these need to know of the lists and snapshots that
\* are under way.
IInv ==
    /\ TypeOK /\ ConnectionsInOrder /\ PlacesAreKept
    /\ JoinersMoveOn /\ ListsAreUnderstood /\ SnapshotsAreFresh

\* When the queue no longer changes, every page comes to show the line of the
\* active queue and goes on showing it, though answers are handled out of order,
\* requests and sockets fail, and the sockets carry nothing but empty lines.
PagesCatchUp == <>[](\A b \in Browsers : page[b].shown = Line)

\* The queue view lets go of a customer who is done: their id does not stay
\* saved for the next visit.  That takes a list with their item, so it is not
\* promised when their queue was closed before (QueueViewPage.tsx, where an id
\* that is not in the list is kept).
ServedAreLetGo ==
    \A b \in Browsers :
        page[b].at = "queue" /\ status[b] = "over"
            ~> status[b] # "over" \/ ~page[b].saved \/ b \in LeftBehind
=============================================================================
