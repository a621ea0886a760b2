------------------------------- MODULE Staff -------------------------------
(***************************************************************************)
(* The employees of one shop and their shifts.  Employees are hired with   *)
(* the owner's form or by the owner's agent, are removed and reactivated,  *)
(* clock in and out.  Two processes do this in the same tables:            *)
(*                                                                         *)
(*   the backend's pool threads   the form and the employees' own clock,   *)
(*                                each handler a sequence of statements;   *)
(*   the HR MCP server            one request of the agent at a time; the  *)
(*                                agent gives up on a call after a while.  *)
(*                                                                         *)
(* An account stands for the rows of users and shop_employees that belong  *)
(* together.  Its username is the person's name and a suffix (1: none).    *)
(***************************************************************************)
EXTENDS Naturals, Sequences, FiniteSets

CONSTANTS
    People,       \* whom the owner may want to hire
    Threads,      \* threads of the backend's pool
    Calls,        \* calls of the agent to the HR server at one time
    Nobody,       \* no person
    MaxAccounts,  \* accounts (bound)
    MaxShifts,    \* shifts (bound)
    MaxFaults     \* exceptions, restarts and lost answers (bound)

ASSUME StaffConstants ==
    /\ Nobody \notin People \cup Calls
    /\ IsFiniteSet(Threads) /\ IsFiniteSet(Calls)
    /\ MaxAccounts \in Nat /\ MaxShifts \in Nat /\ MaxFaults \in Nat

VARIABLES
    account,  \* the accounts, by user id
    shift,    \* the table employee_shifts
    job,      \* what each thread has read so far
    hr,       \* the same for the HR server
    call,     \* the agent's calls to add an employee
    wish,     \* the owner's wish to hire a person, and what the owner was told
    lost,     \* history: people for whom an answer that they were hired got lost
    broken,   \* history: accounts whose form broke off between its transactions
    faults

vars == <<account, shift, job, hr, call, wish, lost, broken, faults>>

Accounts == 1 .. Len(account)
Shifts == 1 .. Len(shift)

Idle == [at |-> "idle", who |-> Nobody, id |-> 0, notes |-> {}]
NoCall == [who |-> Nobody, mail |-> "own", waited |-> FALSE]
NoRequest == [at |-> "idle", call |-> Nobody, suffix |-> 0, id |-> 0]

Goto(t, at, who, id, notes) ==
    job' = [job EXCEPT ![t] = [at |-> at, who |-> who, id |-> id, notes |-> notes]]
Return(t) == job' = [job EXCEPT ![t] = Idle]

Init ==
    /\ account = << >> /\ shift = << >>
    /\ job = [t \in Threads |-> Idle]
    /\ hr = NoRequest
    /\ call = [c \in Calls |-> NoCall]
    /\ wish = [p \in People |-> "wanted"]
    /\ lost = {} /\ broken = {} /\ faults = 0

-----------------------------------------------------------------------------
(* Accounts.  mail is "own", an address the owner gave, or "staff", one    *)
(* that is made from the username.                                         *)

NewAccount(p, n, mail, link) == [who |-> p, suffix |-> n, mail |-> mail, link |-> link]

NameTaken(p, n) == \E u \in Accounts : account[u].who = p /\ account[u].suffix = n

OwnMailTaken(p) == \E u \in Accounts : account[u].who = p /\ account[u].mail = "own"

\* Mutant: usernames are not unique in the table.
RejectsMail(p, n, mail) == mail = "own" /\ OwnMailTaken(p)

\* The unique columns of users refuse the row.
Rejects(p, n, mail) == NameTaken(p, n) \/ (mail = "own" /\ OwnMailTaken(p))

\* Accounts that hires under way may still insert (bound).
Hiring == {t \in Threads : job[t].at = "hiring"}
Calling == {c \in Calls : call[c] # NoCall}
Room == Len(account) + Cardinality(Hiring) + Cardinality(Calling) < MaxAccounts

Wanted(p) == wish' = [wish EXCEPT ![p] = "wanted"]
Hired(p) == wish' = [wish EXCEPT ![p] = "hired"]
Waits(p) == wish' = [wish EXCEPT ![p] = "asked"]

-----------------------------------------------------------------------------
(* The owner's form: look, insert the user, insert the link.               *)

FormChecks(t, p) ==
    /\ job[t] = Idle /\ wish[p] = "wanted" /\ Room
    /\ ~NameTaken(p, 1) /\ ~OwnMailTaken(p)
    /\ Goto(t, "hiring", p, 0, {})
    /\ Waits(p)
    /\ UNCHANGED <<account, shift, hr, call, lost, broken, faults>>

\* A name that was taken meanwhile is answered with 500.
FormAddsUser(t) ==
    /\ job[t].at = "hiring"
    /\ LET p == job[t].who IN
        IF Rejects(p, 1, "own")
        THEN Return(t) /\ Wanted(p) /\ UNCHANGED account
        ELSE /\ account' = Append(account, NewAccount(p, 1, "own", "none"))
             /\ Goto(t, "linking", p, Len(account) + 1, {})
             /\ UNCHANGED wish
    /\ UNCHANGED <<shift, hr, call, lost, broken, faults>>

Linked(t) == account' = [account EXCEPT ![job[t].id].link = "active"]

FormLinks(t) ==
    /\ job[t].at = "linking"
    /\ Linked(t) /\ Hired(job[t].who) /\ Return(t)
    /\ UNCHANGED <<shift, hr, call, lost, broken, faults>>

\* The commit succeeds, the refresh or the way back fails.
FormAnswerLost(t) ==
    /\ job[t].at = "linking" /\ faults < MaxFaults
    /\ Linked(t) /\ Wanted(job[t].who) /\ Return(t)
    /\ lost' = lost \cup {job[t].who}
    /\ faults' = faults + 1
    /\ UNCHANGED <<shift, hr, call, broken>>

\* A handler raises: what it has committed stays.
ThreadFails(t) ==
    /\ job[t] # Idle /\ faults < MaxFaults
    /\ IF job[t].at \in {"hiring", "linking"} THEN Wanted(job[t].who) ELSE UNCHANGED wish
    /\ broken' = IF job[t].at = "linking" THEN broken \cup {job[t].id} ELSE broken
    /\ Return(t)
    /\ faults' = faults + 1
    /\ UNCHANGED <<account, shift, hr, call, lost>>

-----------------------------------------------------------------------------
(* The agent hires: a call to the HR server, after the owner's approval.   *)

AskServer(c, p, mail) ==
    /\ call[c] = NoCall /\ wish[p] = "wanted" /\ Room
    /\ call' = [call EXCEPT ![c] = [who |-> p, mail |-> mail, waited |-> TRUE]]
    /\ Waits(p)
    /\ UNCHANGED <<account, shift, job, hr, lost, broken, faults>>

\* The client's timeout.  The server does not learn of it.
GiveUp(c) ==
    /\ call[c].waited
    /\ call' = [call EXCEPT ![c].waited = FALSE]
    /\ Wanted(call[c].who)
    /\ UNCHANGED <<account, shift, job, hr, lost, broken, faults>>

\* The end of a call: done or not, and heard or not.
Answer(c, done) ==
    LET p == call[c].who IN
    /\ call' = [call EXCEPT ![c] = NoCall]
    /\ hr' = NoRequest
    /\ CASE call[c].waited /\ done -> Hired(p)
         [] call[c].waited /\ ~done -> Wanted(p)
         [] OTHER -> UNCHANGED wish
    /\ lost' = IF done /\ ~call[c].waited THEN lost \cup {p} ELSE lost

\* The first username of this person that is free.
FreeSuffix(p) == CHOOSE n \in 1 .. Len(account) + 1 :
    /\ ~NameTaken(p, n)
    /\ \A k \in 1 .. n - 1 : NameTaken(p, k)

ServerLooks(c) ==
    /\ hr = NoRequest /\ call[c] # NoCall
    /\ LET p == call[c].who IN
        IF call[c].mail = "own" /\ OwnMailTaken(p)
        THEN Answer(c, FALSE)
        ELSE /\ hr' = [NoRequest EXCEPT !.at = "adding", !.call = c, !.suffix = FreeSuffix(p)]
             /\ UNCHANGED <<call, wish, lost>>
    /\ UNCHANGED <<account, shift, job, broken, faults>>

Added(c) == Append(account, NewAccount(call[c].who, hr.suffix, call[c].mail, "active"))

\* The user and the link in one transaction.
ServerAdds(c) ==
    /\ hr.at = "adding" /\ hr.call = c
    /\ IF Rejects(call[c].who, hr.suffix, call[c].mail)
       THEN Answer(c, FALSE) /\ UNCHANGED account
       ELSE Answer(c, TRUE) /\ account' = Added(c)
    /\ UNCHANGED <<shift, job, broken, faults>>

\* Mutant: the user is committed before the link.
KeptUser(c) == Append(account, NewAccount(call[c].who, hr.suffix, call[c].mail, "none"))

\* What a failure before the commit leaves of it.
RolledBack(c) == account

ServerFails(c) ==
    /\ hr.at = "adding" /\ hr.call = c /\ faults < MaxFaults
    /\ ~Rejects(call[c].who, hr.suffix, call[c].mail)
    /\ account' = RolledBack(c)
    /\ Answer(c, FALSE)
    /\ faults' = faults + 1
    /\ UNCHANGED <<shift, job, broken>>

\* A restart, or a refresh that fails, after the commit.
ServerAnswerLost(c) ==
    /\ hr.at = "adding" /\ hr.call = c /\ faults < MaxFaults
    /\ ~Rejects(call[c].who, hr.suffix, call[c].mail)
    /\ account' = Added(c)
    /\ lost' = lost \cup {call[c].who}
    /\ IF call[c].waited THEN Wanted(call[c].who) ELSE UNCHANGED wish
    /\ call' = [call EXCEPT ![c] = NoCall]
    /\ hr' = NoRequest
    /\ faults' = faults + 1
    /\ UNCHANGED <<shift, job, broken>>

-----------------------------------------------------------------------------
(* Removal and return, by the form or the agent: one row each.  A shift    *)
(* that is open stays open, a clock-in that was let in goes on; both are   *)
(* marked.                                                                 *)

Marked(m) == [m EXCEPT !.notes = @ \cup {"removed"}]

Remove(u) ==
    /\ account[u].link = "active"
    /\ account' = [account EXCEPT ![u].link = "inactive"]
    /\ shift' = [s \in Shifts |->
            IF shift[s].user = u /\ shift[s].open THEN Marked(shift[s]) ELSE shift[s]]
    /\ job' = [t \in Threads |->
            IF job[t].at \in {"admitted", "looked"} /\ job[t].id = u THEN Marked(job[t]) ELSE job[t]]
    /\ UNCHANGED <<hr, call, wish, lost, broken, faults>>

Reactivate(u) ==
    /\ account[u].link = "inactive"
    /\ account' = [account EXCEPT ![u].link = "active"]
    /\ UNCHANGED <<shift, job, hr, call, wish, lost, broken, faults>>

-----------------------------------------------------------------------------
(* Shifts.                                                                 *)

OpenShifts(u) == {s \in Shifts : shift[s].user = u /\ shift[s].open}

\* Clock-ins under way may each still insert one (bound).
ClockingIn == {t \in Threads : job[t].at \in {"admitted", "looked"}}
RoomToClockIn == Len(shift) + Cardinality(ClockingIn) < MaxShifts

\* An insert of an open shift for u overtakes the clock-ins that have looked.
Overtaken(j, u) ==
    IF j.at = "looked" /\ j.id = u THEN [j EXCEPT !.notes = @ \cup {"raced"}] ELSE j

Inserted(u, open, by, notes) ==
    shift' = Append(shift, [user |-> u, open |-> open, by |-> by, notes |-> notes])

\* Mutant: any row of shop_employees gives access.
AdmitsAnyRow(u) == account[u].link # "none"

\* Only active employees have access to the shop.
Admits(u) == account[u].link = "active"

ClockIn(t, u) ==
    /\ job[t] = Idle /\ RoomToClockIn
    /\ Admits(u)
    /\ Goto(t, "admitted", Nobody, u, {})
    /\ UNCHANGED <<account, shift, hr, call, wish, lost, broken, faults>>

\* Mutant: the look-up expects at most one row and raises when there are more.
TheActiveShift(u) == IF Cardinality(OpenShifts(u)) = 1 THEN OpenShifts(u) ELSE {}

\* The rows the employee's active shift is taken from, in no order.
ActiveShift(u) == OpenShifts(u)

ClockInLooks(t) ==
    /\ job[t].at = "admitted"
    /\ IF ActiveShift(job[t].id) = {}
       THEN Goto(t, "looked", Nobody, job[t].id, job[t].notes)
       ELSE Return(t)
    /\ UNCHANGED <<account, shift, hr, call, wish, lost, broken, faults>>

ClockInInserts(t) ==
    /\ job[t].at = "looked"
    /\ LET u == job[t].id IN
        /\ Inserted(u, TRUE, "self", job[t].notes)
        /\ job' = [x \in Threads |-> IF x = t THEN Idle ELSE Overtaken(job[x], u)]
    /\ UNCHANGED <<account, hr, call, wish, lost, broken, faults>>

\* Clocking out asks for the role only, not for access to the shop.
ClockOut(t, u) ==
    /\ job[t] = Idle
    /\ \E s \in ActiveShift(u) : Goto(t, "leaving", Nobody, s, {})
    /\ UNCHANGED <<account, shift, hr, call, wish, lost, broken, faults>>

Closed(s) == shift' = [shift EXCEPT ![s].open = FALSE]

ClockOutWrites(t) ==
    /\ job[t].at = "leaving"
    /\ Closed(job[t].id) /\ Return(t)
    /\ UNCHANGED <<account, hr, call, wish, lost, broken, faults>>

\* The HR server clocks in whomever the agent names, without a look.
ServerClocksIn(u) ==
    /\ hr = NoRequest /\ RoomToClockIn
    /\ Inserted(u, TRUE, "server", {})
    /\ job' = [t \in Threads |-> Overtaken(job[t], u)]
    /\ UNCHANGED <<account, hr, call, wish, lost, broken, faults>>

\* It clocks out of one shift, the latest by the clock of whoever opened it.
ServerClocksOut(u) ==
    /\ hr = NoRequest
    /\ \E s \in OpenShifts(u) : hr' = [NoRequest EXCEPT !.at = "closing", !.id = s]
    /\ UNCHANGED <<account, shift, job, call, wish, lost, broken, faults>>

ServerCloses ==
    /\ hr.at = "closing"
    /\ Closed(hr.id)
    /\ hr' = NoRequest
    /\ UNCHANGED <<account, job, call, wish, lost, broken, faults>>

ServerClockFails ==
    /\ hr.at = "closing" /\ faults < MaxFaults
    /\ hr' = NoRequest
    /\ faults' = faults + 1
    /\ UNCHANGED <<account, shift, job, call, wish, lost, broken>>

\* A planned shift has its end from the start.
AssignShift(u) ==
    /\ hr = NoRequest /\ RoomToClockIn
    /\ Inserted(u, FALSE, "rota", {})
    /\ UNCHANGED <<account, job, hr, call, wish, lost, broken, faults>>

-----------------------------------------------------------------------------
ThreadGoesOn(t) ==
    \/ FormAddsUser(t) \/ FormLinks(t)
    \/ ClockInLooks(t) \/ ClockInInserts(t) \/ ClockOutWrites(t)

ServerGoesOn == ServerCloses \/ \E c \in Calls : ServerAdds(c)

Faults ==
    \/ \E t \in Threads : FormAnswerLost(t) \/ ThreadFails(t)
    \/ \E c \in Calls : ServerFails(c) \/ ServerAnswerLost(c)
    \/ ServerClockFails

Owner ==
    \/ \E t \in Threads, p \in People : FormChecks(t, p)
    \/ \E c \in Calls, p \in People, mail \in {"own", "staff"} : AskServer(c, p, mail)
    \/ \E c \in Calls : GiveUp(c) \/ ServerLooks(c)
    \/ \E u \in Accounts :
        Remove(u) \/ Reactivate(u) \/ ServerClocksIn(u) \/ ServerClocksOut(u) \/ AssignShift(u)

Employees == \E t \in Threads, u \in Accounts : ClockIn(t, u) \/ ClockOut(t, u)

Next ==
    \/ \E t \in Threads : ThreadGoesOn(t)
    \/ ServerGoesOn \/ Faults \/ Owner \/ Employees

\* Handlers go on; employees on shift press clock-out again and again, and the
\* pool comes to serve one of them.
Fairness ==
    /\ \A t \in Threads : WF_vars(ThreadGoesOn(t))
    /\ WF_vars(ServerGoesOn)
    /\ SF_vars(\E t \in Threads, u \in Accounts : ClockOut(t, u))

Spec == Init /\ [][Next]_vars /\ Fairness

-----------------------------------------------------------------------------
(* Properties.                                                             *)

AccountRows == [who : People, suffix : 1 .. MaxAccounts, mail : {"own", "staff"},
                link : {"none", "active", "inactive"}]
ShiftRows == [user : 1 .. MaxAccounts, open : BOOLEAN, by : {"self", "server", "rota"},
              notes : SUBSET {"removed", "raced"}]
Jobs == [at : {"idle", "hiring", "linking", "admitted", "looked", "leaving"},
         who : People \cup {Nobody}, id : Nat, notes : SUBSET {"removed", "raced"}]
CallRows == [who : People \cup {Nobody}, mail : {"own", "staff"}, waited : BOOLEAN]
Requests == [at : {"idle", "adding", "closing"}, call : Calls \cup {Nobody},
             suffix : 0 .. MaxAccounts, id : Nat]

\* Every row and every request under way is well formed.
TypeOK ==
    /\ account \in Seq(AccountRows) /\ shift \in Seq(ShiftRows)
    /\ \A s \in Shifts : shift[s].user \in Accounts
    /\ job \in [Threads -> Jobs] /\ call \in [Calls -> CallRows] /\ hr \in Requests
    /\ wish \in [People -> {"wanted", "asked", "hired"}]
    /\ lost \subseteq People /\ broken \subseteq Accounts /\ faults \in 0 .. MaxFaults

\* The columns the database keeps unique.
NamesAreUnique ==
    \A u, v \in Accounts : u # v /\ account[u].who = account[v].who =>
        /\ account[u].suffix # account[v].suffix
        /\ ~(account[u].mail = "own" /\ account[v].mail = "own")

\* An account without a link to the shop is being linked or was left by a form
\* that broke off.
LinkedOrBroken ==
    \A u \in Accounts : account[u].link = "none" =>
        u \in broken \/ \E t \in Threads : job[t].at = "linking" /\ job[t].id = u

\* Who clocked in is on the staff, or was removed while clocking in or on shift.
OnShiftAreStaff ==
    \A s \in Shifts : shift[s].open /\ shift[s].by = "self" =>
        account[shift[s].user].link = "active" \/ "removed" \in shift[s].notes

\* Nobody is on two shifts, unless the HR server opened the later one or it was
\* opened by a clock-in that had looked before the earlier one was there.
SecondShiftsRaced ==
    \A s \in Shifts, r \in Shifts :
        shift[r].open /\ shift[s].open /\ r < s /\ shift[r].user = shift[s].user =>
            shift[s].by = "server" \/ "raced" \in shift[s].notes

\* However clock-ins, removals and the HR server interleave, every open shift
\* is of somebody on the staff and the only one, up to the two races above.
OpenShiftsAreExplained == OnShiftAreStaff /\ SecondShiftsRaced

Theirs(p) == {u \in Accounts \ broken : account[u].who = p}

\* A person gets one account from the owner's requests, however often calls are
\* given up and repeated, unless the answer that it was done got lost or a form
\* broke off half way; and an owner who was told so has the employee.
HiredOnce ==
    \A p \in People :
        /\ Cardinality(Theirs(p)) <= 1 \/ p \in lost
        /\ wish[p] = "hired" => \E u \in Theirs(p) : account[u].link # "none"

\* What requests under way have read is still there: accounts and shifts are
\* never deleted, and only the thread that adds an account links it.
ThreadsAreWhole ==
    \A t \in Threads :
        /\ job[t].at = "idle" => job[t] = Idle
        /\ job[t].at \in {"hiring", "linking"} => job[t].who \in People
        /\ job[t].at \in {"linking", "admitted", "looked"} => job[t].id \in Accounts
        /\ job[t].at = "linking" => /\ account[job[t].id].who = job[t].who
                                    /\ account[job[t].id].link = "none"
                                    /\ job[t].id \notin broken
        /\ job[t].at = "leaving" => job[t].id \in Shifts

ServerIsWhole ==
    /\ \A c \in Calls : call[c].who = Nobody => call[c] = NoCall
    /\ hr.at = "idle" => hr = NoRequest
    /\ hr.at = "adding" => hr.call \in Calling /\ hr.suffix # 0
    /\ hr.at = "closing" => hr.id \in Shifts

\* What has begun finds room (bound).
RoomIsKept ==
    /\ Len(account) + Cardinality(Hiring) + Cardinality(Calling) <= MaxAccounts
    /\ Len(shift) + Cardinality(ClockingIn) <= MaxShifts

\* The owner waits for one request at a time to hire a person.
Forms(p) == {t \in Threads : job[t].at \in {"hiring", "linking"} /\ job[t].who = p}
Waiting(p) == {c \in Calls : call[c].waited /\ call[c].who = p}

OneRequestAsks ==
    \A p \in People :
        /\ Forms(p) = {} \/ Waiting(p) = {}
        /\ Forms(p) \cup Waiting(p) # {} => wish[p] = "asked"
        /\ \A t, r \in Forms(p) : t = r
        /\ \A c, d \in Waiting(p) : c = d

\* What a clock-in has read holds until it inserts, or it is marked.
ClockInsAreMarked ==
    \A t \in ClockingIn :
        /\ account[job[t].id].link = "active" \/ "removed" \in job[t].notes
        /\ job[t].at = "looked" => OpenShifts(job[t].id) = {} \/ "raced" \in job[t].notes

\* While no answer was lost, somebody with an account is hired or about to be.
HiresAreKnown ==
    \A p \in People :
        /\ p \notin lost => \A u, v \in Theirs(p) : u = v
        /\ p \notin lost => \A u \in Theirs(p) :
                wish[p] = "hired" \/ \E t \in Threads : job[t].at = "linking" /\ job[t].id = u
        /\ wish[p] = "hired" => \E u \in Theirs(p) : account[u].link # "none"

\* Two hires of one person that race leave usernames and addresses unique, and
\* no account without its shop but those of forms that broke off; with what
\* the properties above need to know of the requests under way.
IInv == /\ TypeOK /\ ThreadsAreWhole /\ ServerIsWhole /\ RoomIsKept /\ OneRequestAsks
        /\ NamesAreUnique /\ LinkedOrBroken
        /\ ClockInsAreMarked /\ OpenShiftsAreExplained /\ HiresAreKnown

\* Employees who keep clocking out are all off shift in the end, with however
\* many shifts open and also after having been removed.
EverybodyGoesHome ==
    (\E s \in Shifts : shift[s].open) ~> (\A s \in Shifts : ~shift[s].open)
=============================================================================
