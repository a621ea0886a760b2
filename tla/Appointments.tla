---------------------------- MODULE Appointments ----------------------------
(***************************************************************************)
(* The appointments of one shop.  Two processes share the table: the       *)
(* backend's event loop, which runs the handlers of                        *)
(* modules/appointments/router.py one at a time, and the booking MCP       *)
(* server, which books and cancels.  Both call AppointmentService.         *)
(*                                                                         *)
(* A step is one statement that matters or one commit, so what a process   *)
(* has checked may change before it inserts, but only by the other one.    *)
(* Times are whole units; rows are never deleted.                          *)
(***************************************************************************)
EXTENDS Integers, FiniteSets

CONSTANTS
    Employees,       \* the active employees of the shop
    Starts,          \* the times customers ask for (bound)
    Durations,       \* the durations of the services (bound)
    SlotLength,      \* slot_duration_minutes
    Opening, Closing,
    MaxAppointments, \* bound: rows of the table
    StaffStatuses,   \* the statuses staff send to PATCH /{id}/status
    Nobody

Loop == "loop"
Mcp == "mcp"
Procs == {Loop, Mcp}
Ids == 1 .. MaxAppointments
None == 0

ASSUME ConstantsOK ==
    /\ MaxAppointments \in Nat
    /\ Starts \subseteq Int /\ Durations \subseteq Nat \ {0} /\ SlotLength \in Nat \ {0}
    /\ Opening \in Int /\ Closing \in Int
    /\ Nobody \notin Employees

\* The statuses the conflict checks look for; a customer who has arrived
\* (checked_in) is not among them.
Counted == {"scheduled", "confirmed", "in_progress"}
Open == Counted \cup {"checked_in"}
Statuses == Open \cup {"completed", "cancelled", "no_show"}

ASSUME StaffStatusesOK == StaffStatuses \subseteq Statuses

VARIABLES
    appt,       \* the appointments table
    nextId,     \* the id the next appointment gets
    job,        \* the request each process is in the middle of
    by,         \* history: which process inserted an appointment
    root,       \* history: the booking an appointment was first made for
    away,       \* history: appointments that had a status not in Counted
    revived     \* history: bookings one of whose cancellations staff have undone

vars == <<appt, nextId, job, by, root, away, revived>>
table == <<appt, nextId, by, root, away, revived>>

Appointment == [status : Statuses \cup {"unused"}, employee : Employees \cup {Nobody},
                start : Int, end : Int]
NoAppointment == [status |-> "unused", employee |-> Nobody, start |-> 0, end |-> 0]

Steps == {"idle", "assign", "check", "insert", "cancel"}
Job == [step : Steps, employee : Employees \cup {Nobody}, start : Int, end : Int,
        old : Ids \cup {None}, resized : BOOLEAN]
Idle == [step |-> "idle", employee |-> Nobody, start |-> 0, end |-> 0,
         old |-> None, resized |-> FALSE]

Made(i) == appt[i].status # "unused"
IsOpen(i) == appt[i].status \in Open
Cancelled(i) == appt[i].status = "cancelled"

-----------------------------------------------------------------------------
(* Conflicts.                                                              *)

Counts(i) == appt[i].status \in Counted

\* Mutant: only an appointment under way when the new one starts conflicts.
OverlapAtStart(a, b) ==
    /\ a.employee = b.employee /\ a.employee # Nobody
    /\ a.start <= b.start /\ b.start < a.end

Overlap(a, b) ==
    /\ a.employee = b.employee /\ a.employee # Nobody
    /\ a.start < b.end /\ b.start < a.end

\* The query both the booking and the automatic assignment make.
Conflicts(slot) == {i \in Ids : Counts(i) /\ Overlap(appt[i], slot)}

-----------------------------------------------------------------------------
(* Booking.                                                                *)

Busy(p) == job[p].step # "idle"
Goto(p, step) == job' = [job EXCEPT ![p].step = step]
Done(p) == job' = [job EXCEPT ![p] = Idle]

\* Bound: every request under way will find a free id.
RoomToBook == nextId + Cardinality({p \in Procs : Busy(p)}) <= MaxAppointments

\* Mutant: the conflict check is for automatic assignments only.
CheckUnlessChosen(e) == "insert"

\* Without an employee there is nothing to check.
CheckOrInsert(e) == IF e = Nobody THEN "insert" ELSE "check"

\* The backend assigns somebody when the customer names no one; the MCP server
\* leaves the appointment unassigned.
Book(p, e, s, d) ==
    /\ ~Busy(p) /\ RoomToBook
    /\ job' = [job EXCEPT ![p] =
            [Idle EXCEPT !.step = IF p = Loop /\ e = Nobody THEN "assign" ELSE CheckOrInsert(e),
                         !.employee = e, !.start = s, !.end = s + d]]
    /\ UNCHANGED table

\* _auto_assign_employee: whoever has no conflict; the load it prefers by also
\* counts customers of the walk-in queue, so it may order them in any way.
Assign(p) ==
    /\ job[p].step = "assign"
    /\ LET free == {e \in Employees : Conflicts([job[p] EXCEPT !.employee = e]) = {}} IN
        \/ \E e \in free :
            job' = [job EXCEPT ![p].step = "check", ![p].employee = e]
        \/ free = {} /\ Done(p)
    /\ UNCHANGED table

Check(p) ==
    /\ job[p].step = "check"
    /\ IF Conflicts(job[p]) = {} THEN Goto(p, "insert") ELSE Done(p)
    /\ UNCHANGED table

Insert(p) ==
    /\ job[p].step = "insert"
    /\ nextId \in Ids
    /\ appt' = [appt EXCEPT ![nextId] =
            [status |-> "scheduled", employee |-> job[p].employee,
             start |-> job[p].start, end |-> job[p].end]]
    /\ nextId' = nextId + 1
    /\ by' = [by EXCEPT ![nextId] = p]
    /\ root' = [root EXCEPT ![nextId] = IF job[p].old = None THEN nextId ELSE root[job[p].old]]
    /\ Done(p)
    /\ UNCHANGED <<away, revived>>

-----------------------------------------------------------------------------
(* Statuses and rescheduling.                                              *)

\* Whatever the status was.
SetStatus(i, s) ==
    /\ appt' = [appt EXCEPT ![i].status = s]
    /\ away' = IF s \in Counted THEN away ELSE away \cup {i}

\* update_status.  The MCP server only cancels.
UpdateStatus(p, i, s) ==
    /\ ~Busy(p) /\ Made(i)
    /\ s \in IF p = Loop THEN StaffStatuses ELSE {"cancelled"}
    /\ SetStatus(i, s)
    /\ revived' = IF Cancelled(i) /\ s # "cancelled" THEN revived \cup {root[i]} ELSE revived
    /\ UNCHANGED <<nextId, job, by, root>>

\* Mutant: the old appointment's status is not looked at.
MovableAny(i) == Made(i)

Movable(i) == Made(i) /\ appt[i].status \notin {"completed", "cancelled"}

\* Read the old appointment.  A duration may be given with the new time.
Reschedule(i, s, d, resized) ==
    /\ ~Busy(Loop) /\ RoomToBook
    /\ Movable(i)
    /\ ~resized => d = appt[i].end - appt[i].start
    /\ job' = [job EXCEPT ![Loop] =
            [step |-> "cancel", employee |-> appt[i].employee, start |-> s, end |-> s + d,
             old |-> i, resized |-> resized]]
    /\ UNCHANGED table

\* Cancel it and commit, then book.  With a duration the old row is not read
\* again before its session is closed: using it raises, and nothing is booked.
CancelOld ==
    /\ job[Loop].step = "cancel"
    /\ SetStatus(job[Loop].old, "cancelled")
    /\ IF job[Loop].resized THEN Done(Loop) ELSE Goto(Loop, CheckOrInsert(job[Loop].employee))
    /\ UNCHANGED <<nextId, by, root, revived>>

\* An error or a restart in the middle: what was committed stays.
Fail(p) ==
    /\ Busy(p)
    /\ Done(p)
    /\ UNCHANGED table

-----------------------------------------------------------------------------

Init ==
    /\ appt = [i \in Ids |-> NoAppointment]
    /\ nextId = 1
    /\ job = [p \in Procs |-> Idle]
    /\ by = [i \in Ids |-> Loop]
    /\ root = [i \in Ids |-> i]
    /\ away = {}
    /\ revived = {}

Continue(p) == Assign(p) \/ Check(p) \/ Insert(p)

Next ==
    \/ \E p \in Procs : Continue(p) \/ Fail(p)
    \/ \E p \in Procs, e \in Employees \cup {Nobody}, s \in Starts, d \in Durations : Book(p, e, s, d)
    \/ \E p \in Procs, i \in Ids, s \in Statuses : UpdateStatus(p, i, s)
    \/ \E i \in Ids, s \in Starts, d \in Durations, resized \in BOOLEAN : Reschedule(i, s, d, resized)
    \/ CancelOld

Spec == Init /\ [][Next]_vars

-----------------------------------------------------------------------------
(* get_available_slots, which only reads.                                  *)

\* Mutant: the last slot of the day is left out.
GridShort == {t \in Opening .. Closing : (t - Opening) % SlotLength = 0 /\ t + SlotLength < Closing}

\* The cursor's stops.
Grid == {t \in Opening .. Closing : (t - Opening) % SlotLength = 0 /\ t + SlotLength <= Closing}

\* The day's appointments: those that start within business hours.
Booked(e) ==
    {i \in Ids : Counts(i) /\ appt[i].employee = e
                 /\ appt[i].start >= Opening /\ appt[i].start < Closing}

AvailableSlots(e) ==
    {t \in Grid : \A i \in Booked(e) : ~(appt[i].start < t + SlotLength /\ appt[i].end > t)}

SlotAt(e, t) == [employee |-> e, start |-> t, end |-> t + SlotLength]

-----------------------------------------------------------------------------
(* Properties.                                                             *)

TypeOK ==
    /\ appt \in [Ids -> Appointment]
    /\ nextId \in 1 .. MaxAppointments + 1
    /\ job \in [Procs -> Job]
    /\ by \in [Ids -> Procs]
    /\ root \in [Ids -> Ids]
    /\ away \subseteq Ids
    /\ revived \subseteq Ids

\* One process alone never double-books an employee: two appointments that
\* overlap and that have kept their slot ever since were made by different
\* processes, whatever was booked, rescheduled, cancelled or lost in between.
BookedApart ==
    \A i, j \in Ids :
        (i # j /\ Counts(i) /\ Counts(j) /\ i \notin away /\ j \notin away
         /\ Overlap(appt[i], appt[j])) => by[i] # by[j]

\* However often a booking is moved, and wherever a move breaks off or meets
\* a cancellation, at most one of its appointments is not cancelled, unless
\* staff have undone a cancellation.
OneOpenPerBooking ==
    \A i, j \in Ids :
        (i # j /\ Made(i) /\ Made(j) /\ root[i] = root[j])
            => Cancelled(i) \/ Cancelled(j) \/ root[i] \in revived

\* A customer is offered every slot that could be booked with the employee.
FreeSlotsAreOffered ==
    \A e \in Employees, t \in Opening .. Closing - SlotLength :
        ((t - Opening) % SlotLength = 0 /\ Conflicts(SlotAt(e, t)) = {}) => t \in AvailableSlots(e)

-----------------------------------------------------------------------------
(* Why the safety properties hold.                                         *)

IdsIssued ==
    /\ \A i \in Ids : Made(i) <=> i < nextId
    /\ \A p \in Procs : job[p].old # None => p = Loop /\ Made(job[p].old)
    /\ \A p \in Procs : ~Busy(p) => job[p].old = None
    /\ \A p \in Procs : job[p].step = "cancel" => job[p].old # None
    /\ \A i \in Ids : i \in away => Made(i)
    /\ \A i \in Ids : Made(i) => Counts(i) \/ i \in away
    /\ \A i \in Ids : Made(i) => root[i] <= i

\* Between its check and its insert a process has not booked anything else.
CheckedSlotIsFree ==
    \A p \in Procs : job[p].step = "insert" =>
        \A i \in Ids : (Counts(i) /\ i \notin away /\ Overlap(appt[i], job[p])) => by[i] # p

\* When a move books, the appointments it moves from are all cancelled; before
\* it cancels the old one, the others are.
MovesAreFromCancelled ==
    job[Loop].old # None =>
        LET old == job[Loop].old IN
        \/ root[old] \in revived
        \/ \A i \in Ids : (Made(i) /\ root[i] = root[old])
                => Cancelled(i) \/ (job[Loop].step = "cancel" /\ i = old)

IInv ==
    /\ TypeOK
    /\ IdsIssued
    /\ CheckedSlotIsFree
    /\ MovesAreFromCancelled
    /\ BookedApart
    /\ OneOpenPerBooking
=============================================================================
