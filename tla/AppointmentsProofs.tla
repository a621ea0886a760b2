-------------------------- MODULE AppointmentsProofs --------------------------
(***************************************************************************)
(* AppointmentService, called from two processes: what one process alone   *)
(* never double-books, and that a booking that is moved stays one booking, *)
(* for any employees, times, durations and number of rows.                 *)
(***************************************************************************)
EXTENDS Appointments, TLAPS

-----------------------------------------------------------------------------
(* Rows and requests.                                                      *)

\* A request without some of its fields.
LEMMA JobsHave ==
    /\ Idle \in Job
    /\ \A j \in Job, step \in Steps : [j EXCEPT !.step = step] \in Job
    /\ \A j \in Job, step \in Steps, e \in Employees :
            [j EXCEPT !.step = step, !.employee = e] \in Job
<1>1. Idle \in Job
  BY DEF Idle, Job, Steps
<1>2. \A j \in Job, step \in Steps : [j EXCEPT !.step = step] \in Job
  BY DEF Job
<1>3. \A j \in Job, step \in Steps, e \in Employees :
            [j EXCEPT !.step = step, !.employee = e] \in Job
  BY DEF Job
<1> QED BY <1>1, <1>2, <1>3

\* What a request keeps when it goes on.
LEMMA JobStep ==
    ASSUME NEW j \in Job, NEW step
    PROVE  /\ [j EXCEPT !.step = step].step = step
           /\ [j EXCEPT !.step = step].old = j.old
           /\ [j EXCEPT !.step = step].employee = j.employee
           /\ [j EXCEPT !.step = step].start = j.start
           /\ [j EXCEPT !.step = step].end = j.end
BY DEF Job

LEMMA JobAssigned ==
    ASSUME NEW j \in Job, NEW step, NEW e
    PROVE  /\ [j EXCEPT !.step = step, !.employee = e].step = step
           /\ [j EXCEPT !.step = step, !.employee = e].old = j.old
<1> DEFINE k == [j EXCEPT !.step = step, !.employee = e]
<1>1. k \in [step : {step}, employee : {e}, start : Int, end : Int, old : {j.old},
             resized : BOOLEAN]
  BY DEF Job
<1> HIDE DEF k
<1>2. k.step = step /\ k.old = j.old
  BY <1>1
<1> QED BY <1>2 DEF k

LEMMA OverlapSymmetric == \A a, b : Overlap(a, b) <=> Overlap(b, a)
BY DEF Overlap

-----------------------------------------------------------------------------
(* Steps that only change what a process is in the middle of.              *)

\* A booking may be moved from old: the others it was moved from are cancelled.
MayMove(old, step) ==
    \/ root[old] \in revived
    \/ \A i \in Ids : (Made(i) /\ root[i] = root[old])
            => Cancelled(i) \/ (step = "cancel" /\ i = old)

LEMMA RequestGoesOn ==
    ASSUME IInv, UNCHANGED table, NEW p \in Procs, NEW j \in Job,
           job' = [job EXCEPT ![p] = j],
           j.old # None => p = Loop /\ Made(j.old) /\ MayMove(j.old, j.step),
           j.step = "idle" => j.old = None, j.step = "cancel" => j.old # None,
           j.step = "insert" =>
               \A i \in Ids : (Counts(i) /\ i \notin away /\ Overlap(appt[i], j)) => by[i] # p
    PROVE  IInv'
<1> USE DEF IInv, table
<1>1. job'[p] = j /\ \A q \in Procs \ {p} : job'[q] = job[q]
  BY DEF TypeOK
<1>2. TypeOK'
  BY DEF TypeOK
<1>3. IdsIssued'
  BY <1>1 DEF IdsIssued, Made, Counts, Busy
<1>4. CheckedSlotIsFree'
  BY <1>1 DEF CheckedSlotIsFree, Counts, Overlap
<1>5. MovesAreFromCancelled'
  <2>1. CASE p = Loop
    BY <1>1, <2>1 DEF MovesAreFromCancelled, MayMove, Made, Cancelled
  <2>2. CASE p # Loop
    BY <1>1, <2>2 DEF MovesAreFromCancelled, Made, Cancelled, Procs
  <2> QED BY <2>1, <2>2
<1>6. BookedApart' /\ OneOpenPerBooking'
  BY DEF BookedApart, OneOpenPerBooking, Made, Counts, Overlap, Cancelled
<1> QED BY <1>2, <1>3, <1>4, <1>5, <1>6

LEMMA RequestEnds ==
    ASSUME IInv, UNCHANGED table, NEW p \in Procs, Done(p)
    PROVE  IInv'
<1>1. Idle \in Job /\ Idle.old = None /\ Idle.step = "idle"
  BY JobsHave DEF Idle
<1> QED BY <1>1, RequestGoesOn DEF Done

\* Without an employee there is nothing an insert could conflict with.
LEMMA BookKeeps ==
    ASSUME IInv, NEW p \in Procs, NEW e \in Employees \cup {Nobody}, NEW s \in Starts,
           NEW d \in Durations, Book(p, e, s, d)
    PROVE  IInv'
<1> DEFINE step == IF p = Loop /\ e = Nobody THEN "assign" ELSE CheckOrInsert(e)
           t == s + d
           j == [Idle EXCEPT !.step = step, !.employee = e, !.start = s, !.end = t]
<1>1. step \in {"assign", "check", "insert"} /\ (step = "insert" => e = Nobody)
  BY DEF CheckOrInsert
<1>2. UNCHANGED table /\ job' = [job EXCEPT ![p] = j]
  BY DEF Book
<1>3. s \in Int /\ t \in Int
  BY ConstantsOK
<1> HIDE DEF step, t
<1>4. j \in [step : {step}, employee : {e}, start : {s}, end : {t}, old : {None}, resized : {FALSE}]
  BY DEF Idle
<1> HIDE DEF j
<1>5. j \in Job /\ j.old = None /\ j.step \notin {"idle", "cancel"}
  BY <1>1, <1>3, <1>4 DEF Job, Steps
<1>6. j.step = "insert" => \A i \in Ids : ~Overlap(appt[i], j)
  BY <1>1, <1>4 DEF Overlap
<1> QED BY <1>2, <1>5, <1>6, RequestGoesOn

LEMMA AssignKeeps ==
    ASSUME IInv, NEW p \in Procs, Assign(p)
    PROVE  IInv'
<1>1. job[p] \in Job /\ job[p].step = "assign" /\ UNCHANGED table
  BY DEF IInv, TypeOK, Assign
<1>2. CASE Done(p)
  BY <1>1, <1>2, RequestEnds
<1>3. ASSUME NEW e \in Employees, job' = [job EXCEPT ![p].step = "check", ![p].employee = e]
      PROVE  IInv'
  <2> DEFINE j == [job[p] EXCEPT !.step = "check", !.employee = e]
  <2>1. job' = [job EXCEPT ![p] = j]
    BY <1>3 DEF IInv, TypeOK
  <2>2. j \in Job /\ j.step = "check" /\ j.old = job[p].old
    BY <1>1, JobsHave, JobAssigned DEF Steps
  <2>3. j.old # None => p = Loop /\ Made(j.old) /\ MayMove(j.old, "check")
    BY <1>1, <2>2 DEF IInv, IdsIssued, MovesAreFromCancelled, MayMove
  <2> HIDE DEF j
  <2> QED BY <1>1, <2>1, <2>2, <2>3, RequestGoesOn
<1> QED BY <1>2, <1>3 DEF Assign

LEMMA CheckKeeps ==
    ASSUME IInv, NEW p \in Procs, Check(p)
    PROVE  IInv'
<1>1. job[p] \in Job /\ job[p].step = "check" /\ UNCHANGED table
  BY DEF IInv, TypeOK, Check
<1>2. CASE Done(p)
  BY <1>1, <1>2, RequestEnds
<1>3. CASE Conflicts(job[p]) = {} /\ Goto(p, "insert")
  <2> DEFINE j == [job[p] EXCEPT !.step = "insert"]
  <2>1. job' = [job EXCEPT ![p] = j]
    BY <1>3 DEF Goto, IInv, TypeOK
  <2>2. j \in Job
    BY <1>1, JobsHave DEF Steps
  <2>3. /\ j.step = "insert" /\ j.old = job[p].old /\ j.employee = job[p].employee
        /\ j.start = job[p].start /\ j.end = job[p].end
    BY <1>1, JobStep
  <2>4. j.old # None => p = Loop /\ Made(j.old) /\ MayMove(j.old, "insert")
    BY <1>1, <2>3 DEF IInv, IdsIssued, MovesAreFromCancelled, MayMove
  <2>5. \A i \in Ids : Counts(i) => ~Overlap(appt[i], j)
    BY <1>3, <2>3 DEF Conflicts, Overlap
  <2> HIDE DEF j
  <2> QED BY <1>1, <2>1, <2>2, <2>3, <2>4, <2>5, RequestGoesOn
<1> QED BY <1>2, <1>3 DEF Check

\* The appointments a booking was moved from before are cancelled.
LEMMA RescheduleKeeps ==
    ASSUME IInv, NEW i \in Ids, NEW s \in Starts, NEW d \in Durations, NEW resized \in BOOLEAN,
           Reschedule(i, s, d, resized)
    PROVE  IInv'
<1> DEFINE j == [step |-> "cancel", employee |-> appt[i].employee, start |-> s, end |-> s + d,
                 old |-> i, resized |-> resized]
<1>1. UNCHANGED table /\ job' = [job EXCEPT ![Loop] = j] /\ Movable(i)
  BY DEF Reschedule
<1>2. j \in Job
  BY ConstantsOK DEF IInv, TypeOK, Appointment, Job, Steps
<1>3. Made(i) /\ ~Cancelled(i)
  BY <1>1 DEF Movable, Cancelled
<1>4. MayMove(i, "cancel")
  BY <1>3 DEF MayMove, IInv, OneOpenPerBooking
<1>5. j.step = "cancel" /\ j.old = i /\ i # None
  BY DEF Ids, None
<1> HIDE DEF j
<1>6. Loop \in Procs
  BY DEF Procs
<1> QED BY <1>1, <1>2, <1>3, <1>4, <1>5, <1>6, RequestGoesOn

-----------------------------------------------------------------------------
(* Statuses.                                                               *)

\* A status only takes an appointment out of the conflicts for good.
LEMMA SetStatusSets ==
    ASSUME IInv, NEW i \in Ids, NEW s \in Statuses, Made(i), SetStatus(i, s)
    PROVE  /\ appt' \in [Ids -> Appointment]
           /\ \A k \in Ids : /\ appt'[k].employee = appt[k].employee
                             /\ appt'[k].start = appt[k].start /\ appt'[k].end = appt[k].end
           /\ \A k \in Ids \ {i} : appt'[k] = appt[k]
           /\ appt'[i].status = s
           /\ \A k \in Ids : Made(k)' <=> Made(k)
           /\ away' \subseteq Ids
           /\ \A k \in Ids : k \in away => k \in away'
           /\ \A k \in Ids : k \in away' => Made(k)
           /\ \A k \in Ids : Made(k) => Counts(k)' \/ k \in away'
           /\ \A k \in Ids : Counts(k)' /\ k \notin away' => Counts(k) /\ k \notin away
<1>1. appt \in [Ids -> Appointment] /\ away \subseteq Ids
  BY DEF IInv, TypeOK
<1>2. appt' = [appt EXCEPT ![i].status = s]
      /\ away' = IF s \in Counted THEN away ELSE away \cup {i}
  BY DEF SetStatus
<1>3. /\ appt' \in [Ids -> Appointment]
      /\ \A k \in Ids : /\ appt'[k].employee = appt[k].employee
                        /\ appt'[k].start = appt[k].start /\ appt'[k].end = appt[k].end
      /\ \A k \in Ids \ {i} : appt'[k] = appt[k]
      /\ appt'[i].status = s
  BY <1>1, <1>2 DEF Appointment
<1>4. s # "unused"
  BY DEF Statuses, Open, Counted
<1>5. \A k \in Ids : Made(k)' <=> Made(k)
  BY <1>3, <1>4 DEF Made
<1>6. \A k \in Ids : (Made(k) => Counts(k) \/ k \in away) /\ (k \in away => Made(k))
  BY DEF IInv, IdsIssued
<1>7. \A k \in Ids : k \in away => k \in away'
  BY <1>2
<1>8. \A k \in Ids : k \in away' => k \in Ids /\ Made(k)
  BY <1>2, <1>6
<1>9. \A k \in Ids : Made(k) => Counts(k)' \/ k \in away'
  BY <1>2, <1>3, <1>6 DEF Counts
<1>10. \A k \in Ids : Counts(k)' /\ k \notin away' => Counts(k) /\ k \notin away
  BY <1>2, <1>3, <1>6 DEF Counts
<1> QED BY <1>1, <1>2, <1>3, <1>5, <1>7, <1>8, <1>9, <1>10

\* The parts of the invariant that are about time and ids survive any status.
LEMMA StatusKeeps ==
    ASSUME IInv, NEW i \in Ids, NEW s \in Statuses, Made(i), SetStatus(i, s),
           UNCHANGED <<nextId, by, root>>
    PROVE  /\ \A k \in Ids : (Made(k) <=> k < nextId)'
           /\ \A k \in Ids : (Made(k) => root[k] <= k)'
           /\ BookedApart'
           /\ \A p \in Procs : job'[p] = job[p] =>
                (job[p].step = "insert" =>
                    \A k \in Ids : (Counts(k) /\ k \notin away /\ Overlap(appt[k], job[p]))' => by[k] # p)
<1> USE SetStatusSets DEF IInv
<1>1. \A k \in Ids : (Made(k) <=> k < nextId)'
  BY DEF IdsIssued
<1>2. \A k \in Ids : (Made(k) => root[k] <= k)'
  BY DEF IdsIssued
<1>3. BookedApart'
  BY DEF BookedApart, Overlap
<1>4. ASSUME NEW p \in Procs, job'[p] = job[p], job[p].step = "insert", NEW k \in Ids,
             (Counts(k) /\ k \notin away /\ Overlap(appt[k], job[p]))'
      PROVE  by[k] # p
  BY <1>4 DEF CheckedSlotIsFree, Overlap
<1> QED BY <1>1, <1>2, <1>3, <1>4

\* Only staff undo a cancellation, and never while the event loop moves one.
LEMMA UpdateStatusKeeps ==
    ASSUME IInv, NEW p \in Procs, NEW i \in Ids, NEW s \in Statuses, UpdateStatus(p, i, s)
    PROVE  IInv'
<1> USE DEF IInv
<1>1. Made(i) /\ SetStatus(i, s) /\ UNCHANGED <<nextId, job, by, root>>
  BY DEF UpdateStatus
<1>2. /\ revived' \subseteq Ids /\ \A r \in revived : r \in revived'
      /\ Cancelled(i) => s = "cancelled" \/ root[i] \in revived'
  BY DEF UpdateStatus, TypeOK
<1>3. /\ \A k \in Ids \ {i} : Cancelled(k)' <=> Cancelled(k)
      /\ Cancelled(i)' <=> s = "cancelled"
  BY <1>1, SetStatusSets DEF Cancelled
<1>4. TypeOK'
  BY <1>1, <1>2, SetStatusSets DEF TypeOK
<1>5. IdsIssued'
  <2>1. \A q \in Procs : job[q].old \in Ids \cup {None}
    BY DEF TypeOK, Job
  <2>2. \A k \in Ids : Made(k)' <=> Made(k)
    BY <1>1, SetStatusSets
  <2>3. \A q \in Procs : job[q].old # None => q = Loop /\ Made(job[q].old)'
    BY <1>1, <2>1, <2>2 DEF IdsIssued
  <2>4. \A k \in Ids : (k \in away' => Made(k)') /\ (Made(k)' => Counts(k)' \/ k \in away')
    BY <1>1, <2>2, SetStatusSets
  <2> QED BY <1>1, <2>3, <2>4, StatusKeeps DEF IdsIssued, Busy
<1>6. CheckedSlotIsFree'
  BY <1>1, StatusKeeps DEF CheckedSlotIsFree
<1>7. MovesAreFromCancelled'
  <2>1. CASE p = Loop
    BY <1>1, <2>1 DEF UpdateStatus, IdsIssued, MovesAreFromCancelled
  <2>2. CASE p # Loop
    <3>1. s = "cancelled"
      BY <2>2 DEF UpdateStatus
    <3> QED BY <1>1, <1>2, <1>3, <3>1, SetStatusSets DEF MovesAreFromCancelled
  <2> QED BY <2>1, <2>2
<1>8. OneOpenPerBooking'
  BY <1>1, <1>2, <1>3, SetStatusSets DEF OneOpenPerBooking
<1> QED BY <1>1, <1>4, <1>5, <1>6, <1>7, <1>8, StatusKeeps

LEMMA CancelOldKeeps ==
    ASSUME IInv, CancelOld
    PROVE  IInv'
<1> USE DEF IInv
<1>0. job[Loop].step = "cancel" /\ job[Loop].old \in Ids
  BY DEF CancelOld, IdsIssued, TypeOK, Job, Procs
<1> PICK i \in Ids : i = job[Loop].old
  BY <1>0
<1> DEFINE j == IF job[Loop].resized THEN Idle
                ELSE [job[Loop] EXCEPT !.step = CheckOrInsert(job[Loop].employee)]
<1>1. job[Loop].step = "cancel" /\ SetStatus(i, "cancelled") /\ UNCHANGED <<nextId, by, root, revived>>
  BY DEF CancelOld
<1>2. job' = [job EXCEPT ![Loop] = j]
  BY DEF CancelOld, Goto, Done, TypeOK, Procs
<1>3. i \in Ids /\ Made(i)
  BY <1>1 DEF IdsIssued, TypeOK, Job, Procs
<1>4. /\ job[Loop] \in Job /\ j \in Job
      /\ j.old \in {None, i} /\ j.step \in {"idle", "check", "insert"}
      /\ j.step = "idle" => j.old = None
      /\ j.step = "insert" => j.employee = Nobody
  <2>1. job[Loop] \in Job
    BY DEF TypeOK, Procs
  <2>2. Idle \in Job /\ Idle.old = None /\ Idle.step = "idle"
    BY JobsHave DEF Idle
  <2>3. ASSUME NEW step \in {"check", "insert"}, NEW e \in Employees \cup {Nobody},
               e = job[Loop].employee, step = "insert" => e = Nobody,
               j = [job[Loop] EXCEPT !.step = step]
        PROVE  /\ j \in Job /\ j.old = i /\ j.step = step
               /\ j.step = "insert" => j.employee = Nobody
    <3>1. /\ [job[Loop] EXCEPT !.step = step] \in Job
          /\ [job[Loop] EXCEPT !.step = step].step = step
          /\ [job[Loop] EXCEPT !.step = step].old = i
          /\ [job[Loop] EXCEPT !.step = step].employee = e
      BY <2>1, <2>3, JobsHave, JobStep DEF Steps
    <3> QED BY <2>3, <3>1
  <2>4. /\ job[Loop].employee \in Employees \cup {Nobody}
        /\ CheckOrInsert(job[Loop].employee) \in {"check", "insert"}
        /\ CheckOrInsert(job[Loop].employee) = "insert" => job[Loop].employee = Nobody
    BY <2>1 DEF Job, CheckOrInsert
  <2> QED BY <2>1, <2>2, <2>3, <2>4
<1> HIDE DEF j
<1>5. job'[Loop] = j /\ \A q \in Procs \ {Loop} : job'[q] = job[q]
  BY <1>2 DEF TypeOK, Procs
<1>6. "cancelled" \in Statuses
  BY DEF Statuses
<1>7. TypeOK'
  BY <1>1, <1>2, <1>3, <1>4, <1>6, SetStatusSets DEF TypeOK
<1>8. IdsIssued'
  <2>1. \A k \in Ids : Made(k)' <=> Made(k)
    BY <1>1, <1>3, <1>6, SetStatusSets
  <2>2. \A p \in Procs : job'[p].old # None => p = Loop /\ job'[p].old = i
    BY <1>4, <1>5 DEF IdsIssued
  <2>3. \A p \in Procs : job'[p].old # None => p = Loop /\ Made(job[p].old)'
    BY <1>3, <2>1, <2>2
  <2>4. \A p \in Procs : /\ job'[p].step = "idle" => job'[p].old = None
                         /\ job'[p].step = "cancel" => job'[p].old # None
    BY <1>4, <1>5 DEF IdsIssued, Busy
  <2>5. \A k \in Ids : (k \in away' => Made(k)') /\ (Made(k)' => Counts(k)' \/ k \in away')
    BY <1>1, <1>3, <1>6, <2>1, SetStatusSets
  <2> QED BY <1>1, <1>3, <1>6, <2>3, <2>4, <2>5, StatusKeeps DEF IdsIssued, Busy
<1>9. CheckedSlotIsFree'
  <2>1. j.step = "insert" => \A k \in Ids : ~Overlap(appt'[k], j)
    BY <1>4 DEF Overlap
  <2>2. \A p \in Procs \ {Loop} : job'[p].step = "insert" =>
            \A k \in Ids : (Counts(k) /\ k \notin away /\ Overlap(appt[k], job[p]))' => by'[k] # p
    BY <1>1, <1>3, <1>5, <1>6, StatusKeeps
  <2> QED BY <1>5, <2>1, <2>2 DEF CheckedSlotIsFree
<1>10. /\ \A k \in Ids \ {i} : Cancelled(k)' <=> Cancelled(k)
       /\ Cancelled(i)'
  BY <1>1, <1>3, <1>6, SetStatusSets DEF Cancelled
<1>11. MovesAreFromCancelled'
  BY <1>1, <1>3, <1>4, <1>5, <1>6, <1>10, SetStatusSets DEF MovesAreFromCancelled, IdsIssued
<1>12. OneOpenPerBooking'
  BY <1>1, <1>3, <1>6, <1>10, SetStatusSets DEF OneOpenPerBooking
<1> QED BY <1>1, <1>3, <1>6, <1>7, <1>8, <1>9, <1>11, <1>12, StatusKeeps

-----------------------------------------------------------------------------
(* The insert: what the process checked before is still true of its own    *)
(* appointments.                                                           *)

LEMMA InsertKeeps ==
    ASSUME IInv, NEW p \in Procs, Insert(p)
    PROVE  IInv'
<1> USE DEF IInv
<1> PICK n \in Ids : n = nextId
  BY DEF Insert
<1> DEFINE row == [status |-> "scheduled", employee |-> job[p].employee,
                   start |-> job[p].start, end |-> job[p].end]
<1>1. /\ job[p].step = "insert" /\ n \in Ids /\ nextId' = n + 1
      /\ appt' = [appt EXCEPT ![n] = row] /\ by' = [by EXCEPT ![n] = p]
      /\ job' = [job EXCEPT ![p] = Idle] /\ UNCHANGED <<away, revived>>
  BY DEF Insert, Done
<1>2. root' = [root EXCEPT ![n] = IF job[p].old = None THEN n ELSE root[job[p].old]]
  BY DEF Insert
<1>3. job[p] \in Job /\ job[p].old \in Ids \cup {None}
  BY DEF TypeOK, Job
<1>4. row \in Appointment
  BY <1>3 DEF Job, Appointment, Statuses, Open, Counted
<1>5. TypeOK'
  <2>1. appt' \in [Ids -> Appointment]
    BY <1>1, <1>4 DEF TypeOK
  <2>2. nextId' \in 1 .. MaxAppointments + 1
    BY <1>1, ConstantsOK DEF Ids
  <2>3. root' \in [Ids -> Ids] /\ by' \in [Ids -> Procs]
    BY <1>1, <1>2, <1>3 DEF TypeOK
  <2>4. job' \in [Procs -> Job]
    BY <1>1, JobsHave DEF TypeOK
  <2> QED BY <1>1, <2>1, <2>2, <2>3, <2>4 DEF TypeOK
<1>6. /\ appt'[n] = row /\ by'[n] = p /\ job'[p] = Idle
      /\ root'[n] = IF job[p].old = None THEN n ELSE root[job[p].old]
      /\ \A k \in Ids \ {n} : appt'[k] = appt[k] /\ by'[k] = by[k] /\ root'[k] = root[k]
      /\ \A q \in Procs \ {p} : job'[q] = job[q]
  BY <1>1, <1>2 DEF TypeOK
<1> HIDE DEF row
<1>7. row.status = "scheduled" /\ \A a : Overlap(a, row) <=> Overlap(a, job[p])
  BY DEF row, Overlap
<1>8. /\ ~Made(n) /\ n \notin away /\ Made(n)' /\ Counts(n)' /\ ~Cancelled(n)'
      /\ \A k \in Ids \ {n} : /\ Made(k)' <=> Made(k)
                              /\ Counts(k)' <=> Counts(k)
                              /\ Cancelled(k)' <=> Cancelled(k)
  BY <1>1, <1>6, <1>7 DEF IdsIssued, TypeOK, Made, Counts, Counted, Cancelled
<1>9. Idle.old = None /\ Idle.step = "idle"
  BY DEF Idle
<1>10. IdsIssued'
  <2>1. \A k \in Ids : Made(k)' <=> k < nextId'
    BY <1>1, <1>8 DEF IdsIssued, Ids
  <2>2. \A q \in Procs : job'[q].old # None =>
            q = Loop /\ job'[q] = job[q] /\ job[q].old \in Ids /\ Made(job[q].old)
    BY <1>6, <1>9 DEF IdsIssued, TypeOK, Job
  <2>3. \A q \in Procs : job'[q].old # None => q = Loop /\ Made(job[q].old)'
    BY <1>8, <2>2
  <2>4. \A k \in Ids : Made(k)' => root'[k] <= k
    <3>1. job[p].old # None => job[p].old \in Ids /\ Made(job[p].old)
      BY <1>3 DEF IdsIssued
    <3>2. root'[n] <= n
      BY <1>1, <1>3, <1>6, <3>1 DEF IdsIssued, TypeOK, Ids
    <3> QED BY <1>6, <1>8, <3>2 DEF IdsIssued
  <2> QED BY <1>1, <1>6, <1>8, <1>9, <2>1, <2>3, <2>4 DEF IdsIssued, Busy
<1>11. CheckedSlotIsFree'
  BY <1>1, <1>6, <1>8, <1>9 DEF CheckedSlotIsFree
<1>12. MovesAreFromCancelled'
  <2>1. CASE p = Loop
    BY <1>6, <1>9, <2>1 DEF MovesAreFromCancelled
  <2>2. CASE p # Loop /\ job[Loop].old # None
    <3>1. job'[Loop] = job[Loop] /\ root'[n] = n
      BY <1>6, <2>2 DEF IdsIssued, Procs
    <3>2. job[Loop].old \in Ids /\ Made(job[Loop].old) /\ job[Loop].old # n
      BY <1>8, <2>2 DEF IdsIssued, TypeOK, Job, Procs
    <3>3. root'[job[Loop].old] = root[job[Loop].old] /\ root[job[Loop].old] < n
      BY <1>1, <1>6, <3>2 DEF IdsIssued, TypeOK, Ids
    <3>4. root'[n] # root'[job[Loop].old]
      BY <1>1, <3>1, <3>3 DEF Ids, TypeOK
    <3> QED BY <1>1, <1>6, <1>8, <3>1, <3>2, <3>3, <3>4 DEF MovesAreFromCancelled
  <2>3. CASE p # Loop /\ job[Loop].old = None
    BY <1>6, <2>3 DEF MovesAreFromCancelled, Procs
  <2> QED BY <2>1, <2>2, <2>3
<1>13. BookedApart'
  <2>1. ASSUME NEW k \in Ids \ {n}, Counts(k), k \notin away, Overlap(appt[k], row)
        PROVE  by[k] # p
    BY <1>1, <1>7, <2>1 DEF CheckedSlotIsFree
  <2> QED BY <1>1, <1>6, <1>8, <2>1, OverlapSymmetric DEF BookedApart
<1>14. OneOpenPerBooking'
  <2>1. ASSUME NEW k \in Ids \ {n}, Made(k), root[k] = root'[n]
        PROVE  Cancelled(k) \/ root[k] \in revived
    <3>1. CASE job[p].old = None
      <4>1. root[k] <= k /\ k < n /\ root[k] = n
        BY <1>6, <2>1, <3>1 DEF IdsIssued
      <4> QED BY <1>1, <4>1 DEF Ids, TypeOK
    <3>2. CASE job[p].old # None
      BY <1>1, <1>6, <2>1, <3>2 DEF IdsIssued, MovesAreFromCancelled
    <3> QED BY <3>1, <3>2
  <2> QED BY <1>1, <1>6, <1>8, <2>1 DEF OneOpenPerBooking
<1> QED BY <1>5, <1>10, <1>11, <1>12, <1>13, <1>14

-----------------------------------------------------------------------------
(* Theorems.                                                               *)

LEMMA InitIInv == Init => IInv
<1> SUFFICES ASSUME Init PROVE IInv
  OBVIOUS
<1>1. NoAppointment \in Appointment /\ Loop \in Procs /\ 1 \in 1 .. MaxAppointments + 1
  BY ConstantsOK DEF NoAppointment, Appointment, Procs
<1>2. TypeOK
  BY <1>1, JobsHave DEF Init, TypeOK
<1>3. \A i \in Ids : ~Made(i) /\ ~Counts(i) /\ ~(i < nextId)
  BY DEF Init, Made, Counts, Counted, NoAppointment, Ids
<1>4. \A p \in Procs : job[p].old = None /\ job[p].step = "idle"
  BY DEF Init, Idle
<1>5. IdsIssued
  BY <1>3, <1>4 DEF Init, IdsIssued
<1>6. CheckedSlotIsFree /\ BookedApart /\ OneOpenPerBooking
  BY <1>3, <1>4 DEF CheckedSlotIsFree, BookedApart, OneOpenPerBooking
<1>7. MovesAreFromCancelled
  BY <1>4 DEF MovesAreFromCancelled, Procs
<1> QED BY <1>2, <1>5, <1>6, <1>7 DEF IInv

LEMMA NextIInv == IInv /\ [Next]_vars => IInv'
<1> SUFFICES ASSUME IInv, [Next]_vars PROVE IInv'
  OBVIOUS
<1>1. ASSUME NEW p \in Procs, Continue(p) PROVE IInv'
  BY <1>1, AssignKeeps, CheckKeeps, InsertKeeps DEF Continue
<1>2. ASSUME NEW p \in Procs, Fail(p) PROVE IInv'
  BY <1>2, RequestEnds DEF Fail
<1>3. CASE UNCHANGED vars
  <2>1. UNCHANGED <<appt, nextId, job, by, root, away, revived>>
    BY <1>3 DEF vars
  <2> QED BY <2>1 DEF IInv, TypeOK, IdsIssued, CheckedSlotIsFree, MovesAreFromCancelled,
            BookedApart, OneOpenPerBooking, Made, Counts, Cancelled, Busy, Overlap
<1> QED BY <1>1, <1>2, <1>3, BookKeeps, UpdateStatusKeeps, RescheduleKeeps, CancelOldKeeps DEF Next

\* The inductive invariant: what a process has checked stays true of its own
\* appointments until it inserts, and a move starts from a booking whose other
\* appointments are cancelled.
THEOREM Invariance == Spec => []IInv
BY InitIInv, NextIInv, PTL DEF Spec

\* create_appointment and reschedule_appointment, run by one process, never
\* double-book an employee: appointments that overlap and have always been
\* counted were made by the backend and the booking MCP server, one each.
THEOREM OneProcessBooksApart == Spec => []BookedApart
<1>1. IInv => BookedApart
  BY DEF IInv
<1> QED BY <1>1, Invariance, PTL

\* reschedule_appointment, which cancels, commits and then books, never leaves
\* two appointments of one booking open, wherever it breaks off.
THEOREM AMovedBookingIsOne == Spec => []OneOpenPerBooking
<1>1. IInv => OneOpenPerBooking
  BY DEF IInv
<1> QED BY <1>1, Invariance, PTL

\* get_available_slots looks for the conflicts create_appointment looks for:
\* it offers every slot of its grid that could be booked.
THEOREM SlotsAreOffered == Spec => []FreeSlotsAreOffered
<1>1. ASSUME TypeOK, NEW e \in Employees, NEW t \in Opening .. Closing - SlotLength,
             (t - Opening) % SlotLength = 0, Conflicts(SlotAt(e, t)) = {}
      PROVE  t \in AvailableSlots(e)
  <2>1. t \in Grid
    BY <1>1, ConstantsOK DEF Grid
  <2>2. ASSUME NEW i \in Booked(e)
        PROVE  ~(appt[i].start < t + SlotLength /\ appt[i].end > t)
    <3>1. i \in Ids /\ Counts(i) /\ appt[i].employee = e
      BY DEF Booked
    <3>2. ~Overlap(appt[i], SlotAt(e, t))
      BY <1>1, <3>1 DEF Conflicts
    <3>3. appt[i].start \in Int /\ appt[i].end \in Int
      BY <1>1, <3>1 DEF TypeOK, Appointment
    <3> QED BY <3>1, <3>2, <3>3, ConstantsOK DEF Overlap, SlotAt
  <2> QED BY <2>1, <2>2 DEF AvailableSlots
<1>2. IInv => FreeSlotsAreOffered
  BY <1>1 DEF IInv, FreeSlotsAreOffered
<1> QED BY <1>2, Invariance, PTL
=============================================================================
