---------------------------- MODULE StaffProofs ----------------------------
(***************************************************************************)
(* Accounts and shifts of the staff, for any number of people, threads,    *)
(* calls, accounts, shifts and failures: usernames stay unique, repeated   *)
(* requests hire once, and open shifts have an explanation.                *)
(***************************************************************************)
EXTENDS Staff, Integers, FiniteSetTheorems, TLAPS

-----------------------------------------------------------------------------
(* Numbers, finite sets and sequences.                                     *)

\* A set of natural numbers has a smallest one.
LEMMA Smallest ==
    ASSUME NEW S \in SUBSET Nat, S # {}
    PROVE  \E n \in S : \A k \in S : n <= k
<1>1. PICK n \in S : \A k \in S : ~(<<k, n>> \in OpToRel(<, Nat))
  BY NatLessThanWellFounded, WFMin
<1>2. \A k \in S : ~(k < n)
  BY <1>1 DEF OpToRel
<1> QED BY <1>2

\* The first suffix that is free exists: there are fewer accounts than suffixes
\* to try (the loop of rest_add_employee ends).
LEMMA FreeSuffixIsFree ==
    ASSUME NEW p, Len(account) \in Nat
    PROVE  FreeSuffix(p) \in 1 .. Len(account) + 1 /\ ~NameTaken(p, FreeSuffix(p))
<1> DEFINE n == Len(account)
           F == {k \in 1 .. n + 1 : ~NameTaken(p, k)}
<1>1. F # {}
  <2> SUFFICES ASSUME F = {} PROVE FALSE
    OBVIOUS
  <2> DEFINE f == [k \in 1 .. n + 1 |-> CHOOSE u \in 1 .. n : account[u].who = p /\ account[u].suffix = k]
  <2>1. \A k \in 1 .. n + 1 : \E u \in 1 .. n : account[u].who = p /\ account[u].suffix = k
    BY DEF NameTaken, Accounts
  <2>2. \A k \in 1 .. n + 1 : f[k] \in 1 .. n /\ account[f[k]].suffix = k
    BY <2>1
  <2>3. f \in [1 .. n + 1 -> 1 .. n]
    BY <2>2
  <2>4. /\ IsFiniteSet(1 .. n) /\ IsFiniteSet(1 .. n + 1)
        /\ Cardinality(1 .. n) < Cardinality(1 .. n + 1)
    <3> HIDE DEF n, f
    <3>1. n \in Nat
      BY DEF n
    <3>2. 1 \in Int /\ n \in Int /\ n + 1 \in Int
      BY <3>1
    <3>3. IsFiniteSet(1 .. n) /\ IsFiniteSet(1 .. n + 1)
      BY <3>2, FS_Interval
    <3>4. Cardinality(1 .. n) = n
      BY <3>1, <3>2, FS_Interval
    <3>5. Cardinality(1 .. n + 1) = n + 1
      BY <3>1, <3>2, FS_Interval
    <3> QED BY <3>1, <3>3, <3>4, <3>5
  <2> DEFINE S == 1 .. n + 1
             T == 1 .. n
  <2> HIDE DEF f
  <2>5. \E x, y \in S : x # y /\ f[x] = f[y]
    <3>1. f \in [S -> T] /\ IsFiniteSet(S) /\ IsFiniteSet(T) /\ Cardinality(T) < Cardinality(S)
      BY <2>3, <2>4
    <3> HIDE DEF S, T
    <3> QED BY <3>1, FS_PigeonHole
  <2> QED BY <2>2, <2>5
<1>2. PICK m \in F : \A k \in F : m <= k
  <2>1. F \in SUBSET Nat
    OBVIOUS
  <2> HIDE DEF F
  <2> QED BY <1>1, <2>1, Smallest
<1>3. \A k \in 1 .. m - 1 : NameTaken(p, k)
  BY <1>2
<1> QED BY <1>2, <1>3 DEF FreeSuffix

LEMMA Few ==
    /\ \A S \in SUBSET Threads : IsFiniteSet(S) /\ Cardinality(S) \in Nat
    /\ \A S \in SUBSET Calls : IsFiniteSet(S) /\ Cardinality(S) \in Nat
BY StaffConstants, FS_Subset, FS_CardinalityType

LEMMA Fewer ==
    ASSUME NEW S, IsFiniteSet(S), NEW T \in SUBSET S
    PROVE  Cardinality(T) <= Cardinality(S)
BY FS_Subset

LEMMA OneMore ==
    ASSUME NEW S, IsFiniteSet(S), NEW x, NEW T \in SUBSET (S \cup {x})
    PROVE  Cardinality(T) <= Cardinality(S) + 1
<1>1. Cardinality(S) \in Nat
  BY FS_CardinalityType
<1>4. IsFiniteSet(S \cup {x})
  BY <1>1, FS_AddElement
<1>2. Cardinality(S \cup {x}) <= Cardinality(S) + 1
  <2>1. Cardinality(S \cup {x}) = IF x \in S THEN Cardinality(S) ELSE Cardinality(S) + 1
    BY ONLY IsFiniteSet(S), FS_AddElement
  <2> QED BY <1>1, <2>1
<1>3. IsFiniteSet(T) /\ Cardinality(T) <= Cardinality(S \cup {x})
  BY <1>4, FS_Subset
<1>5. Cardinality(T) \in Nat /\ Cardinality(S \cup {x}) \in Nat
  BY <1>3, <1>4, FS_CardinalityType
<1> QED BY <1>1, <1>2, <1>3, <1>5

LEMMA OneLess ==
    ASSUME NEW S, IsFiniteSet(S), NEW x \in S, NEW T \in SUBSET (S \ {x})
    PROVE  Cardinality(T) + 1 <= Cardinality(S)
<1>1. Cardinality(S) \in Nat
  BY FS_CardinalityType
<1>4. IsFiniteSet(S \ {x})
  BY <1>1, FS_RemoveElement
<1>2. Cardinality(S \ {x}) = Cardinality(S) - 1
  BY <1>1, FS_RemoveElement
<1>3. IsFiniteSet(T) /\ Cardinality(T) <= Cardinality(S \ {x})
  BY <1>4, FS_Subset
<1>5. Cardinality(T) \in Nat
  BY <1>3, FS_CardinalityType
<1> QED BY <1>1, <1>2, <1>3, <1>5

LEMMA Appended ==
    ASSUME NEW X, NEW s \in Seq(X), NEW x \in X
    PROVE  /\ Append(s, x) \in Seq(X) /\ Len(Append(s, x)) = Len(s) + 1 /\ Len(s) \in Nat
           /\ \A i \in 1 .. Len(s) : Append(s, x)[i] = s[i]
           /\ Append(s, x)[Len(s) + 1] = x
OBVIOUS

LEMMA Replaced ==
    ASSUME NEW X, NEW s \in Seq(X), NEW x \in X, NEW k \in 1 .. Len(s)
    PROVE  /\ [s EXCEPT ![k] = x] \in Seq(X) /\ Len([s EXCEPT ![k] = x]) = Len(s)
           /\ [s EXCEPT ![k] = x][k] = x
           /\ \A i \in 1 .. Len(s) : i # k => [s EXCEPT ![k] = x][i] = s[i]
OBVIOUS
-----------------------------------------------------------------------------
(* Parts of the invariant that a step leaves alone.                        *)

AccountRoom == Len(account) + Cardinality(Hiring) + Cardinality(Calling) <= MaxAccounts
ShiftRoom == Len(shift) + Cardinality(ClockingIn) <= MaxShifts

LEMMA Counts ==
    /\ IsFiniteSet(Hiring) /\ IsFiniteSet(Calling) /\ IsFiniteSet(ClockingIn)
    /\ Cardinality(Hiring) \in Nat /\ Cardinality(Calling) \in Nat /\ Cardinality(ClockingIn) \in Nat
    /\ Cardinality(Hiring') \in Nat /\ Cardinality(Calling') \in Nat /\ Cardinality(ClockingIn') \in Nat
<1>1. Hiring \in SUBSET Threads /\ Calling \in SUBSET Calls /\ ClockingIn \in SUBSET Threads
  BY DEF Hiring, Calling, ClockingIn
<1>2. Hiring' \in SUBSET Threads /\ Calling' \in SUBSET Calls /\ ClockingIn' \in SUBSET Threads
  BY DEF Hiring, Calling, ClockingIn
<1> QED BY <1>1, <1>2, Few

LEMMA Lengths == ASSUME TypeOK PROVE Len(account) \in Nat /\ Len(shift) \in Nat
BY DEF TypeOK

\* Fewer requests under way leave as much room.
LEMMA AccountRoomKept ==
    ASSUME IInv, Len(account') = Len(account), Hiring' \subseteq Hiring, Calling' \subseteq Calling
    PROVE  AccountRoom'
<1>1. Cardinality(Hiring') <= Cardinality(Hiring) /\ Cardinality(Calling') <= Cardinality(Calling)
  BY Counts, Fewer
<1>2. Len(account) + Cardinality(Hiring) + Cardinality(Calling) <= MaxAccounts
  BY DEF IInv, RoomIsKept
<1>3. Len(account) \in Nat
  BY Lengths DEF IInv
<1> QED BY <1>1, <1>2, <1>3, Counts, StaffConstants DEF AccountRoom

LEMMA ShiftRoomKept ==
    ASSUME IInv, Len(shift') = Len(shift), ClockingIn' \subseteq ClockingIn
    PROVE  ShiftRoom'
<1>1. Cardinality(ClockingIn') <= Cardinality(ClockingIn)
  BY Counts, Fewer
<1>2. Len(shift) + Cardinality(ClockingIn) <= MaxShifts
  BY DEF IInv, RoomIsKept
<1>3. Len(shift) \in Nat
  BY Lengths DEF IInv
<1> QED BY <1>1, <1>2, <1>3, Counts, StaffConstants DEF ShiftRoom

LEMMA RoomOK == ASSUME AccountRoom', ShiftRoom' PROVE RoomIsKept'
BY DEF AccountRoom, ShiftRoom, RoomIsKept

\* A step of the clocks: threads that hire go on as they were.
SameHires ==
    \A t \in Threads : (job[t].at \in {"hiring", "linking"} \/ job'[t].at \in {"hiring", "linking"})
        => job'[t].at = job[t].at /\ job'[t].who = job[t].who /\ job'[t].id = job[t].id

LEMMA HiresStay ==
    ASSUME IInv, UNCHANGED <<account, call, wish, lost, broken>>, SameHires
    PROVE  /\ OneRequestAsks' /\ NamesAreUnique' /\ LinkedOrBroken' /\ HiresAreKnown'
           /\ AccountRoom'
<1>1. /\ \A p : Forms(p)' = Forms(p) /\ Waiting(p)' = Waiting(p) /\ Theirs(p)' = Theirs(p)
      /\ Hiring' = Hiring /\ Calling' = Calling
  BY DEF SameHires, Forms, Waiting, Theirs, Accounts, Hiring, Calling
<1>2. OneRequestAsks'
  BY <1>1 DEF IInv, OneRequestAsks
<1>3. NamesAreUnique'
  BY DEF IInv, NamesAreUnique, Accounts
<1>4. LinkedOrBroken'
  BY DEF IInv, LinkedOrBroken, Accounts, SameHires
<1>5. \A u : (\E t \in Threads : job[t].at = "linking" /\ job[t].id = u)
             => (\E t \in Threads : job'[t].at = "linking" /\ job'[t].id = u)
  BY DEF SameHires
<1>6. HiresAreKnown'
  BY <1>1, <1>5 DEF IInv, HiresAreKnown
<1>7. AccountRoom'
  BY <1>1, AccountRoomKept
<1> QED BY <1>2, <1>3, <1>4, <1>6, <1>7

\* A step of a hire: clock-ins go on as they were, or break off.
SameClockIns == \A t \in ClockingIn' : job'[t] = job[t]

\* Accounts are there to stay, and nobody else is taken off the staff.
StaffStays ==
    /\ Len(account') \in Nat /\ Len(account') >= Len(account)
    /\ \A u \in Accounts : account'[u].link = account[u].link \/ account'[u].link = "active"

LEMMA ShiftsStay ==
    ASSUME IInv, UNCHANGED shift, SameClockIns, StaffStays
    PROVE  /\ ClockInsAreMarked' /\ OpenShiftsAreExplained' /\ ShiftRoom'
           /\ \A s \in Shifts' : shift'[s].user \in Accounts'
<1>1. ClockingIn' \subseteq ClockingIn
  BY DEF SameClockIns, ClockingIn
<1>2. \A u : OpenShifts(u)' = OpenShifts(u)
  BY DEF OpenShifts, Shifts
<1>3. \A t \in ClockingIn : job[t].id \in Accounts
  BY DEF IInv, ThreadsAreWhole, ClockingIn
<1>4. \A s \in Shifts : shift[s].user \in Accounts
  BY DEF IInv, TypeOK
<1>5. ClockInsAreMarked'
  <2> SUFFICES ASSUME NEW t \in ClockingIn'
               PROVE  /\ account'[job'[t].id].link = "active" \/ "removed" \in job'[t].notes
                      /\ job'[t].at = "looked" =>
                            OpenShifts(job[t].id)' = {} \/ "raced" \in job'[t].notes
    BY DEF ClockInsAreMarked
  <2>1. job'[t] = job[t] /\ t \in ClockingIn
    BY <1>1 DEF SameClockIns
  <2>2. PICK u \in Accounts : u = job[t].id
    BY <1>3, <2>1
  <2>3. /\ account[u].link = "active" \/ "removed" \in job[t].notes
        /\ job[t].at = "looked" => OpenShifts(u) = {} \/ "raced" \in job[t].notes
    BY <2>1, <2>2 DEF IInv, ClockInsAreMarked
  <2>4. OpenShifts(job[t].id)' = OpenShifts(u)
    BY <2>1, <2>2 DEF OpenShifts, Shifts
  <2> QED BY <2>1, <2>2, <2>3, <2>4 DEF StaffStays
<1>6. OnShiftAreStaff'
  BY <1>4 DEF IInv, OpenShiftsAreExplained, OnShiftAreStaff, Shifts, StaffStays
<1>7. SecondShiftsRaced'
  BY DEF IInv, OpenShiftsAreExplained, SecondShiftsRaced, Shifts
<1>8. ShiftRoom'
  BY <1>1, ShiftRoomKept
<1>9. \A s \in Shifts' : shift'[s].user \in Accounts'
  <2>1. Accounts \subseteq Accounts'
    BY Lengths DEF IInv, StaffStays, Accounts
  <2> QED BY <1>4, <2>1 DEF Shifts
<1> QED BY <1>5, <1>6, <1>7, <1>8, <1>9 DEF OpenShiftsAreExplained

LEMMA ServerStays ==
    ASSUME IInv, UNCHANGED <<hr, call>>, Len(shift') \in Nat, Len(shift') >= Len(shift)
    PROVE  ServerIsWhole'
<1>1. Shifts \subseteq Shifts' /\ Calling' = Calling
  BY Lengths DEF IInv, Shifts, Calling
<1> QED BY <1>1 DEF IInv, ServerIsWhole

\* The requests of a person come and go one at a time.
LEMMA AskersShrink ==
    ASSUME IInv,
           \A p \in People : /\ Forms(p)' \subseteq Forms(p) /\ Waiting(p)' \subseteq Waiting(p)
                             /\ Forms(p)' \cup Waiting(p)' # {} => wish'[p] = wish[p]
    PROVE  OneRequestAsks'
BY DEF IInv, OneRequestAsks

LEMMA AskerEnds ==
    ASSUME IInv, NEW p \in People
    PROVE  /\ \A t \in Forms(p) : Forms(p) \ {t} = {} /\ Waiting(p) = {} /\ wish[p] = "asked"
           /\ \A c \in Waiting(p) : Waiting(p) \ {c} = {} /\ Forms(p) = {} /\ wish[p] = "asked"
BY DEF IInv, OneRequestAsks

\* One thread is linking an account.
LEMMA LinksDiffer ==
    ASSUME IInv, NEW t \in Threads, NEW r \in Threads,
           job[t].at = "linking", job[r].at = "linking", job[t].id = job[r].id
    PROVE  t = r
<1>1. PICK p \in People : p = job[t].who
  BY DEF IInv, ThreadsAreWhole
<1>2. job[r].who = p
  BY <1>1 DEF IInv, ThreadsAreWhole
<1> QED BY <1>1, <1>2 DEF IInv, OneRequestAsks, Forms

\* Accounts and their people stay: who is hired and who is not.
LEMMA HiresStayKnown ==
    ASSUME IInv, UNCHANGED broken, Len(account') = Len(account),
           \A u \in Accounts : /\ account'[u].who = account[u].who
                               /\ account[u].link # "none" => account'[u].link # "none",
           \A p \in People : wish'[p] = "hired" <=> wish[p] = "hired",
           lost \subseteq lost',
           \A t \in Threads : job[t].at = "linking" => job'[t] = job[t]
    PROVE  HiresAreKnown'
<1>1. \A p : Theirs(p)' = Theirs(p)
  BY DEF Theirs, Accounts
<1>2. \A p : \A u \in Theirs(p) : u \in Accounts
  BY DEF Theirs
<1> SUFFICES ASSUME NEW p \in People
             PROVE  /\ p \notin lost' => \A u, v \in Theirs(p) : u = v
                    /\ p \notin lost' => \A u \in Theirs(p) : \/ wish'[p] = "hired"
                            \/ \E t \in Threads : job'[t].at = "linking" /\ job'[t].id = u
                    /\ wish'[p] = "hired" => \E u \in Theirs(p) : account'[u].link # "none"
  BY <1>1 DEF HiresAreKnown
<1>3. /\ p \notin lost => \A u, v \in Theirs(p) : u = v
      /\ p \notin lost => \A u \in Theirs(p) :
                wish[p] = "hired" \/ \E t \in Threads : job[t].at = "linking" /\ job[t].id = u
      /\ wish[p] = "hired" => \E u \in Theirs(p) : account[u].link # "none"
  BY DEF IInv, HiresAreKnown
<1> QED BY <1>2, <1>3

LEMMA LinksStay ==
    ASSUME IInv, Len(account') = Len(account), broken \subseteq broken',
           \A u \in Accounts : account'[u].link = "none" => account[u].link = "none",
           \A t \in Threads : job[t].at = "linking" =>
                \/ job'[t] = job[t] \/ job[t].id \in broken' \/ account'[job[t].id].link # "none"
    PROVE  LinkedOrBroken'
<1> SUFFICES ASSUME NEW u \in Accounts, account'[u].link = "none"
             PROVE  u \in broken' \/ \E t \in Threads : job'[t].at = "linking" /\ job'[t].id = u
  BY DEF LinkedOrBroken, Accounts
<1>1. u \in broken \/ \E t \in Threads : job[t].at = "linking" /\ job[t].id = u
  BY DEF IInv, LinkedOrBroken
<1> QED BY <1>1

LEMMA NamesStay ==
    ASSUME IInv, Len(account') = Len(account),
           \A u \in Accounts : /\ account'[u].who = account[u].who
                               /\ account'[u].suffix = account[u].suffix
                               /\ account'[u].mail = account[u].mail
    PROVE  NamesAreUnique'
BY DEF IInv, NamesAreUnique, Accounts

-----------------------------------------------------------------------------
(* What the steps do to the tables and the threads.                        *)

LEMMA Idles ==
    /\ Idle \in Jobs /\ Idle.at = "idle" /\ NoCall \in CallRows /\ NoCall.who = Nobody
    /\ NoCall.waited = FALSE /\ NoRequest \in Requests /\ NoRequest.at = "idle"
BY StaffConstants DEF Idle, Jobs, NoCall, CallRows, NoRequest, Requests

LEMMA ThreadMoves ==
    ASSUME TypeOK, NEW t \in Threads, NEW j \in Jobs, job' = [job EXCEPT ![t] = j]
    PROVE  /\ job' \in [Threads -> Jobs] /\ job'[t] = j
           /\ \A r \in Threads : r # t => job'[r] = job[r]
BY DEF TypeOK

LEMMA ThreadReturns ==
    ASSUME TypeOK, NEW t \in Threads, Return(t)
    PROVE  /\ job' \in [Threads -> Jobs] /\ job'[t] = Idle
           /\ \A r \in Threads : r # t => job'[r] = job[r]
BY ThreadMoves, Idles DEF Return

LEMMA ThreadGoes ==
    ASSUME TypeOK, NEW t \in Threads,
           NEW at \in {"idle", "hiring", "linking", "admitted", "looked", "leaving"},
           NEW who \in People \cup {Nobody}, NEW id \in Nat, NEW notes \in SUBSET {"removed", "raced"},
           Goto(t, at, who, id, notes)
    PROVE  /\ job' \in [Threads -> Jobs]
           /\ job'[t].at = at /\ job'[t].who = who /\ job'[t].id = id /\ job'[t].notes = notes
           /\ \A r \in Threads : r # t => job'[r] = job[r]
<1> DEFINE j == [at |-> at, who |-> who, id |-> id, notes |-> notes]
<1>1. j \in Jobs /\ j.at = at /\ j.who = who /\ j.id = id /\ j.notes = notes
  BY DEF Jobs
<1>2. job' = [job EXCEPT ![t] = j]
  BY DEF Goto
<1> HIDE DEF j
<1> QED BY <1>1, <1>2, ThreadMoves

LEMMA WishMade ==
    ASSUME TypeOK, NEW p \in People, NEW w \in {"wanted", "asked", "hired"},
           wish' = [wish EXCEPT ![p] = w]
    PROVE  /\ wish' \in [People -> {"wanted", "asked", "hired"}] /\ wish'[p] = w
           /\ \A q \in People : q # p => wish'[q] = wish[q]
BY DEF TypeOK

LEMMA RowLinked ==
    ASSUME TypeOK, NEW u \in Accounts, NEW l \in {"active", "inactive"},
           account' = [account EXCEPT ![u].link = l]
    PROVE  /\ account' \in Seq(AccountRows) /\ Len(account') = Len(account) /\ Accounts' = Accounts
           /\ account'[u].link = l
           /\ \A v \in Accounts : /\ account'[v].who = account[v].who
                                  /\ account'[v].suffix = account[v].suffix
                                  /\ account'[v].mail = account[v].mail
                                  /\ v # u => account'[v] = account[v]
<1> DEFINE r == [account[u] EXCEPT !.link = l]
<1>1. account[u] \in AccountRows
  BY DEF TypeOK, Accounts
<1>2. /\ r \in AccountRows /\ r.link = l
      /\ r.who = account[u].who /\ r.suffix = account[u].suffix /\ r.mail = account[u].mail
  BY <1>1 DEF AccountRows
<1>3. account' = [account EXCEPT ![u] = r]
  BY DEF TypeOK, Accounts
<1>5. account \in Seq(AccountRows) /\ u \in 1 .. Len(account)
  BY DEF TypeOK, Accounts
<1> HIDE DEF r
<1>4. /\ account' \in Seq(AccountRows) /\ Len(account') = Len(account) /\ account'[u] = r
      /\ \A v \in 1 .. Len(account) : v # u => account'[v] = account[v]
  BY ONLY <1>2, <1>3, <1>5, Replaced
<1> QED BY <1>2, <1>4 DEF Accounts

\* A new account whose name and address are not taken.
LEMMA RowAdded ==
    ASSUME IInv, NEW p \in People, NEW n \in 1 .. MaxAccounts, NEW m \in {"own", "staff"},
           NEW l \in {"none", "active"}, account' = Append(account, NewAccount(p, n, m, l)),
           ~Rejects(p, n, m)
    PROVE  /\ account' \in Seq(AccountRows) /\ Len(account') = Len(account) + 1
           /\ Len(account) \in Nat /\ Len(account) + 1 \notin Accounts
           /\ Accounts' = Accounts \cup {Len(account) + 1}
           /\ \A v \in Accounts : account'[v] = account[v]
           /\ account'[Len(account) + 1].link = l /\ account'[Len(account) + 1].who = p
           /\ NamesAreUnique'
<1> DEFINE r == NewAccount(p, n, m, l)
<1>1. r \in AccountRows /\ r.who = p /\ r.suffix = n /\ r.mail = m /\ r.link = l
  BY DEF NewAccount, AccountRows
<1>2. account' = Append(account, r) /\ account \in Seq(AccountRows)
  BY DEF IInv, TypeOK
<1> HIDE DEF r
<1>3. /\ account' \in Seq(AccountRows) /\ Len(account') = Len(account) + 1
      /\ Len(account) \in Nat /\ account'[Len(account) + 1] = r
      /\ \A v \in 1 .. Len(account) : account'[v] = account[v]
  BY <1>1, <1>2, Appended
<1>4. Accounts' = Accounts \cup {Len(account) + 1} /\ Len(account) + 1 \notin Accounts
  BY <1>3 DEF Accounts
<1>5. NamesAreUnique'
  <2> SUFFICES ASSUME NEW u \in Accounts', NEW v \in Accounts', u # v, account'[u].who = account'[v].who
               PROVE  /\ account'[u].suffix # account'[v].suffix
                      /\ ~(account'[u].mail = "own" /\ account'[v].mail = "own")
    BY DEF NamesAreUnique
  <2>1. CASE u \in Accounts /\ v \in Accounts
    BY <1>3, <2>1 DEF IInv, NamesAreUnique, Accounts
  <2>2. \A w \in Accounts : account[w].who = p =>
            account[w].suffix # n /\ ~(account[w].mail = "own" /\ m = "own")
    BY DEF Rejects, NameTaken, OwnMailTaken
  <2>3. CASE u = Len(account) + 1
    BY <1>1, <1>3, <1>4, <2>2, <2>3 DEF Accounts
  <2>4. CASE v = Len(account) + 1
    BY <1>1, <1>3, <1>4, <2>2, <2>4 DEF Accounts
  <2> QED BY <1>4, <2>1, <2>3, <2>4
<1>6. \A v \in Accounts : account'[v] = account[v]
  BY <1>3 DEF Accounts
<1> QED BY <1>1, <1>3, <1>4, <1>5, <1>6

-----------------------------------------------------------------------------
(* Hiring with the form.                                                   *)

LEMMA FormChecksKeeps ==
    ASSUME IInv, NEW t \in Threads, NEW p \in People, FormChecks(t, p)
    PROVE  IInv'
<1>1. /\ job[t] = Idle /\ wish[p] = "wanted" /\ Room
      /\ UNCHANGED <<account, shift, hr, call, lost, broken, faults>>
      /\ TypeOK
  BY DEF FormChecks, IInv
<1>2. /\ job' \in [Threads -> Jobs]
      /\ job'[t].at = "hiring" /\ job'[t].who = p /\ job'[t].id = 0 /\ job'[t].notes = {}
      /\ \A r \in Threads : r # t => job'[r] = job[r]
  BY <1>1, ThreadGoes DEF FormChecks
<1>3. /\ wish' \in [People -> {"wanted", "asked", "hired"}] /\ wish'[p] = "asked"
      /\ \A q \in People : q # p => wish'[q] = wish[q]
  BY <1>1, WishMade DEF FormChecks, Waits
<1>4. job[t].at = "idle"
  BY <1>1, Idles
<1>5. TypeOK'
  BY <1>1, <1>2, <1>3 DEF TypeOK, Accounts, Shifts
<1>6. ThreadsAreWhole'
  BY <1>1, <1>2 DEF IInv, ThreadsAreWhole, Accounts, Shifts
<1>7. ServerIsWhole'
  BY <1>1, Lengths, ServerStays
<1>8. AccountRoom'
  <2>1. Hiring' \subseteq Hiring \cup {t} /\ Calling' = Calling
    BY <1>1, <1>2 DEF Hiring, Calling
  <2>2. Cardinality(Hiring') <= Cardinality(Hiring) + 1
    BY <2>1, Counts, OneMore
  <2>3. Len(account) + Cardinality(Hiring) + Cardinality(Calling) < MaxAccounts
    BY <1>1 DEF Room
  <2>4. Len(account) \in Nat
    BY <1>1, Lengths
  <2> QED BY <1>1, <2>1, <2>2, <2>3, <2>4, Counts, StaffConstants DEF AccountRoom
<1>9. OneRequestAsks'
  <2>1. Forms(p) = {} /\ Waiting(p) = {}
    BY <1>1 DEF IInv, OneRequestAsks
  <2>2. Forms(p)' = {t}
    BY <1>2, <2>1 DEF Forms
  <2>3. \A q \in People : Waiting(q)' = Waiting(q) /\ (q # p => Forms(q)' = Forms(q))
    BY <1>1, <1>2, <1>4 DEF Waiting, Forms
  <2> QED BY <1>3, <2>1, <2>2, <2>3 DEF IInv, OneRequestAsks
<1>10. \A r \in Threads : job[r].at = "linking" => job'[r] = job[r]
  BY <1>2, <1>4
<1>11. NamesAreUnique' /\ LinkedOrBroken'
  BY <1>1, <1>10, NamesStay, LinksStay
<1>12. StaffStays /\ SameClockIns
  BY <1>1, <1>2, Lengths DEF StaffStays, SameClockIns, ClockingIn
<1>13. ClockInsAreMarked' /\ OpenShiftsAreExplained' /\ ShiftRoom'
  BY <1>1, <1>12, ShiftsStay
<1>14. HiresAreKnown'
  BY <1>1, <1>3, <1>10, HiresStayKnown
<1> QED BY <1>5, <1>6, <1>7, <1>8, <1>9, <1>11, <1>13, <1>14, RoomOK DEF IInv

\* The parts that depend on the threads' clock-ins and on the server only,
\* when a thread that hires goes on.
LEMMA HireGoesOn ==
    ASSUME IInv, NEW t \in Threads, job[t].at \in {"hiring", "linking"},
           job' \in [Threads -> Jobs], job'[t].at \in {"idle", "linking"},
           \A r \in Threads : r # t => job'[r] = job[r],
           StaffStays, UNCHANGED <<shift, hr, call>>
    PROVE  /\ ClockInsAreMarked' /\ OpenShiftsAreExplained' /\ ShiftRoom' /\ ServerIsWhole'
           /\ \A s \in Shifts' : shift'[s].user \in Accounts'
<1>1. SameClockIns
  BY DEF SameClockIns, ClockingIn
<1>2. Len(shift') \in Nat /\ Len(shift') >= Len(shift)
  BY Lengths DEF IInv
<1> QED BY <1>1, <1>2, ShiftsStay, ServerStays

\* The request of a thread that hires is over.
LEMMA FormEnds ==
    ASSUME IInv, NEW t \in Threads, NEW p \in People, t \in Forms(p),
           job' \in [Threads -> Jobs], job'[t] = Idle,
           \A r \in Threads : r # t => job'[r] = job[r],
           UNCHANGED call, \A q \in People : q # p => wish'[q] = wish[q]
    PROVE  OneRequestAsks' /\ wish[p] = "asked"
<1>1. Forms(p) \ {t} = {} /\ Waiting(p) = {} /\ wish[p] = "asked"
  BY AskerEnds
<1>2. /\ \A q \in People : Forms(q)' \subseteq Forms(q) \ {t} /\ Waiting(q)' = Waiting(q)
  BY Idles DEF Forms, Waiting
<1>3. \A q \in People : Forms(q)' \cup Waiting(q)' # {} => wish'[q] = wish[q]
  BY <1>1, <1>2
<1> QED BY <1>1, <1>2, <1>3, AskersShrink

LEMMA FormAddsUserKeeps ==
    ASSUME IInv, NEW t \in Threads, FormAddsUser(t)
    PROVE  IInv'
<1>1. /\ job[t].at = "hiring" /\ UNCHANGED <<shift, hr, call, lost, broken, faults>> /\ TypeOK
  BY DEF FormAddsUser, IInv
<1>2. PICK p \in People : p = job[t].who
  BY <1>1 DEF IInv, ThreadsAreWhole
<1>3. t \in Forms(p) /\ t \in Hiring
  BY <1>1, <1>2 DEF Forms, Hiring
<1>4. Calling' = Calling /\ \A q : Waiting(q)' = Waiting(q)
  BY <1>1 DEF Calling, Waiting
<1>5. Len(account) \in Nat /\ Len(shift) \in Nat
  BY <1>1, Lengths
<1>6. CASE Rejects(p, 1, "own") /\ Return(t) /\ Wanted(p) /\ UNCHANGED account
  <2>1. /\ job' \in [Threads -> Jobs] /\ job'[t] = Idle
        /\ \A r \in Threads : r # t => job'[r] = job[r]
    BY <1>1, <1>6, ThreadReturns
  <2>2. /\ wish' \in [People -> {"wanted", "asked", "hired"}] /\ wish'[p] = "wanted"
        /\ \A q \in People : q # p => wish'[q] = wish[q]
    BY <1>1, <1>6, WishMade DEF Wanted
  <2>3. TypeOK'
    BY <1>1, <1>6, <2>1, <2>2 DEF TypeOK, Accounts, Shifts
  <2>4. ThreadsAreWhole'
    BY <1>1, <1>6, <2>1 DEF IInv, ThreadsAreWhole, Accounts, Shifts, Idle
  <2>5. StaffStays
    BY <1>5, <1>6 DEF StaffStays
  <2>6. ClockInsAreMarked' /\ OpenShiftsAreExplained' /\ ShiftRoom' /\ ServerIsWhole'
    BY <1>1, <2>1, <2>5, Idles, HireGoesOn
  <2>7. AccountRoom'
    <3>1. Hiring' \subseteq Hiring
      BY <2>1, Idles DEF Hiring
    <3> QED BY <1>4, <1>6, <3>1, AccountRoomKept
  <2>8. OneRequestAsks' /\ wish[p] = "asked"
    BY <1>1, <1>3, <2>1, <2>2, FormEnds
  <2>9. \A r \in Threads : job[r].at = "linking" => job'[r] = job[r]
    BY <1>1, <2>1
  <2>10. NamesAreUnique' /\ LinkedOrBroken'
    BY <1>1, <1>6, <2>9, NamesStay, LinksStay
  <2>11. HiresAreKnown'
    BY <1>1, <1>6, <2>2, <2>8, <2>9, HiresStayKnown
  <2> QED BY <2>3, <2>4, <2>6, <2>7, <2>8, <2>10, <2>11, RoomOK DEF IInv
<1>7. CASE /\ ~Rejects(p, 1, "own") /\ account' = Append(account, NewAccount(p, 1, "own", "none"))
           /\ Goto(t, "linking", p, Len(account) + 1, {}) /\ UNCHANGED wish
  <2> DEFINE u == Len(account) + 1
  <2>1. /\ job' \in [Threads -> Jobs]
        /\ job'[t].at = "linking" /\ job'[t].who = p /\ job'[t].id = u /\ job'[t].notes = {}
        /\ \A r \in Threads : r # t => job'[r] = job[r]
    BY <1>1, <1>5, <1>7, ThreadGoes
  <2>2. AccountRoom' /\ 1 \in 1 .. MaxAccounts
    <3>1. Hiring' \subseteq Hiring \ {t}
      BY <2>1 DEF Hiring
    <3>2. Cardinality(Hiring') + 1 <= Cardinality(Hiring)
      BY <1>3, <3>1, Counts, OneLess
    <3>3. Len(account) + Cardinality(Hiring) + Cardinality(Calling) <= MaxAccounts
      BY DEF IInv, RoomIsKept
    <3>4. Len(account') = Len(account) + 1
      BY <1>1, <1>7, Appended DEF TypeOK, NewAccount
    <3>5. Len(account) + 1 + Cardinality(Hiring') + Cardinality(Calling') <= MaxAccounts
      BY <1>4, <1>5, <3>2, <3>3, Counts, StaffConstants
    <3>6. 1 <= MaxAccounts
      BY <1>5, <3>5, Counts, StaffConstants
    <3> QED BY <3>4, <3>5, <3>6, StaffConstants DEF AccountRoom
  <2>3. /\ account' \in Seq(AccountRows) /\ Len(account') = Len(account) + 1
        /\ u \notin Accounts /\ Accounts' = Accounts \cup {u}
        /\ \A v \in Accounts : account'[v] = account[v]
        /\ account'[u].link = "none" /\ account'[u].who = p
        /\ NamesAreUnique'
    BY <1>7, <2>2, RowAdded
  <2> HIDE DEF u
  <2>4. broken \subseteq Accounts
    BY <1>1 DEF TypeOK
  <2>5. StaffStays
    BY <1>5, <2>3 DEF StaffStays
  <2>6. /\ ClockInsAreMarked' /\ OpenShiftsAreExplained' /\ ShiftRoom' /\ ServerIsWhole'
        /\ \A s \in Shifts' : shift'[s].user \in Accounts'
    BY <1>1, <2>1, <2>5, HireGoesOn
  <2>7. TypeOK'
    BY <1>1, <1>7, <2>1, <2>3, <2>4, <2>6 DEF TypeOK
  <2>8. ThreadsAreWhole'
    <3> SUFFICES ASSUME NEW r \in Threads
                 PROVE  /\ job'[r].at = "idle" => job'[r] = Idle
                        /\ job'[r].at \in {"hiring", "linking"} => job'[r].who \in People
                        /\ job'[r].at \in {"linking", "admitted", "looked"} => job'[r].id \in Accounts'
                        /\ job'[r].at = "linking" => /\ account'[job'[r].id].who = job'[r].who
                                                     /\ account'[job'[r].id].link = "none"
                                                     /\ job'[r].id \notin broken
                        /\ job'[r].at = "leaving" => job'[r].id \in Shifts
      BY <1>1 DEF ThreadsAreWhole, Shifts
    <3>1. CASE r = t
      BY <2>1, <2>3, <2>4, <3>1
    <3>2. CASE r # t
      BY <2>1, <2>3, <3>2 DEF IInv, ThreadsAreWhole
    <3> QED BY <3>1, <3>2
  <2>9. \A q \in People : Forms(q)' = Forms(q)
    BY <1>1, <1>2, <2>1 DEF Forms
  <2>10. OneRequestAsks'
    BY <1>4, <1>7, <2>9 DEF IInv, OneRequestAsks
  <2>11. LinkedOrBroken'
    <3> SUFFICES ASSUME NEW v \in Accounts', account'[v].link = "none"
                 PROVE  v \in broken \/ \E r \in Threads : job'[r].at = "linking" /\ job'[r].id = v
      BY <1>1 DEF LinkedOrBroken
    <3>1. CASE v = u
      BY <2>1, <3>1
    <3>2. CASE v \in Accounts
      BY <1>1, <2>1, <2>3, <3>2 DEF IInv, LinkedOrBroken
    <3> QED BY <2>3, <3>1, <3>2
  <2>12. HiresAreKnown'
    <3>1. \A q : q # p => Theirs(q)' = Theirs(q)
      BY <1>1, <2>3 DEF Theirs
    <3>2. Theirs(p)' = Theirs(p) \cup {u}
      BY <1>1, <2>3, <2>4 DEF Theirs
    <3>3. wish[p] = "asked"
      BY <1>3, AskerEnds
    <3>4. p \in lost \/ Theirs(p) = {}
      <4> SUFFICES ASSUME p \notin lost, NEW v \in Theirs(p) PROVE FALSE
        OBVIOUS
      <4>1. PICK r \in Threads : job[r].at = "linking" /\ job[r].id = v
        BY <3>3 DEF IInv, HiresAreKnown
      <4>2. r \in Forms(p)
        BY <4>1 DEF IInv, ThreadsAreWhole, Forms, Theirs
      <4> QED BY <1>1, <1>3, <4>1, <4>2 DEF IInv, OneRequestAsks
    <3>5. \A q : \A v \in Theirs(q) : account'[v] = account[v]
      BY <2>3 DEF Theirs
    <3>6. \A r \in Threads : job[r].at = "linking" => job'[r] = job[r]
      BY <1>1, <2>1
    <3> SUFFICES ASSUME NEW q \in People
                 PROVE  /\ q \notin lost => \A v, w \in Theirs(q)' : v = w
                        /\ q \notin lost => \A v \in Theirs(q)' : \/ wish[q] = "hired"
                                \/ \E r \in Threads : job'[r].at = "linking" /\ job'[r].id = v
                        /\ wish[q] = "hired" => \E v \in Theirs(q)' : account'[v].link # "none"
      BY <1>1, <1>7 DEF HiresAreKnown
    <3>7. CASE q = p
      BY <2>1, <3>2, <3>3, <3>4, <3>7
    <3>8. CASE q # p
      BY <3>1, <3>5, <3>6, <3>8 DEF IInv, HiresAreKnown
    <3> QED BY <3>7, <3>8
  <2> QED BY <2>2, <2>3, <2>6, <2>7, <2>8, <2>10, <2>11, <2>12, RoomOK DEF IInv
<1> QED BY <1>2, <1>6, <1>7 DEF FormAddsUser

\* The link is there, whether the owner hears of it or not.
LEMMA LinkingEnds ==
    ASSUME IInv, NEW t \in Threads, job[t].at = "linking", Linked(t), Return(t),
           NEW p \in People, p = job[t].who, NEW w \in {"wanted", "hired"},
           wish' = [wish EXCEPT ![p] = w], lost' \in {lost, lost \cup {p}},
           w = "wanted" => p \in lost', faults' \in 0 .. MaxFaults,
           UNCHANGED <<shift, hr, call, broken>>
    PROVE  IInv'
<1>1. TypeOK
  BY DEF IInv
<1>2. PICK u \in Accounts : u = job[t].id
  BY DEF IInv, ThreadsAreWhole
<1>3. account[u].who = p /\ account[u].link = "none" /\ u \notin broken /\ t \in Forms(p)
  BY <1>2 DEF IInv, ThreadsAreWhole, Forms
<1>4. /\ job' \in [Threads -> Jobs] /\ job'[t] = Idle
      /\ \A r \in Threads : r # t => job'[r] = job[r]
  BY <1>1, ThreadReturns
<1>5. /\ wish' \in [People -> {"wanted", "asked", "hired"}] /\ wish'[p] = w
      /\ \A q \in People : q # p => wish'[q] = wish[q]
  BY <1>1, WishMade
<1>6. /\ account' \in Seq(AccountRows) /\ Len(account') = Len(account) /\ Accounts' = Accounts
      /\ account'[u].link = "active"
      /\ \A v \in Accounts : /\ account'[v].who = account[v].who
                             /\ account'[v].suffix = account[v].suffix
                             /\ account'[v].mail = account[v].mail
                             /\ v # u => account'[v] = account[v]
  BY <1>1, <1>2, RowLinked DEF Linked
<1>7. TypeOK'
  BY <1>1, <1>4, <1>5, <1>6 DEF TypeOK, Shifts
<1>8. ThreadsAreWhole'
  <2> SUFFICES ASSUME NEW r \in Threads, r # t, job[r].at = "linking" PROVE job[r].id # u
    BY <1>4, <1>6, Idles DEF IInv, ThreadsAreWhole, Shifts
  <2> QED BY <1>2, LinksDiffer
<1>9. StaffStays
  BY <1>1, <1>6, Lengths DEF StaffStays
<1>10. ClockInsAreMarked' /\ OpenShiftsAreExplained' /\ ShiftRoom' /\ ServerIsWhole'
  BY <1>4, <1>9, Idles, HireGoesOn
<1>11. AccountRoom'
  <2>1. Hiring' \subseteq Hiring /\ Calling' = Calling
    BY <1>4, Idles DEF Hiring, Calling
  <2> QED BY <1>6, <2>1, AccountRoomKept
<1>12. OneRequestAsks' /\ wish[p] = "asked"
  BY <1>3, <1>4, <1>5, FormEnds
<1>13. NamesAreUnique'
  BY <1>6, NamesStay
<1>14. LinkedOrBroken'
  <2>1. \A v \in Accounts : account'[v].link = "none" => account[v].link = "none"
    BY <1>6
  <2>2. \A r \in Threads : job[r].at = "linking" =>
            job'[r] = job[r] \/ account'[job[r].id].link # "none"
    BY <1>2, <1>4, <1>6
  <2> QED BY <1>6, <2>1, <2>2, LinksStay
<1>15. HiresAreKnown'
  <2>1. \A q : Theirs(q)' = Theirs(q)
    BY <1>6 DEF Theirs
  <2>2. u \in Theirs(p)
    BY <1>3 DEF Theirs
  <2> SUFFICES ASSUME NEW q \in People
               PROVE  /\ q \notin lost' => \A v, x \in Theirs(q) : v = x
                      /\ q \notin lost' => \A v \in Theirs(q) : \/ wish'[q] = "hired"
                              \/ \E r \in Threads : job'[r].at = "linking" /\ job'[r].id = v
                      /\ wish'[q] = "hired" => \E v \in Theirs(q) : account'[v].link # "none"
    BY <2>1 DEF HiresAreKnown
  <2>3. CASE q = p
    BY <1>5, <1>6, <2>2, <2>3 DEF IInv, HiresAreKnown
  <2>4. CASE q # p
    <3>1. \A v \in Theirs(q) : v # u /\ v \in Accounts
      BY <1>3, <2>4 DEF Theirs
    <3>2. \A r \in Threads : job[r].at = "linking" /\ job[r].id \in Theirs(q) => job'[r] = job[r]
      BY <1>2, <1>4, <3>1
    <3>3. wish'[q] = wish[q] /\ (q \notin lost' => q \notin lost)
      BY <1>5, <2>4
    <3>4. \A v \in Theirs(q) : account'[v] = account[v]
      BY <1>6, <3>1
    <3>5. /\ q \notin lost => \A v, x \in Theirs(q) : v = x
          /\ q \notin lost => \A v \in Theirs(q) : \/ wish[q] = "hired"
                  \/ \E r \in Threads : job[r].at = "linking" /\ job[r].id = v
          /\ wish[q] = "hired" => \E v \in Theirs(q) : account[v].link # "none"
      BY DEF IInv, HiresAreKnown
    <3> QED BY <3>2, <3>3, <3>4, <3>5
  <2> QED BY <2>3, <2>4
<1> QED BY <1>7, <1>8, <1>10, <1>11, <1>12, <1>13, <1>14, <1>15, RoomOK DEF IInv

LEMMA FormLinksKeeps ==
    ASSUME IInv, NEW t \in Threads, FormLinks(t) \/ FormAnswerLost(t)
    PROVE  IInv'
<1>1. job[t].at = "linking" /\ Linked(t) /\ Return(t) /\ UNCHANGED <<shift, hr, call, broken>>
  BY DEF FormLinks, FormAnswerLost
<1>2. PICK p \in People : p = job[t].who
  BY <1>1 DEF IInv, ThreadsAreWhole
<1>3. faults \in 0 .. MaxFaults
  BY DEF IInv, TypeOK
<1>4. CASE FormLinks(t)
  <2>1. wish' = [wish EXCEPT ![p] = "hired"] /\ lost' = lost /\ faults' \in 0 .. MaxFaults
    BY <1>2, <1>3, <1>4 DEF FormLinks, Hired
  <2> QED BY <1>1, <1>2, <2>1, LinkingEnds
<1>5. CASE FormAnswerLost(t)
  <2>1. wish' = [wish EXCEPT ![p] = "wanted"] /\ lost' = lost \cup {p} /\ faults' \in 0 .. MaxFaults
    BY <1>2, <1>3, <1>5, StaffConstants DEF FormAnswerLost, Wanted
  <2> QED BY <1>1, <1>2, <2>1, LinkingEnds
<1> QED BY <1>4, <1>5

LEMMA ThreadFailsKeeps ==
    ASSUME IInv, NEW t \in Threads, ThreadFails(t)
    PROVE  IInv'
<1>1. /\ TypeOK /\ job[t].at # "idle" /\ UNCHANGED <<account, shift, hr, call, lost>>
      /\ faults' \in 0 .. MaxFaults
  BY StaffConstants DEF ThreadFails, IInv, TypeOK, ThreadsAreWhole
<1>2. /\ job' \in [Threads -> Jobs] /\ job'[t] = Idle
      /\ \A r \in Threads : r # t => job'[r] = job[r]
  BY <1>1, ThreadReturns DEF ThreadFails
<1>3. Len(account) \in Nat /\ Len(shift) \in Nat
  BY <1>1, Lengths
<1>4. SameClockIns /\ StaffStays
  BY <1>1, <1>2, <1>3, Idles DEF SameClockIns, StaffStays, ClockingIn
<1>5. ClockInsAreMarked' /\ OpenShiftsAreExplained' /\ ShiftRoom' /\ ServerIsWhole'
  BY <1>1, <1>3, <1>4, ShiftsStay, ServerStays
<1>6. AccountRoom'
  <2>1. Hiring' \subseteq Hiring /\ Calling' = Calling
    BY <1>1, <1>2, Idles DEF Hiring, Calling
  <2> QED BY <1>1, <2>1, AccountRoomKept
<1>7. NamesAreUnique'
  BY <1>1, NamesStay
<1>8. CASE job[t].at \notin {"hiring", "linking"}
  <2>1. wish' = wish /\ broken' = broken
    BY <1>8 DEF ThreadFails
  <2>2. SameHires
    BY <1>2, <1>8, Idles DEF SameHires
  <2>3. OneRequestAsks' /\ NamesAreUnique' /\ LinkedOrBroken' /\ HiresAreKnown'
    BY <1>1, <2>1, <2>2, HiresStay
  <2>4. TypeOK'
    BY <1>1, <1>2, <2>1 DEF TypeOK, Accounts, Shifts
  <2>5. ThreadsAreWhole'
    BY <1>1, <1>2, <2>1, Idles DEF IInv, ThreadsAreWhole, Accounts, Shifts
  <2> QED BY <1>5, <1>6, <2>3, <2>4, <2>5, RoomOK DEF IInv
<1>9. CASE job[t].at \in {"hiring", "linking"}
  <2>1. PICK p \in People : p = job[t].who
    BY <1>9 DEF IInv, ThreadsAreWhole
  <2>2. /\ wish' \in [People -> {"wanted", "asked", "hired"}] /\ wish'[p] = "wanted"
        /\ \A q \in People : q # p => wish'[q] = wish[q]
    BY <1>1, <1>9, <2>1, WishMade DEF ThreadFails, Wanted
  <2>3. t \in Forms(p)
    BY <1>9, <2>1 DEF Forms
  <2>4. OneRequestAsks' /\ wish[p] = "asked"
    BY <1>1, <1>2, <2>2, <2>3, FormEnds
  <2>5. CASE job[t].at = "hiring"
    <3>1. broken' = broken
      BY <2>5 DEF ThreadFails
    <3>2. \A r \in Threads : job[r].at = "linking" => job'[r] = job[r]
      BY <1>2, <2>5
    <3>3. LinkedOrBroken' /\ HiresAreKnown'
      BY <1>1, <2>2, <2>4, <3>1, <3>2, LinksStay, HiresStayKnown
    <3>4. TypeOK'
      BY <1>1, <1>2, <2>2, <3>1 DEF TypeOK, Accounts, Shifts
    <3>5. ThreadsAreWhole'
      BY <1>1, <1>2, <3>1, Idles DEF IInv, ThreadsAreWhole, Accounts, Shifts
    <3> QED BY <1>5, <1>6, <1>7, <2>4, <3>3, <3>4, <3>5, RoomOK DEF IInv
  <2>6. CASE job[t].at = "linking"
    <3>1. PICK u \in Accounts : u = job[t].id
      BY <2>6 DEF IInv, ThreadsAreWhole
    <3>2. account[u].who = p /\ u \notin broken /\ broken' = broken \cup {u}
      BY <2>1, <2>6, <3>1 DEF IInv, ThreadsAreWhole, ThreadFails
    <3>3. LinkedOrBroken'
      <4>1. \A r \in Threads : job[r].at = "linking" => job'[r] = job[r] \/ job[r].id \in broken'
        BY <1>2, <3>1, <3>2
      <4> QED BY <1>1, <3>2, <4>1, LinksStay
    <3>4. TypeOK'
      BY <1>1, <1>2, <2>2, <3>2 DEF TypeOK, Accounts, Shifts
    <3>5. ThreadsAreWhole'
      <4> SUFFICES ASSUME NEW r \in Threads, r # t, job[r].at = "linking" PROVE job[r].id # u
        BY <1>1, <1>2, <3>2, Idles DEF IInv, ThreadsAreWhole, Accounts, Shifts
      <4> QED BY <2>6, <3>1, LinksDiffer
    <3>6. HiresAreKnown'
      <4>1. \A q \in People : q # p => Theirs(q)' = Theirs(q)
        BY <1>1, <3>2 DEF Theirs, Accounts
      <4>2. u \in Theirs(p) /\ Theirs(p)' = Theirs(p) \ {u}
        BY <1>1, <3>2 DEF Theirs, Accounts
      <4> SUFFICES ASSUME NEW q \in People
                   PROVE  /\ q \notin lost => \A v, x \in Theirs(q)' : v = x
                          /\ q \notin lost => \A v \in Theirs(q)' : \/ wish'[q] = "hired"
                                  \/ \E r \in Threads : job'[r].at = "linking" /\ job'[r].id = v
                          /\ wish'[q] = "hired" => \E v \in Theirs(q)' : account[v].link # "none"
        BY <1>1 DEF HiresAreKnown
      <4>3. CASE q = p
        BY <2>2, <4>2, <4>3 DEF IInv, HiresAreKnown
      <4>4. CASE q # p
        <5>1. u \notin Theirs(q)
          BY <3>2, <4>4 DEF Theirs
        <5>2. \A r \in Threads : job[r].at = "linking" /\ job[r].id \in Theirs(q) => job'[r] = job[r]
          BY <1>2, <3>1, <5>1
        <5> QED BY <2>2, <4>1, <4>4, <5>2 DEF IInv, HiresAreKnown
      <4> QED BY <4>3, <4>4
    <3> QED BY <1>5, <1>6, <1>7, <2>4, <3>3, <3>4, <3>5, <3>6, RoomOK DEF IInv
  <2> QED BY <1>9, <2>5, <2>6
<1> QED BY <1>8, <1>9

-----------------------------------------------------------------------------
(* Hiring by the agent.                                                    *)

\* A call leaves the threads and the shifts alone, and at most adds an account.
LEMMA CallGoesOn ==
    ASSUME IInv, UNCHANGED <<shift, job, broken>>,
           Len(account') \in Nat, Len(account') >= Len(account),
           \A u \in Accounts : account'[u] = account[u]
    PROVE  /\ ThreadsAreWhole' /\ ClockInsAreMarked' /\ OpenShiftsAreExplained' /\ ShiftRoom'
           /\ \A s \in Shifts' : shift'[s].user \in Accounts'
<1>1. Accounts \subseteq Accounts'
  BY Lengths DEF IInv, Accounts
<1>2. SameClockIns /\ StaffStays
  BY DEF SameClockIns, StaffStays
<1>3. ThreadsAreWhole'
  BY <1>1 DEF IInv, ThreadsAreWhole, Shifts
<1> QED BY <1>2, <1>3, ShiftsStay

LEMMA CallMade ==
    ASSUME TypeOK, NEW c \in Calls, NEW r \in CallRows, call' = [call EXCEPT ![c] = r]
    PROVE  /\ call' \in [Calls -> CallRows] /\ call'[c] = r
           /\ \A d \in Calls : d # c => call'[d] = call[d]
BY DEF TypeOK

LEMMA Callers == ASSUME IInv, NEW c \in Calling PROVE c \in Calls /\ call[c].who \in People
BY DEF IInv, ServerIsWhole, TypeOK, CallRows, Calling

\* The end of a call.
LEMMA CallOver ==
    ASSUME IInv, NEW c \in Calling, NEW p \in People, p = call[c].who,
           call' = [call EXCEPT ![c] = NoCall], hr' = NoRequest, UNCHANGED <<shift, job>>,
           \A q \in People : q # p => wish'[q] = wish[q],
           call[c].waited \/ wish' = wish
    PROVE  /\ call' \in [Calls -> CallRows] /\ hr' \in Requests
           /\ ServerIsWhole' /\ OneRequestAsks'
           /\ call[c].waited => wish[p] = "asked" /\ Forms(p) = {}
           /\ Cardinality(Calling') + 1 <= Cardinality(Calling) /\ Calling' \subseteq Calling
<1>1. TypeOK /\ c \in Calls
  BY Callers DEF IInv
<1>2. call' \in [Calls -> CallRows] /\ call'[c] = NoCall /\ \A d \in Calls : d # c => call'[d] = call[d]
  BY <1>1, Idles, CallMade
<1>3. hr' \in Requests /\ hr'.at = "idle"
  BY Idles
<1>4. ServerIsWhole'
  BY <1>2, <1>3 DEF IInv, ServerIsWhole
<1>5. Calling' \in SUBSET (Calling \ {c})
  BY <1>2 DEF Calling
<1>6. Cardinality(Calling') + 1 <= Cardinality(Calling)
  BY <1>5, Counts, OneLess
<1>7. call[c].waited => c \in Waiting(p)
  BY <1>1 DEF Waiting
<1>8. call[c].waited => wish[p] = "asked" /\ Forms(p) = {} /\ Waiting(p) \ {c} = {}
  BY <1>7, AskerEnds
<1>9. \A q \in People : Waiting(q)' \subseteq Waiting(q) \ {c} /\ Forms(q)' = Forms(q)
  BY <1>2, Idles DEF Waiting, Forms
<1>10. \A q \in People : Forms(q)' \cup Waiting(q)' # {} => wish'[q] = wish[q]
  BY <1>8, <1>9
<1>11. OneRequestAsks'
  BY <1>9, <1>10, AskersShrink
<1> QED BY <1>2, <1>3, <1>4, <1>5, <1>6, <1>8, <1>11

LEMMA AnswerNoKeeps ==
    ASSUME IInv, NEW c \in Calling, Answer(c, FALSE),
           UNCHANGED <<account, shift, job, broken>>, faults' \in 0 .. MaxFaults
    PROVE  IInv'
<1>1. TypeOK /\ c \in Calls /\ Len(account) \in Nat
  BY Callers, Lengths DEF IInv
<1>2. PICK p \in People : p = call[c].who
  BY Callers
<1>3. call' = [call EXCEPT ![c] = NoCall] /\ hr' = NoRequest /\ lost' = lost
  BY DEF Answer
<1>4. IF call[c].waited THEN wish' = [wish EXCEPT ![p] = "wanted"] ELSE wish' = wish
  BY <1>2 DEF Answer, Wanted
<1>5. /\ wish' \in [People -> {"wanted", "asked", "hired"}]
      /\ call[c].waited => wish'[p] = "wanted"
      /\ \A q \in People : q # p => wish'[q] = wish[q]
  BY <1>1, <1>4, WishMade DEF TypeOK
<1>6. /\ call' \in [Calls -> CallRows] /\ hr' \in Requests
      /\ ServerIsWhole' /\ OneRequestAsks'
      /\ call[c].waited => wish[p] = "asked" /\ Forms(p) = {}
      /\ Calling' \subseteq Calling
  BY <1>2, <1>3, <1>4, <1>5, CallOver
<1>7. TypeOK'
  BY <1>1, <1>3, <1>5, <1>6 DEF TypeOK, Accounts, Shifts
<1>8. ThreadsAreWhole' /\ ClockInsAreMarked' /\ OpenShiftsAreExplained' /\ ShiftRoom'
  BY <1>1, CallGoesOn
<1>9. AccountRoom'
  <2>1. Hiring' = Hiring
    BY DEF Hiring
  <2> QED BY <1>6, <2>1, AccountRoomKept
<1>10. NamesAreUnique' /\ LinkedOrBroken'
  BY NamesStay, LinksStay
<1>11. \A q \in People : wish'[q] = "hired" <=> wish[q] = "hired"
  BY <1>4, <1>5, <1>6
<1>12. HiresAreKnown'
  BY <1>3, <1>11, HiresStayKnown
<1> QED BY <1>6, <1>7, <1>8, <1>9, <1>10, <1>12, RoomOK DEF IInv

LEMMA AddedKeeps ==
    ASSUME IInv, NEW c \in Calling, hr.suffix # 0,
           ~Rejects(call[c].who, hr.suffix, call[c].mail),
           account' = Added(c), call' = [call EXCEPT ![c] = NoCall], hr' = NoRequest,
           NEW p \in People, p = call[c].who, NEW w \in {"wanted", "hired"},
           IF call[c].waited THEN wish' = [wish EXCEPT ![p] = w] ELSE wish' = wish,
           lost' \in {lost, lost \cup {p}}, p \in lost' \/ (w = "hired" /\ call[c].waited),
           UNCHANGED <<shift, job, broken>>, faults' \in 0 .. MaxFaults
    PROVE  IInv'
<1> DEFINE u == Len(account) + 1
<1>1. TypeOK /\ c \in Calls /\ broken \subseteq Accounts
  BY Callers DEF IInv, TypeOK
<1>2. /\ wish' \in [People -> {"wanted", "asked", "hired"}]
      /\ call[c].waited => wish'[p] = w
      /\ \A q \in People : q # p => wish'[q] = wish[q]
  BY <1>1, WishMade DEF TypeOK
<1>3. /\ call' \in [Calls -> CallRows] /\ hr' \in Requests
      /\ ServerIsWhole' /\ OneRequestAsks'
      /\ call[c].waited => wish[p] = "asked" /\ Forms(p) = {}
      /\ Cardinality(Calling') + 1 <= Cardinality(Calling)
  BY <1>2, CallOver
<1>4. /\ account' \in Seq(AccountRows) /\ Len(account') = Len(account) + 1
      /\ Len(account) \in Nat /\ u \notin Accounts /\ Accounts' = Accounts \cup {u}
      /\ \A v \in Accounts : account'[v] = account[v]
      /\ account'[u].link = "active" /\ account'[u].who = p
      /\ NamesAreUnique'
  <2>1. hr.suffix \in 1 .. MaxAccounts /\ call[c].mail \in {"own", "staff"}
    BY <1>1, StaffConstants DEF TypeOK, Requests, CallRows
  <2>2. account' = Append(account, NewAccount(p, hr.suffix, call[c].mail, "active"))
    BY DEF Added
  <2> QED BY <2>1, <2>2, RowAdded, ZenonT(40)
<1> HIDE DEF u
<1>5. AccountRoom'
  <2>1. Len(account) + Cardinality(Hiring) + Cardinality(Calling) <= MaxAccounts
    BY DEF IInv, RoomIsKept
  <2>2. Hiring' = Hiring
    BY DEF Hiring
  <2> QED BY <1>3, <1>4, <2>1, <2>2, Counts, StaffConstants DEF AccountRoom
<1>6. /\ ThreadsAreWhole' /\ ClockInsAreMarked' /\ OpenShiftsAreExplained' /\ ShiftRoom'
      /\ \A s \in Shifts' : shift'[s].user \in Accounts'
  BY <1>4, CallGoesOn
<1>7. TypeOK'
  BY <1>1, <1>2, <1>3, <1>4, <1>6 DEF TypeOK
<1>8. LinkedOrBroken'
  BY <1>4 DEF IInv, LinkedOrBroken
<1>9. HiresAreKnown'
  <2>1. Theirs(p)' = Theirs(p) \cup {u} /\ \A q : q # p => Theirs(q)' = Theirs(q)
    BY <1>1, <1>4 DEF Theirs
  <2>2. \A q : \A v \in Theirs(q) : account'[v] = account[v]
    BY <1>4 DEF Theirs
  <2>3. p \in lost' \/ Theirs(p) = {}
    <3> SUFFICES ASSUME p \notin lost', NEW v \in Theirs(p) PROVE FALSE
      OBVIOUS
    <3>1. wish[p] = "asked" /\ Forms(p) = {} /\ p \notin lost
      BY <1>3
    <3>2. PICK r \in Threads : job[r].at = "linking" /\ job[r].id = v
      BY <3>1 DEF IInv, HiresAreKnown
    <3>3. r \in Forms(p)
      BY <3>2 DEF IInv, ThreadsAreWhole, Forms, Theirs
    <3> QED BY <3>1, <3>3
  <2>4. p \in lost' \/ wish'[p] = "hired"
    BY <1>2
  <2> SUFFICES ASSUME NEW q \in People
               PROVE  /\ q \notin lost' => \A v, x \in Theirs(q)' : v = x
                      /\ q \notin lost' => \A v \in Theirs(q)' : \/ wish'[q] = "hired"
                              \/ \E r \in Threads : job[r].at = "linking" /\ job[r].id = v
                      /\ wish'[q] = "hired" => \E v \in Theirs(q)' : account'[v].link # "none"
    BY DEF HiresAreKnown
  <2>5. CASE q = p
    BY <1>4, <2>1, <2>3, <2>4, <2>5
  <2>6. CASE q # p
    <3>1. Theirs(q)' = Theirs(q) /\ wish'[q] = wish[q] /\ (q \notin lost' => q \notin lost)
      BY <1>2, <2>1, <2>6
    <3> QED BY <2>2, <3>1 DEF IInv, HiresAreKnown
  <2> QED BY <2>5, <2>6
<1> QED BY <1>3, <1>4, <1>5, <1>6, <1>7, <1>8, <1>9, RoomOK DEF IInv

LEMMA AskServerKeeps ==
    ASSUME IInv, NEW c \in Calls, NEW p \in People, NEW mail \in {"own", "staff"},
           AskServer(c, p, mail)
    PROVE  IInv'
<1>1. /\ call[c] = NoCall /\ wish[p] = "wanted" /\ Room
      /\ UNCHANGED <<account, shift, job, hr, lost, broken, faults>>
      /\ TypeOK /\ Len(account) \in Nat /\ Len(shift) \in Nat
  BY Lengths DEF AskServer, IInv
<1> DEFINE r == [who |-> p, mail |-> mail, waited |-> TRUE]
<1>2. r \in CallRows /\ r.who = p /\ r.waited = TRUE /\ call' = [call EXCEPT ![c] = r]
  BY DEF CallRows, AskServer
<1> HIDE DEF r
<1>3. /\ call' \in [Calls -> CallRows] /\ call'[c] = r
      /\ \A d \in Calls : d # c => call'[d] = call[d]
  BY <1>1, <1>2, CallMade
<1>4. /\ wish' \in [People -> {"wanted", "asked", "hired"}] /\ wish'[p] = "asked"
      /\ \A q \in People : q # p => wish'[q] = wish[q]
  BY <1>1, WishMade DEF AskServer, Waits
<1>5. TypeOK'
  BY <1>1, <1>3, <1>4 DEF TypeOK, Accounts, Shifts
<1>6. Calling' = Calling \cup {c}
  BY <1>1, <1>2, <1>3, Idles, StaffConstants DEF Calling
<1>7. ServerIsWhole'
  BY <1>1, <1>2, <1>3, <1>6, StaffConstants DEF IInv, ServerIsWhole, Shifts
<1>8. ThreadsAreWhole' /\ ClockInsAreMarked' /\ OpenShiftsAreExplained' /\ ShiftRoom'
  BY <1>1, CallGoesOn
<1>9. AccountRoom'
  <2>1. Cardinality(Calling') <= Cardinality(Calling) + 1
    BY <1>6, Counts, OneMore
  <2>2. Hiring' = Hiring
    BY <1>1 DEF Hiring
  <2> QED BY <1>1, <2>1, <2>2, Counts, StaffConstants DEF AccountRoom, Room
<1>10. OneRequestAsks'
  <2>1. Forms(p) = {} /\ Waiting(p) = {}
    BY <1>1 DEF IInv, OneRequestAsks
  <2>2. Waiting(p)' = {c} /\ \A q \in People : Forms(q)' = Forms(q)
    BY <1>1, <1>2, <1>3, <2>1 DEF Waiting, Forms
  <2>3. \A q \in People : q # p => Waiting(q)' = Waiting(q)
    BY <1>1, <1>2, <1>3, Idles DEF Waiting
  <2> QED BY <1>4, <2>1, <2>2, <2>3 DEF IInv, OneRequestAsks
<1>11. NamesAreUnique' /\ LinkedOrBroken'
  BY <1>1, NamesStay, LinksStay
<1>12. HiresAreKnown'
  BY <1>1, <1>4, HiresStayKnown
<1> QED BY <1>5, <1>7, <1>8, <1>9, <1>10, <1>11, <1>12, RoomOK DEF IInv

LEMMA GiveUpKeeps ==
    ASSUME IInv, NEW c \in Calls, GiveUp(c)
    PROVE  IInv'
<1>1. /\ call[c].waited /\ UNCHANGED <<account, shift, job, hr, lost, broken, faults>>
      /\ TypeOK /\ Len(account) \in Nat /\ Len(shift) \in Nat
  BY Lengths DEF GiveUp, IInv
<1>2. c \in Calling
  BY <1>1, Idles DEF Calling
<1>3. PICK p \in People : p = call[c].who
  BY <1>2, Callers
<1>4. call[c] \in CallRows
  BY <1>1 DEF TypeOK
<1> DEFINE r == [call[c] EXCEPT !.waited = FALSE]
<1>5. r \in CallRows /\ r.who = p /\ r.waited = FALSE
  BY <1>3, <1>4 DEF CallRows
<1>6. call' = [call EXCEPT ![c] = r]
  BY <1>1 DEF GiveUp, TypeOK
<1> HIDE DEF r
<1>7. /\ call' \in [Calls -> CallRows] /\ call'[c] = r
      /\ \A d \in Calls : d # c => call'[d] = call[d]
  BY <1>1, <1>5, <1>6, CallMade
<1>8. /\ wish' \in [People -> {"wanted", "asked", "hired"}] /\ wish'[p] = "wanted"
      /\ \A q \in People : q # p => wish'[q] = wish[q]
  BY <1>1, <1>3, WishMade DEF GiveUp, Wanted
<1>9. TypeOK'
  BY <1>1, <1>7, <1>8 DEF TypeOK, Accounts, Shifts
<1>10. Calling' = Calling
  BY <1>2, <1>5, <1>7, Idles, StaffConstants DEF Calling
<1>11. ServerIsWhole'
  BY <1>1, <1>5, <1>7, <1>10, StaffConstants DEF IInv, ServerIsWhole, Shifts
<1>12. ThreadsAreWhole' /\ ClockInsAreMarked' /\ OpenShiftsAreExplained' /\ ShiftRoom'
  BY <1>1, CallGoesOn
<1>13. AccountRoom'
  <2>1. Hiring' = Hiring
    BY <1>1 DEF Hiring
  <2> QED BY <1>1, <1>10, <2>1, AccountRoomKept
<1>14. c \in Waiting(p)
  BY <1>1, <1>3 DEF Waiting
<1>15. Waiting(p) \ {c} = {} /\ Forms(p) = {} /\ wish[p] = "asked"
  BY <1>14, AskerEnds
<1>16. \A q \in People : Waiting(q)' \subseteq Waiting(q) \ {c} /\ Forms(q)' = Forms(q)
  BY <1>1, <1>5, <1>7 DEF Waiting, Forms
<1>17. \A q \in People : Forms(q)' \cup Waiting(q)' # {} => wish'[q] = wish[q]
  BY <1>8, <1>15, <1>16
<1>18. OneRequestAsks'
  BY <1>16, <1>17, AskersShrink
<1>19. NamesAreUnique' /\ LinkedOrBroken'
  BY <1>1, NamesStay, LinksStay
<1>20. HiresAreKnown'
  BY <1>1, <1>8, <1>15, HiresStayKnown
<1> QED BY <1>9, <1>11, <1>12, <1>13, <1>18, <1>19, <1>20, RoomOK DEF IInv

LEMMA ServerLooksKeeps ==
    ASSUME IInv, NEW c \in Calls, ServerLooks(c)
    PROVE  IInv'
<1>1. /\ hr = NoRequest /\ UNCHANGED <<account, shift, job, broken, faults>>
      /\ TypeOK /\ Len(account) \in Nat /\ c \in Calling /\ faults \in 0 .. MaxFaults
  BY Lengths DEF ServerLooks, IInv, Calling, TypeOK
<1>2. CASE Answer(c, FALSE)
  BY <1>1, <1>2, AnswerNoKeeps
<1>3. CASE /\ hr' = [NoRequest EXCEPT !.at = "adding", !.call = c, !.suffix = FreeSuffix(call[c].who)]
           /\ UNCHANGED <<call, wish, lost>>
  <2> DEFINE n == FreeSuffix(call[c].who)
  <2>1. n \in 1 .. MaxAccounts
    <3>1. n \in 1 .. Len(account) + 1
      BY <1>1, FreeSuffixIsFree
    <3>2. 0 + 1 <= Cardinality(Calling)
      <4>1. Cardinality({}) + 1 <= Cardinality(Calling)
        BY <1>1, Counts, OneLess
      <4> QED BY <4>1, FS_EmptySet
    <3>3. Len(account) + Cardinality(Hiring) + Cardinality(Calling) <= MaxAccounts
      BY DEF IInv, RoomIsKept
    <3> HIDE DEF n
    <3> QED BY <1>1, <3>1, <3>2, <3>3, Counts, StaffConstants
  <2> HIDE DEF n
  <2>2. hr' = [at |-> "adding", call |-> c, suffix |-> n, id |-> 0]
    BY <1>3 DEF NoRequest, n
  <2>3. hr' \in Requests /\ hr'.at = "adding" /\ hr'.call = c /\ hr'.suffix # 0
    BY <2>1, <2>2, StaffConstants DEF Requests
  <2>4. TypeOK'
    BY <1>1, <1>3, <2>3 DEF TypeOK, Accounts, Shifts
  <2>5. ServerIsWhole'
    BY <1>1, <1>3, <2>3 DEF IInv, ServerIsWhole, Calling
  <2>6. ThreadsAreWhole' /\ ClockInsAreMarked' /\ OpenShiftsAreExplained' /\ ShiftRoom'
    BY <1>1, CallGoesOn
  <2>7. OneRequestAsks' /\ NamesAreUnique' /\ LinkedOrBroken' /\ HiresAreKnown' /\ AccountRoom'
    BY <1>1, <1>3, HiresStay DEF SameHires
  <2> QED BY <2>4, <2>5, <2>6, <2>7, RoomOK DEF IInv
<1> QED BY <1>2, <1>3 DEF ServerLooks

LEMMA ServerAddsKeeps ==
    ASSUME IInv, NEW c \in Calls, ServerAdds(c) \/ ServerFails(c) \/ ServerAnswerLost(c)
    PROVE  IInv'
<1>1. /\ c \in Calling /\ hr.suffix # 0 /\ faults' \in 0 .. MaxFaults
      /\ UNCHANGED <<shift, job, broken>>
  <2>1. /\ hr.at = "adding" /\ hr.call = c /\ UNCHANGED <<shift, job, broken>>
        /\ faults' = faults \/ (faults < MaxFaults /\ faults' = faults + 1)
    BY DEF ServerAdds, ServerFails, ServerAnswerLost
  <2>2. faults \in 0 .. MaxFaults
    BY DEF IInv, TypeOK
  <2> QED BY <2>1, <2>2, StaffConstants DEF IInv, ServerIsWhole
<1>2. PICK p \in People : p = call[c].who
  BY <1>1, Callers
<1>3. CASE Answer(c, FALSE) /\ account' = account
  BY <1>1, <1>3, AnswerNoKeeps
<1>4. CASE /\ ~Rejects(call[c].who, hr.suffix, call[c].mail)
           /\ Answer(c, TRUE) /\ account' = Added(c)
  <2>1. /\ call' = [call EXCEPT ![c] = NoCall] /\ hr' = NoRequest
        /\ IF call[c].waited THEN wish' = [wish EXCEPT ![p] = "hired"] ELSE wish' = wish
        /\ lost' = IF call[c].waited THEN lost ELSE lost \cup {p}
    BY <1>2, <1>4 DEF Answer, Hired
  <2> QED BY <1>1, <1>2, <1>4, <2>1, AddedKeeps
<1>5. CASE ServerAnswerLost(c)
  <2>1. /\ call' = [call EXCEPT ![c] = NoCall] /\ hr' = NoRequest
        /\ IF call[c].waited THEN wish' = [wish EXCEPT ![p] = "wanted"] ELSE wish' = wish
        /\ lost' = lost \cup {p} /\ account' = Added(c)
        /\ ~Rejects(call[c].who, hr.suffix, call[c].mail)
    BY <1>2, <1>5 DEF ServerAnswerLost, Wanted
  <2> QED BY <1>1, <1>2, <2>1, AddedKeeps
<1> QED BY <1>3, <1>4, <1>5 DEF ServerAdds, ServerFails, RolledBack

-----------------------------------------------------------------------------
(* Clocking in and out.                                                    *)

\* What a step of a clock does: the hires do not notice it.
HiresRest ==
    /\ UNCHANGED <<account, call, wish, lost, broken>>
    /\ \A t \in Threads : job[t].at \in {"hiring", "linking"} => job'[t] = job[t]

ClocksGoOn ==
    /\ job' \in [Threads -> Jobs]
    /\ \A t \in Threads :
        \/ job'[t] = job[t]
        \/ job'[t] = Idle
        \/ job'[t].at \in {"admitted", "looked"} /\ job'[t].id \in Accounts
        \/ job'[t].at = "leaving" /\ job'[t].id \in Shifts

ServerMoves ==
    /\ hr' \in Requests
    /\ hr' = hr \/ hr' = NoRequest \/ (hr'.at = "closing" /\ hr'.id \in Shifts)

ShiftsAdd ==
    /\ shift' \in Seq(ShiftRows) /\ Len(shift') >= Len(shift)
    /\ \A s \in Shifts' : shift'[s].user \in Accounts

LEMMA ClocksKeep ==
    ASSUME IInv, HiresRest, ClocksGoOn, ServerMoves, ShiftsAdd, faults' \in 0 .. MaxFaults,
           ShiftRoom', ClockInsAreMarked', OpenShiftsAreExplained'
    PROVE  IInv'
<1> USE DEF HiresRest, ClocksGoOn, ServerMoves, ShiftsAdd
<1>1. Len(shift) \in Nat /\ Len(shift') \in Nat
  BY Lengths DEF IInv
<1>2. Shifts \subseteq Shifts' /\ Accounts' = Accounts
  BY <1>1 DEF Shifts, Accounts
<1>3. SameHires
  BY Idles DEF SameHires
<1>4. OneRequestAsks' /\ NamesAreUnique' /\ LinkedOrBroken' /\ HiresAreKnown' /\ AccountRoom'
  BY <1>3, HiresStay
<1>5. TypeOK'
  BY <1>2 DEF IInv, TypeOK
<1>6. ThreadsAreWhole'
  <2> SUFFICES ASSUME NEW t \in Threads
               PROVE  /\ job'[t].at = "idle" => job'[t] = Idle
                      /\ job'[t].at \in {"hiring", "linking"} => job'[t].who \in People
                      /\ job'[t].at \in {"linking", "admitted", "looked"} => job'[t].id \in Accounts
                      /\ job'[t].at = "linking" => /\ account[job'[t].id].who = job'[t].who
                                                   /\ account[job'[t].id].link = "none"
                                                   /\ job'[t].id \notin broken
                      /\ job'[t].at = "leaving" => job'[t].id \in Shifts'
    BY <1>2 DEF ThreadsAreWhole
  <2>1. CASE job'[t] = job[t]
    BY <1>2, <2>1 DEF IInv, ThreadsAreWhole
  <2>2. CASE job'[t] = Idle
    BY <2>2, Idles
  <2> QED BY <1>2, <2>1, <2>2
<1>7. ServerIsWhole'
  <2>1. Calling' = Calling
    BY DEF Calling
  <2> QED BY <1>2, <2>1, Idles DEF IInv, ServerIsWhole
<1> QED BY <1>4, <1>5, <1>6, <1>7, RoomOK DEF IInv

\* A step that reads: no shift changes.
LEMMA ShiftsUnread ==
    ASSUME IInv, UNCHANGED <<account, shift>>
    PROVE  OpenShiftsAreExplained' /\ ShiftsAdd
<1>1. OnShiftAreStaff' /\ SecondShiftsRaced'
  BY DEF IInv, OpenShiftsAreExplained, OnShiftAreStaff, SecondShiftsRaced, Shifts
<1>2. Len(shift) \in Nat /\ shift \in Seq(ShiftRows) /\ \A s \in Shifts : shift[s].user \in Accounts
  BY Lengths DEF IInv, TypeOK
<1>3. Shifts' = Shifts /\ shift' = shift
  BY DEF Shifts
<1> QED BY <1>1, <1>2, <1>3 DEF OpenShiftsAreExplained, ShiftsAdd

LEMMA Clocker ==
    ASSUME IInv, NEW t \in ClockingIn
    PROVE  /\ t \in Threads /\ job[t] \in Jobs /\ job[t].id \in Accounts
           /\ account[job[t].id].link = "active" \/ "removed" \in job[t].notes
           /\ job[t].at = "looked" => OpenShifts(job[t].id) = {} \/ "raced" \in job[t].notes
BY DEF IInv, TypeOK, ThreadsAreWhole, ClockInsAreMarked, ClockingIn

LEMMA MarksUnread ==
    ASSUME IInv, UNCHANGED <<account, shift>>,
           \A t \in ClockingIn' :
                \/ t \in ClockingIn /\ job'[t] = job[t]
                \/ /\ account[job'[t].id].link = "active" \/ "removed" \in job'[t].notes
                   /\ job'[t].at = "looked" =>
                        OpenShifts(job'[t].id) = {} \/ "raced" \in job'[t].notes
    PROVE  ClockInsAreMarked'
<1> SUFFICES ASSUME NEW t \in ClockingIn'
             PROVE  /\ account[job'[t].id].link = "active" \/ "removed" \in job'[t].notes
                    /\ job'[t].at = "looked" =>
                            OpenShifts(job'[t].id) = {} \/ "raced" \in job'[t].notes
  BY DEF ClockInsAreMarked, OpenShifts, Shifts
<1>1. CASE t \in ClockingIn /\ job'[t] = job[t]
  BY <1>1, Clocker
<1> QED BY <1>1

\* One thread clocks somebody in or out.
LEMMA OneClockGoesOn ==
    ASSUME NEW t \in Threads, job[t].at \notin {"hiring", "linking"},
           job' \in [Threads -> Jobs], \A r \in Threads : r # t => job'[r] = job[r],
           \/ job'[t] = Idle
           \/ job'[t].at \in {"admitted", "looked"} /\ job'[t].id \in Accounts
           \/ job'[t].at = "leaving" /\ job'[t].id \in Shifts,
           UNCHANGED <<account, call, wish, lost, broken>>
    PROVE  HiresRest /\ ClocksGoOn
BY DEF HiresRest, ClocksGoOn

LEMMA ServerRests == ASSUME IInv, UNCHANGED hr PROVE ServerMoves
BY DEF ServerMoves, IInv, TypeOK

LEMMA ClockInKeeps ==
    ASSUME IInv, NEW t \in Threads, NEW u \in Accounts, ClockIn(t, u)
    PROVE  IInv'
<1>1. /\ job[t] = Idle /\ RoomToClockIn /\ account[u].link = "active"
      /\ UNCHANGED <<account, shift, hr, call, wish, lost, broken, faults>>
      /\ TypeOK /\ u \in Nat /\ Len(shift) \in Nat
  BY Lengths DEF ClockIn, Admits, IInv, Accounts
<1>2. /\ job' \in [Threads -> Jobs]
      /\ job'[t].at = "admitted" /\ job'[t].id = u /\ job'[t].notes = {}
      /\ \A r \in Threads : r # t => job'[r] = job[r]
  <2>1. Goto(t, "admitted", Nobody, u, {}) /\ {} \in SUBSET {"removed", "raced"}
    BY DEF ClockIn
  <2>2. TypeOK /\ u \in Nat /\ Nobody \in People \cup {Nobody}
    BY <1>1
  <2> QED BY ONLY <2>1, <2>2, t \in Threads, ThreadGoes
<1>3. OpenShiftsAreExplained' /\ ShiftsAdd /\ ServerMoves
  BY <1>1, ShiftsUnread, ServerRests
<1>4. ShiftRoom'
  <2>1. ClockingIn' \subseteq ClockingIn \cup {t}
    BY <1>2 DEF ClockingIn
  <2>2. Cardinality(ClockingIn') <= Cardinality(ClockingIn) + 1
    BY <2>1, Counts, OneMore
  <2> QED BY <1>1, <2>2, Counts, StaffConstants DEF ShiftRoom, RoomToClockIn
<1>5. ClockInsAreMarked'
  <2>1. \A r \in ClockingIn' : r = t \/ (r \in ClockingIn /\ job'[r] = job[r])
    BY <1>2 DEF ClockingIn
  <2>2. account[job'[t].id].link = "active" /\ job'[t].at # "looked"
    BY <1>1, <1>2
  <2> QED BY <1>1, <2>1, <2>2, MarksUnread
<1>6. HiresRest /\ ClocksGoOn
  <2>1. job[t].at \notin {"hiring", "linking"}
    BY <1>1, Idles
  <2> QED BY <1>1, <1>2, <2>1, OneClockGoesOn
<1>7. faults' \in 0 .. MaxFaults
  BY <1>1 DEF TypeOK
<1> QED BY <1>3, <1>4, <1>5, <1>6, <1>7, ClocksKeep

LEMMA ClockInLooksKeeps ==
    ASSUME IInv, NEW t \in Threads, ClockInLooks(t)
    PROVE  IInv'
<1>1. /\ job[t].at = "admitted" /\ t \in ClockingIn
      /\ UNCHANGED <<account, shift, hr, call, wish, lost, broken, faults>>
      /\ TypeOK /\ faults' \in 0 .. MaxFaults
  BY DEF ClockInLooks, IInv, ClockingIn, TypeOK
<1>2. OpenShiftsAreExplained' /\ ShiftsAdd /\ ServerMoves
  BY <1>1, ShiftsUnread, ServerRests
<1>3. /\ job[t] \in Jobs /\ job[t].id \in Accounts
      /\ account[job[t].id].link = "active" \/ "removed" \in job[t].notes
  BY <1>1, Clocker
<1>4. job[t].id \in Nat /\ job[t].notes \in SUBSET {"removed", "raced"}
  BY <1>3 DEF Jobs
<1>5. CASE OpenShifts(job[t].id) = {} /\ Goto(t, "looked", Nobody, job[t].id, job[t].notes)
  <2>1. /\ job' \in [Threads -> Jobs]
        /\ job'[t].at = "looked" /\ job'[t].id = job[t].id /\ job'[t].notes = job[t].notes
        /\ \A r \in Threads : r # t => job'[r] = job[r]
    BY <1>1, <1>4, <1>5, ThreadGoes
  <2>2. \A r \in ClockingIn' : r \in ClockingIn /\ (r # t => job'[r] = job[r])
    BY <1>1, <2>1 DEF ClockingIn
  <2>3. ClockInsAreMarked'
    <3>1. /\ account[job'[t].id].link = "active" \/ "removed" \in job'[t].notes
          /\ OpenShifts(job'[t].id) = {}
      BY <1>3, <1>5, <2>1
    <3>2. \A r \in ClockingIn' : r = t \/ (r \in ClockingIn /\ job'[r] = job[r])
      BY <2>2
    <3> QED BY <1>1, <3>1, <3>2, MarksUnread
  <2>4. ShiftRoom'
    BY <1>1, <2>2, ShiftRoomKept
  <2>5. HiresRest /\ ClocksGoOn
    BY <1>1, <1>3, <2>1, OneClockGoesOn
  <2> QED BY <1>1, <1>2, <2>3, <2>4, <2>5, ClocksKeep
<1>6. CASE Return(t)
  <2>1. /\ job' \in [Threads -> Jobs] /\ job'[t] = Idle
        /\ \A r \in Threads : r # t => job'[r] = job[r]
    BY <1>1, <1>6, ThreadReturns
  <2>2. \A r \in ClockingIn' : r \in ClockingIn /\ job'[r] = job[r]
    BY <2>1, Idles DEF ClockingIn
  <2>3. ClockInsAreMarked'
    BY <1>1, <2>2, MarksUnread
  <2>4. ShiftRoom'
    BY <1>1, <2>2, ShiftRoomKept
  <2>5. HiresRest /\ ClocksGoOn
    BY <1>1, <2>1, OneClockGoesOn
  <2> QED BY <1>1, <1>2, <2>3, <2>4, <2>5, ClocksKeep
<1> QED BY <1>5, <1>6 DEF ClockInLooks, ActiveShift

LEMMA OvertakenOne ==
    ASSUME NEW j \in Jobs, NEW u
    PROVE  /\ Overtaken(j, u) \in Jobs /\ Overtaken(j, u).at = j.at /\ Overtaken(j, u).id = j.id
           /\ j.notes \subseteq Overtaken(j, u).notes
           /\ j.at = "looked" /\ j.id = u => "raced" \in Overtaken(j, u).notes
           /\ ~(j.at = "looked" /\ j.id = u) => Overtaken(j, u) = j
<1>1. CASE j.at = "looked" /\ j.id = u
  <2>1. Overtaken(j, u) = [at |-> j.at, who |-> j.who, id |-> j.id, notes |-> j.notes \cup {"raced"}]
    BY <1>1 DEF Overtaken, Jobs
  <2> QED BY <1>1, <2>1 DEF Jobs
<1>2. CASE ~(j.at = "looked" /\ j.id = u)
  BY <1>2 DEF Overtaken
<1> QED BY <1>1, <1>2

\* A row is inserted by a clock-in that looked, by one that did not look, or by
\* the rota.
LEMMA InsertedKeeps ==
    ASSUME IInv, NEW u \in Accounts, NEW open \in BOOLEAN, NEW by \in {"self", "server", "rota"},
           NEW notes \in SUBSET {"removed", "raced"}, Inserted(u, open, by, notes),
           UNCHANGED <<account, hr, call, wish, lost, broken, faults>>,
           job' \in [Threads -> Jobs],
           \A x \in Threads :
                \/ job'[x] = Idle /\ job[x].at = "looked"
                \/ job'[x] = job[x] /\ ~open
                \/ job'[x] = Overtaken(job[x], u),
           open /\ by # "server" => /\ account[u].link = "active" \/ "removed" \in notes
                                    /\ OpenShifts(u) = {} \/ "raced" \in notes,
           ShiftRoom'
    PROVE  IInv'
<1> DEFINE n == Len(shift) + 1
           r == [user |-> u, open |-> open, by |-> by, notes |-> notes]
<1>1. /\ TypeOK /\ shift \in Seq(ShiftRows) /\ faults' \in 0 .. MaxFaults
      /\ \A s \in Shifts : shift[s].user \in Accounts
  BY DEF IInv, TypeOK
<1>2. r \in ShiftRows /\ r.user = u /\ r.open = open /\ r.by = by /\ r.notes = notes
  <2>1. u \in 1 .. MaxAccounts
    <3>1. Len(account) + Cardinality(Hiring) + Cardinality(Calling) <= MaxAccounts
      BY DEF IInv, RoomIsKept
    <3> QED BY <1>1, <3>1, Lengths, Counts, StaffConstants DEF Accounts
  <2> QED BY <2>1 DEF ShiftRows
<1>3. shift' = Append(shift, r)
  BY DEF Inserted
<1> HIDE DEF r
<1>4. /\ shift' \in Seq(ShiftRows) /\ Len(shift') = n /\ Len(shift) \in Nat
      /\ shift'[n] = r /\ \A s \in 1 .. Len(shift) : shift'[s] = shift[s]
  BY <1>1, <1>2, <1>3, Appended
<1>5. /\ Shifts' = Shifts \cup {n} /\ n \notin Shifts /\ \A s \in Shifts : s < n
      /\ \A s \in Shifts : shift'[s] = shift[s]
  BY <1>4 DEF Shifts
<1>6. ShiftsAdd
  BY <1>1, <1>2, <1>4, <1>5 DEF ShiftsAdd
<1> HIDE DEF n
<1>7. \A x \in Threads : job[x] \in Jobs
  BY <1>1 DEF TypeOK
<1>8. HiresRest
  <2> SUFFICES ASSUME NEW x \in Threads, job[x].at \in {"hiring", "linking"} PROVE job'[x] = job[x]
    BY DEF HiresRest
  <2> QED BY <1>7, OvertakenOne
<1>9. ClocksGoOn
  <2> SUFFICES ASSUME NEW x \in Threads
               PROVE  \/ job'[x] = job[x] \/ job'[x] = Idle
                      \/ job'[x].at \in {"admitted", "looked"} /\ job'[x].id \in Accounts
    BY DEF ClocksGoOn
  <2>1. CASE job'[x] = Overtaken(job[x], u)
    <3>1. CASE job[x].at = "looked" /\ job[x].id = u
      BY <1>7, <2>1, <3>1, OvertakenOne
    <3> QED BY <1>7, <2>1, <3>1, OvertakenOne
  <2> QED BY <2>1
<1>10. ClockInsAreMarked'
  <2> SUFFICES ASSUME NEW x \in ClockingIn'
               PROVE  /\ account[job'[x].id].link = "active" \/ "removed" \in job'[x].notes
                      /\ job'[x].at = "looked" =>
                            \/ \A s \in Shifts' : shift'[s].user = job'[x].id => ~shift'[s].open
                            \/ "raced" \in job'[x].notes
    BY DEF ClockInsAreMarked, OpenShifts
  <2>1. /\ x \in Threads /\ job[x] \in Jobs /\ job'[x] # Idle
        /\ job'[x].at = job[x].at /\ job'[x].id = job[x].id /\ job[x].notes \subseteq job'[x].notes
        /\ job[x].at = "looked" /\ job[x].id = u => ~open \/ "raced" \in job'[x].notes
    BY <1>7, OvertakenOne, Idles DEF ClockingIn
  <2>2. x \in ClockingIn
    BY <2>1 DEF ClockingIn
  <2>3. /\ account[job[x].id].link = "active" \/ "removed" \in job[x].notes
        /\ job[x].at = "looked" => OpenShifts(job[x].id) = {} \/ "raced" \in job[x].notes
    BY <2>2, Clocker
  <2>4. OpenShifts(job[x].id) = {} => \A s \in Shifts : shift[s].user = job[x].id => ~shift[s].open
    BY DEF OpenShifts
  <2> QED BY <1>2, <1>4, <1>5, <2>1, <2>3, <2>4
<1>11. OnShiftAreStaff'
  <2> SUFFICES ASSUME NEW s \in Shifts', shift'[s].open, shift'[s].by = "self"
               PROVE  account[shift'[s].user].link = "active" \/ "removed" \in shift'[s].notes
    BY DEF OnShiftAreStaff
  <2>1. CASE s = n
    BY <1>2, <1>4, <2>1
  <2>2. CASE s \in Shifts
    BY <1>5, <2>2 DEF IInv, OpenShiftsAreExplained, OnShiftAreStaff
  <2> QED BY <1>5, <2>1, <2>2
<1>12. SecondShiftsRaced'
  <2> SUFFICES ASSUME NEW s \in Shifts', NEW q \in Shifts', shift'[q].open, shift'[s].open, q < s,
                      shift'[q].user = shift'[s].user
               PROVE  shift'[s].by = "server" \/ "raced" \in shift'[s].notes
    BY DEF SecondShiftsRaced
  <2>1. CASE s \in Shifts /\ q \in Shifts
    BY <1>5, <2>1 DEF IInv, OpenShiftsAreExplained, SecondShiftsRaced
  <2>2. CASE s = n /\ q \in Shifts
    <3>1. q \in OpenShifts(u)
      BY <1>2, <1>4, <1>5, <2>2 DEF OpenShifts
    <3> QED BY <1>2, <1>4, <2>2, <3>1
  <2>3. ~(q = n /\ s \in Shifts) /\ ~(q = n /\ s = n)
    BY <1>4, <1>5 DEF Shifts, n
  <2> QED BY <1>5, <2>1, <2>2, <2>3
<1>13. OpenShiftsAreExplained' /\ ServerMoves
  BY <1>11, <1>12, ServerRests DEF OpenShiftsAreExplained
<1> QED BY <1>1, <1>6, <1>8, <1>9, <1>10, <1>13, ClocksKeep

LEMMA ClockInInsertsKeeps ==
    ASSUME IInv, NEW t \in Threads, ClockInInserts(t)
    PROVE  IInv'
<1>1. /\ job[t].at = "looked" /\ t \in ClockingIn /\ job \in [Threads -> Jobs]
      /\ UNCHANGED <<account, hr, call, wish, lost, broken, faults>>
  BY DEF ClockInInserts, IInv, TypeOK, ClockingIn
<1>2. PICK u \in Accounts : u = job[t].id
  BY <1>1, Clocker
<1>3. /\ account[u].link = "active" \/ "removed" \in job[t].notes
      /\ OpenShifts(u) = {} \/ "raced" \in job[t].notes
      /\ job[t].notes \in SUBSET {"removed", "raced"}
  BY <1>1, <1>2, Clocker DEF Jobs
<1>4. /\ Inserted(u, TRUE, "self", job[t].notes)
      /\ job' = [x \in Threads |-> IF x = t THEN Idle ELSE Overtaken(job[x], u)]
  BY <1>2 DEF ClockInInserts
<1>5. /\ job' \in [Threads -> Jobs] /\ job'[t] = Idle
      /\ \A x \in Threads : x # t => job'[x] = Overtaken(job[x], u)
  BY <1>1, <1>4, Idles, OvertakenOne
<1>6. ShiftRoom'
  <2>1. \A x \in Threads : x # t => job'[x].at = job[x].at
    BY <1>1, <1>5, OvertakenOne
  <2>2. ClockingIn' \subseteq ClockingIn \ {t}
    BY <1>5, <2>1, Idles DEF ClockingIn
  <2>3. Cardinality(ClockingIn') + 1 <= Cardinality(ClockingIn)
    BY <1>1, <2>2, Counts, OneLess
  <2>4. Len(shift') = Len(shift) + 1 /\ Len(shift) \in Nat
    BY <1>4, Lengths DEF Inserted, IInv, TypeOK
  <2>5. Len(shift) + Cardinality(ClockingIn) <= MaxShifts
    BY DEF IInv, RoomIsKept
  <2> QED BY <2>3, <2>4, <2>5, Counts, StaffConstants DEF ShiftRoom
<1>7. /\ \A x \in Threads : \/ job'[x] = Idle /\ job[x].at = "looked"
                            \/ job'[x] = Overtaken(job[x], u)
      /\ TRUE \in BOOLEAN /\ "self" \in {"self", "server", "rota"}
  BY <1>1, <1>5
<1> QED BY <1>1, <1>3, <1>4, <1>5, <1>6, <1>7, InsertedKeeps

\* The shift of somebody who does not clock in, or of the agent's clock-in.
LEMMA ServerInsertsKeeps ==
    ASSUME IInv, NEW u \in Accounts, ServerClocksIn(u) \/ AssignShift(u)
    PROVE  IInv'
<1>1. /\ RoomToClockIn /\ job \in [Threads -> Jobs]
      /\ UNCHANGED <<account, hr, call, wish, lost, broken, faults>>
  BY DEF ServerClocksIn, AssignShift, IInv, TypeOK
<1>2. ASSUME NEW open \in BOOLEAN, NEW by \in {"server", "rota"}, Inserted(u, open, by, {}),
             job' \in [Threads -> Jobs], \A x \in Threads : job'[x].at = job[x].at
      PROVE  ShiftRoom'
  <2>1. ClockingIn' = ClockingIn
    BY <1>2 DEF ClockingIn
  <2>2. Len(shift') = Len(shift) + 1 /\ Len(shift) \in Nat
    BY <1>2, Lengths DEF Inserted, IInv, TypeOK
  <2> QED BY <1>1, <2>1, <2>2, Counts, StaffConstants DEF RoomToClockIn, ShiftRoom
<1>3. {} \in SUBSET {"removed", "raced"}
  OBVIOUS
<1>4. CASE ServerClocksIn(u)
  <2>1. Inserted(u, TRUE, "server", {}) /\ job' = [x \in Threads |-> Overtaken(job[x], u)]
    BY <1>4 DEF ServerClocksIn
  <2>2. /\ job' \in [Threads -> Jobs]
        /\ \A x \in Threads : job'[x] = Overtaken(job[x], u) /\ job'[x].at = job[x].at
    BY <1>1, <2>1, OvertakenOne
  <2>3. ShiftRoom'
    BY <1>2, <2>1, <2>2
  <2> QED BY <1>1, <1>3, <2>1, <2>2, <2>3, InsertedKeeps
<1>5. CASE AssignShift(u)
  <2>1. Inserted(u, FALSE, "rota", {}) /\ job' = job
    BY <1>5 DEF AssignShift
  <2>2. ShiftRoom'
    BY <1>1, <1>2, <2>1
  <2>3. job' \in [Threads -> Jobs] /\ \A x \in Threads : job'[x] = job[x] /\ ~FALSE
    BY <1>1, <2>1
  <2> QED BY <1>1, <1>3, <2>1, <2>2, <2>3, InsertedKeeps
<1> QED BY <1>4, <1>5

\* A shift ends.
LEMMA ClosedKeeps ==
    ASSUME IInv, NEW s \in Shifts, Closed(s), ClocksGoOn, HiresRest, ServerMoves,
           UNCHANGED faults, \A t \in ClockingIn' : t \in ClockingIn /\ job'[t] = job[t]
    PROVE  IInv'
<1>1. /\ shift \in Seq(ShiftRows) /\ \A q \in Shifts : shift[q].user \in Accounts
      /\ shift[s] \in ShiftRows /\ s \in 1 .. Len(shift) /\ faults' \in 0 .. MaxFaults
      /\ Len(shift) \in Nat
  BY Lengths DEF IInv, TypeOK, Shifts
<1> DEFINE r == [shift[s] EXCEPT !.open = FALSE]
<1>2. /\ r \in ShiftRows /\ r.open = FALSE
      /\ r.user = shift[s].user /\ r.by = shift[s].by /\ r.notes = shift[s].notes
  BY <1>1 DEF ShiftRows
<1>3. shift' = [shift EXCEPT ![s] = r]
  BY <1>1 DEF Closed
<1> HIDE DEF r
<1>4. /\ shift' \in Seq(ShiftRows) /\ Len(shift') = Len(shift) /\ shift'[s] = r
      /\ \A q \in 1 .. Len(shift) : q # s => shift'[q] = shift[q]
  BY ONLY <1>1, <1>2, <1>3, Replaced
<1>5. /\ Shifts' = Shifts /\ account' = account
      /\ \A q \in Shifts : /\ shift'[q].user = shift[q].user /\ shift'[q].by = shift[q].by
                           /\ shift'[q].notes = shift[q].notes
                           /\ shift'[q].open => shift[q].open
  BY <1>2, <1>4 DEF Shifts, HiresRest
<1>6. ShiftsAdd
  BY <1>1, <1>4, <1>5 DEF ShiftsAdd
<1>7. OnShiftAreStaff' /\ SecondShiftsRaced'
  BY <1>5 DEF IInv, OpenShiftsAreExplained, OnShiftAreStaff, SecondShiftsRaced
<1>8. ClockInsAreMarked'
  <2> SUFFICES ASSUME NEW x \in ClockingIn'
               PROVE  /\ account[job'[x].id].link = "active" \/ "removed" \in job'[x].notes
                      /\ job'[x].at = "looked" =>
                            \/ \A q \in Shifts' : shift'[q].user = job'[x].id => ~shift'[q].open
                            \/ "raced" \in job'[x].notes
    BY <1>5 DEF ClockInsAreMarked, OpenShifts
  <2>1. /\ job'[x] = job[x]
        /\ account[job[x].id].link = "active" \/ "removed" \in job[x].notes
        /\ job[x].at = "looked" => OpenShifts(job[x].id) = {} \/ "raced" \in job[x].notes
    BY Clocker
  <2>2. OpenShifts(job[x].id) = {} => \A q \in Shifts : shift[q].user = job[x].id => ~shift[q].open
    BY DEF OpenShifts
  <2> QED BY <1>5, <2>1, <2>2
<1>9. ShiftRoom'
  BY <1>4, ShiftRoomKept
<1> QED BY <1>1, <1>6, <1>7, <1>8, <1>9, ClocksKeep DEF OpenShiftsAreExplained

LEMMA ClockOutKeeps ==
    ASSUME IInv, NEW t \in Threads, NEW u \in Accounts, ClockOut(t, u)
    PROVE  IInv'
<1>1. /\ job[t] = Idle /\ UNCHANGED <<account, shift, hr, call, wish, lost, broken, faults>> /\ TypeOK
  BY DEF ClockOut, IInv
<1>2. PICK s \in Shifts : Goto(t, "leaving", Nobody, s, {})
  BY DEF ClockOut, ActiveShift, OpenShifts
<1>3. /\ job' \in [Threads -> Jobs]
      /\ job'[t].at = "leaving" /\ job'[t].id = s
      /\ \A r \in Threads : r # t => job'[r] = job[r]
  <2>1. s \in Nat
    BY <1>1, Lengths DEF Shifts
  <2> QED BY <1>1, <1>2, <2>1, ThreadGoes
<1>4. HiresRest /\ ClocksGoOn
  <2>1. job[t].at \notin {"hiring", "linking"}
    BY <1>1, Idles
  <2> QED BY <1>1, <1>3, <2>1, OneClockGoesOn
<1>5. OpenShiftsAreExplained' /\ ShiftsAdd /\ ServerMoves /\ faults' \in 0 .. MaxFaults
  BY <1>1, ShiftsUnread, ServerRests DEF TypeOK
<1>6. \A r \in ClockingIn' : r \in ClockingIn /\ job'[r] = job[r]
  BY <1>3 DEF ClockingIn
<1>7. ClockInsAreMarked' /\ ShiftRoom'
  BY <1>1, <1>6, MarksUnread, ShiftRoomKept
<1> QED BY <1>4, <1>5, <1>7, ClocksKeep

LEMMA ClockOutWritesKeeps ==
    ASSUME IInv, NEW t \in Threads, ClockOutWrites(t)
    PROVE  IInv'
<1>1. /\ job[t].at = "leaving" /\ Closed(job[t].id) /\ Return(t) /\ TypeOK
      /\ UNCHANGED <<account, hr, call, wish, lost, broken, faults>>
  BY DEF ClockOutWrites, IInv
<1>2. PICK s \in Shifts : s = job[t].id
  BY <1>1 DEF IInv, ThreadsAreWhole
<1>3. /\ job' \in [Threads -> Jobs] /\ job'[t] = Idle
      /\ \A r \in Threads : r # t => job'[r] = job[r]
  BY <1>1, ThreadReturns
<1>4. HiresRest /\ ClocksGoOn /\ ServerMoves
  BY <1>1, <1>3, OneClockGoesOn, ServerRests
<1>5. \A r \in ClockingIn' : r \in ClockingIn /\ job'[r] = job[r]
  BY <1>3, Idles DEF ClockingIn
<1> QED BY <1>1, <1>2, <1>4, <1>5, ClosedKeeps

\* The server clocks somebody out: it looks, then it writes or fails.
LEMMA ServerClocksOutKeeps ==
    ASSUME IInv, \/ \E u \in Accounts : ServerClocksOut(u)
                 \/ ServerCloses \/ ServerClockFails
    PROVE  IInv'
<1>1. UNCHANGED <<account, job, call, wish, lost, broken>> /\ TypeOK
  BY DEF ServerClocksOut, ServerCloses, ServerClockFails, IInv
<1>2. HiresRest /\ ClocksGoOn
  BY <1>1 DEF HiresRest, ClocksGoOn, TypeOK
<1>3. \A r \in ClockingIn' : r \in ClockingIn /\ job'[r] = job[r]
  BY <1>1 DEF ClockingIn
<1>4. faults \in 0 .. MaxFaults
  BY <1>1 DEF TypeOK
<1>5. CASE ServerCloses
  <2>1. hr.id \in Shifts /\ Closed(hr.id) /\ hr' = NoRequest /\ UNCHANGED faults
    BY <1>5 DEF ServerCloses, IInv, ServerIsWhole
  <2>2. ServerMoves
    BY <2>1, Idles DEF ServerMoves
  <2> QED BY <1>2, <1>3, <2>1, <2>2, ClosedKeeps
<1>6. CASE ServerClockFails \/ \E u \in Accounts : ServerClocksOut(u)
  <2>1. shift' = shift /\ (faults' = faults \/ (faults < MaxFaults /\ faults' = faults + 1))
    BY <1>6 DEF ServerClocksOut, ServerClockFails
  <2>2. faults' \in 0 .. MaxFaults
    BY <1>4, <2>1, StaffConstants
  <2>3. ServerMoves
    <3>1. CASE ServerClockFails
      BY <3>1, Idles DEF ServerMoves, ServerClockFails
    <3>2. CASE \E u \in Accounts : ServerClocksOut(u)
      <4>1. PICK s \in Shifts : hr' = [NoRequest EXCEPT !.at = "closing", !.id = s]
        BY <3>2 DEF ServerClocksOut, OpenShifts
      <4>2. hr' = [at |-> "closing", call |-> Nobody, suffix |-> 0, id |-> s]
        BY <4>1 DEF NoRequest
      <4>3. s \in Nat
        BY <1>1, Lengths DEF Shifts
      <4> QED BY <4>2, <4>3, StaffConstants DEF ServerMoves, Requests
    <3> QED BY <1>6, <3>1, <3>2
  <2>4. OpenShiftsAreExplained' /\ ShiftsAdd
    BY <1>1, <2>1, ShiftsUnread
  <2>5. ClockInsAreMarked' /\ ShiftRoom'
    BY <1>1, <1>3, <2>1, MarksUnread, ShiftRoomKept
  <2> QED BY <1>2, <2>2, <2>3, <2>4, <2>5, ClocksKeep
<1> QED BY <1>5, <1>6

-----------------------------------------------------------------------------
(* Removal and return.                                                     *)

LEMMA Mapped ==
    ASSUME NEW X, NEW s \in Seq(X), NEW f \in [1 .. Len(s) -> X]
    PROVE  f \in Seq(X) /\ Len(f) = Len(s) /\ Len(s) \in Nat
OBVIOUS

LEMMA MarkedShift ==
    ASSUME NEW r \in ShiftRows
    PROVE  /\ Marked(r) \in ShiftRows /\ Marked(r).user = r.user /\ Marked(r).open = r.open
           /\ Marked(r).by = r.by /\ Marked(r).notes = r.notes \cup {"removed"}
<1>1. Marked(r) = [user |-> r.user, open |-> r.open, by |-> r.by, notes |-> r.notes \cup {"removed"}]
  BY DEF Marked, ShiftRows
<1>2. /\ r.user \in 1 .. MaxAccounts /\ r.open \in BOOLEAN /\ r.by \in {"self", "server", "rota"}
      /\ r.notes \in SUBSET {"removed", "raced"}
  BY DEF ShiftRows
<1> QED BY <1>1, <1>2 DEF ShiftRows

LEMMA MarkedJob ==
    ASSUME NEW j \in Jobs
    PROVE  /\ Marked(j) \in Jobs /\ Marked(j).at = j.at /\ Marked(j).who = j.who
           /\ Marked(j).id = j.id /\ Marked(j).notes = j.notes \cup {"removed"}
<1>1. Marked(j) = [at |-> j.at, who |-> j.who, id |-> j.id, notes |-> j.notes \cup {"removed"}]
  BY DEF Marked, Jobs
<1> QED BY <1>1 DEF Jobs

LEMMA RemoveKeeps ==
    ASSUME IInv, NEW u \in Accounts, Remove(u)
    PROVE  IInv'
<1>1. /\ TypeOK /\ job \in [Threads -> Jobs] /\ account[u].link = "active"
      /\ shift \in Seq(ShiftRows) /\ \A s \in Shifts : shift[s] \in ShiftRows /\ shift[s].user \in Accounts
      /\ UNCHANGED <<hr, call, wish, lost, broken, faults>>
  BY DEF Remove, IInv, TypeOK, Shifts
<1>2. /\ account' \in Seq(AccountRows) /\ Len(account') = Len(account) /\ Accounts' = Accounts
      /\ account'[u].link = "inactive"
      /\ \A v \in Accounts : /\ account'[v].who = account[v].who
                             /\ account'[v].suffix = account[v].suffix
                             /\ account'[v].mail = account[v].mail
                             /\ v # u => account'[v] = account[v]
  <2>1. account' = [account EXCEPT ![u].link = "inactive"]
    BY DEF Remove
  <2> QED BY <1>1, <2>1, RowLinked
<1>3. /\ shift' \in Seq(ShiftRows) /\ Len(shift') = Len(shift) /\ Shifts' = Shifts
      /\ \A s \in Shifts : /\ shift'[s].user = shift[s].user /\ shift'[s].open = shift[s].open
                           /\ shift'[s].by = shift[s].by /\ shift[s].notes \subseteq shift'[s].notes
                           /\ shift[s].user = u /\ shift[s].open => "removed" \in shift'[s].notes
  <2>1. shift' = [s \in Shifts |->
            IF shift[s].user = u /\ shift[s].open THEN Marked(shift[s]) ELSE shift[s]]
    BY DEF Remove
  <2>2. shift' \in [1 .. Len(shift) -> ShiftRows]
    BY <1>1, <2>1, MarkedShift DEF Shifts
  <2>3. shift' \in Seq(ShiftRows) /\ Len(shift') = Len(shift)
    BY <1>1, <2>2, Mapped
  <2>4. \A s \in Shifts : /\ shift'[s].user = shift[s].user /\ shift'[s].open = shift[s].open
                          /\ shift'[s].by = shift[s].by /\ shift[s].notes \subseteq shift'[s].notes
                          /\ shift[s].user = u /\ shift[s].open => "removed" \in shift'[s].notes
    BY <1>1, <2>1, MarkedShift
  <2> QED BY <2>3, <2>4 DEF Shifts
<1>4. /\ job' \in [Threads -> Jobs]
      /\ \A t \in Threads : /\ job'[t].at = job[t].at /\ job'[t].who = job[t].who
                            /\ job'[t].id = job[t].id /\ job[t].notes \subseteq job'[t].notes
                            /\ t \notin ClockingIn => job'[t] = job[t]
                            /\ t \in ClockingIn /\ job[t].id = u => "removed" \in job'[t].notes
  <2>1. job' = [t \in Threads |->
            IF job[t].at \in {"admitted", "looked"} /\ job[t].id = u THEN Marked(job[t]) ELSE job[t]]
    BY DEF Remove
  <2> QED BY <1>1, <2>1, MarkedJob DEF ClockingIn
<1>5. /\ Hiring' = Hiring /\ Calling' = Calling /\ ClockingIn' = ClockingIn
      /\ \A p : Forms(p)' = Forms(p) /\ Waiting(p)' = Waiting(p)
  BY <1>1, <1>4 DEF Hiring, Calling, ClockingIn, Forms, Waiting
<1>6. \A t \in Threads : job[t].at = "linking" => job'[t] = job[t]
  BY <1>4 DEF ClockingIn
<1>7. TypeOK'
  BY <1>1, <1>2, <1>3, <1>4 DEF TypeOK
<1>8. ThreadsAreWhole'
  <2> SUFFICES ASSUME NEW t \in Threads
               PROVE  /\ job'[t].at = "idle" => job'[t] = Idle
                      /\ job'[t].at \in {"hiring", "linking"} => job'[t].who \in People
                      /\ job'[t].at \in {"linking", "admitted", "looked"} => job'[t].id \in Accounts
                      /\ job'[t].at = "linking" => /\ account'[job'[t].id].who = job'[t].who
                                                   /\ account'[job'[t].id].link = "none"
                                                   /\ job'[t].id \notin broken
                      /\ job'[t].at = "leaving" => job'[t].id \in Shifts
    BY <1>1, <1>2, <1>3 DEF ThreadsAreWhole
  <2>1. CASE t \in ClockingIn
    BY <1>4, <2>1 DEF ClockingIn, IInv, ThreadsAreWhole
  <2>2. CASE t \notin ClockingIn
    BY <1>1, <1>2, <1>4, <2>2 DEF IInv, ThreadsAreWhole
  <2> QED BY <2>1, <2>2
<1>9. ServerIsWhole'
  BY <1>1, <1>3, <1>5 DEF IInv, ServerIsWhole
<1>10. AccountRoom' /\ ShiftRoom'
  BY <1>2, <1>3, <1>5, AccountRoomKept, ShiftRoomKept
<1>11. OneRequestAsks'
  BY <1>1, <1>5 DEF IInv, OneRequestAsks
<1>12. NamesAreUnique' /\ LinkedOrBroken'
  <2>1. \A v \in Accounts : account'[v].link = "none" => account[v].link = "none"
    BY <1>2
  <2> QED BY <1>1, <1>2, <1>6, <2>1, NamesStay, LinksStay
<1>13. HiresAreKnown'
  <2>1. \A v \in Accounts : account[v].link # "none" => account'[v].link # "none"
    BY <1>2
  <2> QED BY <1>1, <1>2, <1>6, <2>1, HiresStayKnown
<1>14. OnShiftAreStaff'
  <2> SUFFICES ASSUME NEW s \in Shifts, shift'[s].open, shift'[s].by = "self"
               PROVE  account'[shift'[s].user].link = "active" \/ "removed" \in shift'[s].notes
    BY <1>3 DEF OnShiftAreStaff
  <2>1. account[shift[s].user].link = "active" \/ "removed" \in shift[s].notes
    BY <1>3 DEF IInv, OpenShiftsAreExplained, OnShiftAreStaff
  <2> QED BY <1>1, <1>2, <1>3, <2>1
<1>15. SecondShiftsRaced'
  BY <1>3 DEF IInv, OpenShiftsAreExplained, SecondShiftsRaced
<1>16. ClockInsAreMarked'
  <2> SUFFICES ASSUME NEW t \in ClockingIn
               PROVE  /\ account'[job'[t].id].link = "active" \/ "removed" \in job'[t].notes
                      /\ job'[t].at = "looked" =>
                            \/ \A s \in Shifts : shift'[s].user = job'[t].id => ~shift'[s].open
                            \/ "raced" \in job'[t].notes
    BY <1>3, <1>5 DEF ClockInsAreMarked, OpenShifts
  <2>1. /\ t \in Threads /\ job[t].id \in Accounts
        /\ account[job[t].id].link = "active" \/ "removed" \in job[t].notes
        /\ job[t].at = "looked" => OpenShifts(job[t].id) = {} \/ "raced" \in job[t].notes
    BY Clocker
  <2>2. OpenShifts(job[t].id) = {} => \A s \in Shifts : shift[s].user = job[t].id => ~shift[s].open
    BY DEF OpenShifts
  <2> QED BY <1>2, <1>3, <1>4, <2>1, <2>2
<1> QED BY <1>7, <1>8, <1>9, <1>10, <1>11, <1>12, <1>13, <1>14, <1>15, <1>16, RoomOK
        DEF IInv, OpenShiftsAreExplained

LEMMA ReactivateKeeps ==
    ASSUME IInv, NEW u \in Accounts, Reactivate(u)
    PROVE  IInv'
<1>1. /\ TypeOK /\ account[u].link = "inactive" /\ Len(account) \in Nat
      /\ UNCHANGED <<shift, job, hr, call, wish, lost, broken, faults>>
  BY Lengths DEF Reactivate, IInv
<1>2. /\ account' \in Seq(AccountRows) /\ Len(account') = Len(account) /\ Accounts' = Accounts
      /\ account'[u].link = "active"
      /\ \A v \in Accounts : /\ account'[v].who = account[v].who
                             /\ account'[v].suffix = account[v].suffix
                             /\ account'[v].mail = account[v].mail
                             /\ v # u => account'[v] = account[v]
  <2>1. account' = [account EXCEPT ![u].link = "active"]
    BY DEF Reactivate
  <2> QED BY <1>1, <2>1, RowLinked
<1>3. StaffStays /\ SameClockIns
  BY <1>1, <1>2 DEF StaffStays, SameClockIns
<1>4. ClockInsAreMarked' /\ OpenShiftsAreExplained' /\ ShiftRoom'
  BY <1>1, <1>3, ShiftsStay
<1>5. /\ Hiring' = Hiring /\ Calling' = Calling
      /\ \A p : Forms(p)' = Forms(p) /\ Waiting(p)' = Waiting(p)
  BY <1>1 DEF Hiring, Calling, Forms, Waiting
<1>6. TypeOK'
  BY <1>1, <1>2 DEF TypeOK, Shifts
<1>7. ThreadsAreWhole'
  BY <1>1, <1>2 DEF IInv, ThreadsAreWhole, Shifts
<1>8. ServerIsWhole'
  BY <1>1, <1>5 DEF IInv, ServerIsWhole, Shifts
<1>9. AccountRoom'
  BY <1>2, <1>5, AccountRoomKept
<1>10. OneRequestAsks'
  BY <1>1, <1>5 DEF IInv, OneRequestAsks
<1>11. NamesAreUnique' /\ LinkedOrBroken'
  <2>1. \A v \in Accounts : account'[v].link = "none" => account[v].link = "none"
    BY <1>2
  <2> QED BY <1>1, <1>2, <2>1, NamesStay, LinksStay
<1>12. HiresAreKnown'
  <2>1. \A v \in Accounts : account[v].link # "none" => account'[v].link # "none"
    BY <1>2
  <2> QED BY <1>1, <1>2, <2>1, HiresStayKnown
<1> QED BY <1>4, <1>6, <1>7, <1>8, <1>9, <1>10, <1>11, <1>12, RoomOK DEF IInv

-----------------------------------------------------------------------------
(* The theorems.                                                           *)

LEMMA Initially == ASSUME Init PROVE IInv
<1>1. /\ account = << >> /\ shift = << >> /\ Len(account) = 0 /\ Len(shift) = 0
      /\ Accounts = {} /\ Shifts = {}
  BY DEF Init, Accounts, Shifts
<1>2. /\ \A t \in Threads : job[t] = Idle
      /\ \A c \in Calls : call[c] = NoCall
      /\ \A p \in People : wish[p] = "wanted"
      /\ hr = NoRequest /\ broken = {} /\ lost = {}
  BY DEF Init
<1>3. /\ Hiring = {} /\ Calling = {} /\ ClockingIn = {}
      /\ \A p \in People : Forms(p) = {} /\ Waiting(p) = {} /\ Theirs(p) = {}
  BY <1>1, <1>2, Idles DEF Hiring, Calling, ClockingIn, Forms, Waiting, Theirs
<1>4. TypeOK
  <2>1. account \in Seq(AccountRows) /\ shift \in Seq(ShiftRows)
    BY <1>1
  <2>2. job \in [Threads -> Jobs] /\ call \in [Calls -> CallRows] /\ hr \in Requests
    BY Idles DEF Init
  <2>3. wish \in [People -> {"wanted", "asked", "hired"}] /\ faults \in 0 .. MaxFaults
    BY StaffConstants DEF Init
  <2> QED BY <1>1, <1>2, <2>1, <2>2, <2>3 DEF TypeOK
<1>5. ThreadsAreWhole /\ ServerIsWhole
  BY <1>2, Idles DEF ThreadsAreWhole, ServerIsWhole
<1>6. RoomIsKept
  BY <1>1, <1>3, FS_EmptySet, StaffConstants DEF RoomIsKept
<1>7. OneRequestAsks /\ HiresAreKnown
  BY <1>2, <1>3 DEF OneRequestAsks, HiresAreKnown
<1>8. NamesAreUnique /\ LinkedOrBroken /\ ClockInsAreMarked /\ OpenShiftsAreExplained
  BY <1>1, <1>3 DEF NamesAreUnique, LinkedOrBroken, ClockInsAreMarked, OpenShiftsAreExplained,
                    OnShiftAreStaff, SecondShiftsRaced
<1> QED BY <1>4, <1>5, <1>6, <1>7, <1>8 DEF IInv

LEMMA StutterKeeps == ASSUME IInv, UNCHANGED vars PROVE IInv'
BY DEF vars, IInv, TypeOK, ThreadsAreWhole, ServerIsWhole, RoomIsKept, OneRequestAsks,
       NamesAreUnique, LinkedOrBroken, ClockInsAreMarked, OpenShiftsAreExplained, OnShiftAreStaff,
       SecondShiftsRaced, HiresAreKnown, Accounts, Shifts, Hiring, Calling, ClockingIn, Forms,
       Waiting, Theirs, OpenShifts

LEMMA StepKeeps == ASSUME IInv, [Next]_vars PROVE IInv'
<1>1. CASE \E t \in Threads : ThreadGoesOn(t)
  BY <1>1, FormAddsUserKeeps, FormLinksKeeps, ClockInLooksKeeps, ClockInInsertsKeeps,
     ClockOutWritesKeeps DEF ThreadGoesOn
<1>2. CASE ServerGoesOn
  BY <1>2, ServerClocksOutKeeps, ServerAddsKeeps DEF ServerGoesOn
<1>3. CASE Faults
  BY <1>3, FormLinksKeeps, ThreadFailsKeeps, ServerAddsKeeps, ServerClocksOutKeeps DEF Faults
<1>4. CASE Owner
  BY <1>4, FormChecksKeeps, AskServerKeeps, GiveUpKeeps, ServerLooksKeeps, RemoveKeeps,
     ReactivateKeeps, ServerInsertsKeeps, ServerClocksOutKeeps DEF Owner
<1>5. CASE Employees
  BY <1>5, ClockInKeeps, ClockOutKeeps DEF Employees
<1>6. CASE UNCHANGED vars
  BY <1>6, StutterKeeps
<1> QED BY <1>1, <1>2, <1>3, <1>4, <1>5, <1>6 DEF Next

\* However the form, the agent's server, the removals and the clocks interleave,
\* break off and repeat, usernames and addresses stay unique, no account is
\* without its shop but those of forms that broke off, and requests under way
\* are what they were (rest_add_employee, add_employee_handler, clock_in, clock_out).
THEOREM StaffInvariance == Spec => []IInv
<1>1. Init => IInv
  BY Initially
<1>2. IInv /\ [Next]_vars => IInv'
  BY StepKeeps
<1> QED BY <1>1, <1>2, PTL DEF Spec

\* An open shift is of somebody on the staff, or of somebody removed meanwhile,
\* and a second one of the same person comes from a race or the HR server
\* (clock_in, clock_out, remove_employee, clock_in_employee_handler).
THEOREM ShiftsAreExplained == Spec => []OpenShiftsAreExplained
<1>1. IInv => OpenShiftsAreExplained
  BY DEF IInv
<1> QED BY <1>1, StaffInvariance, PTL

\* A person whose answers all arrived has at most one whole account, and an
\* owner who was told of a hire has the employee (rest_add_employee,
\* add_employee_handler, the agent's retries).
THEOREM HiresHappenOnce == Spec => []HiredOnce
<1>1. IInv => HiredOnce
  <2> SUFFICES ASSUME IInv, NEW p \in People
               PROVE  /\ Cardinality(Theirs(p)) <= 1 \/ p \in lost
                      /\ wish[p] = "hired" => \E u \in Theirs(p) : account[u].link # "none"
    BY DEF HiredOnce
  <2>1. /\ p \notin lost => \A u, v \in Theirs(p) : u = v
        /\ wish[p] = "hired" => \E u \in Theirs(p) : account[u].link # "none"
    BY DEF IInv, HiresAreKnown
  <2>2. CASE Theirs(p) = {}
    BY <2>1, <2>2, FS_EmptySet
  <2>3. CASE p \notin lost /\ Theirs(p) # {}
    <3>1. PICK u : Theirs(p) = {u}
      BY <2>1, <2>3
    <3>2. Cardinality({u}) = 1
      BY FS_Singleton
    <3> QED BY <2>1, <3>1, <3>2
  <2> QED BY <2>1, <2>2, <2>3
<1> QED BY <1>1, StaffInvariance, PTL
=============================================================================
