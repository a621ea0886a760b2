-------------------------- MODULE LivePagesProofs --------------------------
(***************************************************************************)
(* The pages beside the queue, for any number of customers, sockets, polls *)
(* under way, changes and failures: connections stay in order, and a       *)
(* customer in line keeps their place.                                     *)
(***************************************************************************)
EXTENDS LivePages, FiniteSetTheorems, SequenceTheorems, TLAPS

-----------------------------------------------------------------------------
(* Sequences without repetition.                                           *)

\* A set of natural numbers has a smallest one.
LEMMA Smallest ==
    ASSUME NEW S \in SUBSET Nat, S # {}
    PROVE  \E n \in S : \A k \in S : n <= k
<1>1. PICK n \in S : \A k \in S : ~(<<k, n>> \in OpToRel(<, Nat))
  BY NatLessThanWellFounded, WFMin
<1>2. \A k \in S : ~(k < n)
  BY <1>1 DEF OpToRel
<1> QED BY <1>2

\* The first place with a property exists.
LEMMA FirstPlace ==
    ASSUME NEW n \in Nat, NEW I \in SUBSET (1 .. n), I # {}
    PROVE  Min(I) \in I
<1>1. I \in SUBSET Nat
  OBVIOUS
<1>2. PICK m \in I : \A k \in I : m <= k
  BY <1>1, Smallest
<1> QED BY <1>2 DEF Min

LEMMA RangeOf == ASSUME NEW X, NEW s \in Seq(X) PROVE Range(s) = {s[i] : i \in 1 .. Len(s)}
BY DEF Range

Once(s) == \A i, j \in 1 .. Len(s) : s[i] = s[j] => i = j

\* Removing an element takes it out, and nothing else comes in.
LEMMA Removed ==
    ASSUME NEW X, NEW s \in Seq(X), NEW k, Once(s)
    PROVE  /\ RemoveFirst(s, k) \in Seq(X) /\ Once(RemoveFirst(s, k))
           /\ \A x \in Range(RemoveFirst(s, k)) : x \in Range(s) /\ x # k
<1>1. CASE \E i \in 1 .. Len(s) : s[i] = k
  <2> DEFINE I == {i \in 1 .. Len(s) : s[i] = k}
             m == Min(I)
             t == SubSeq(s, 1, m - 1) \o SubSeq(s, m + 1, Len(s))
  <2>1. I # {} /\ I \in SUBSET (1 .. Len(s)) /\ Len(s) \in Nat
    BY <1>1
  <2>2. m \in 1 .. Len(s) /\ s[m] = k
    <3> HIDE DEF m
    <3>1. m \in I
      BY <2>1, FirstPlace DEF m
    <3> QED BY <3>1
  <2>3. RemoveFirst(s, k) = t
    BY <1>1 DEF RemoveFirst, RemoveAt, SelectInSeq
  <2> HIDE DEF m, I
  <2>4. /\ t \in Seq(X) /\ Len(t) = Len(s) - 1
        /\ \A i \in 1 .. Len(t) : t[i] = IF i < m THEN s[i] ELSE s[i + 1]
    <3> DEFINE a == SubSeq(s, 1, m - 1)
               b == SubSeq(s, m + 1, Len(s))
    <3>1. a \in Seq(X) /\ Len(a) = m - 1 /\ \A i \in 1 .. m - 1 : a[i] = s[i]
      BY <2>1, <2>2
    <3>2. b \in Seq(X) /\ Len(b) = Len(s) - m /\ \A i \in 1 .. Len(s) - m : b[i] = s[m + i]
      BY <2>1, <2>2
    <3>3. t = a \o b
      OBVIOUS
    <3> HIDE DEF a, b, t
    <3>6. /\ t \in Seq(X) /\ Len(t) = Len(a) + Len(b)
          /\ \A i \in 1 .. Len(a) + Len(b) : t[i] = IF i <= Len(a) THEN a[i] ELSE b[i - Len(a)]
      BY <3>1, <3>2, <3>3, ConcatProperties
    <3>4. t \in Seq(X) /\ Len(t) = Len(s) - 1
      BY <2>1, <2>2, <3>1, <3>2, <3>6
    <3>5. \A i \in 1 .. Len(t) : t[i] = IF i < m THEN s[i] ELSE s[i + 1]
      <4> TAKE i \in 1 .. Len(t)
      <4>0. i \in Nat /\ i >= 1 /\ i <= Len(s) - 1 /\ Len(a) = m - 1 /\ m \in Nat /\ Len(s) \in Nat
        BY <2>1, <2>2, <3>1, <3>4
      <4>3. t[i] = IF i <= Len(a) THEN a[i] ELSE b[i - Len(a)]
        BY <3>4, <3>6
      <4>1. CASE i < m
        <5>1. i \in 1 .. m - 1 /\ i <= Len(a)
          BY <4>0, <4>1
        <5> QED BY <3>1, <4>1, <4>3, <5>1
      <4>2. CASE ~(i < m)
        <5>1. /\ i - (m - 1) \in 1 .. Len(s) - m /\ m + (i - (m - 1)) = i + 1
              /\ ~(i <= Len(a)) /\ i - Len(a) = i - (m - 1)
          BY <4>0, <4>2
        <5>2. t[i] = b[i - (m - 1)]
          BY <4>3, <5>1
        <5> QED BY <3>2, <4>2, <5>1, <5>2
      <4> QED BY <4>1, <4>2
    <3> QED BY <3>4, <3>5
  <2> HIDE DEF t
  <2> DEFINE Old(i) == IF i < m THEN i ELSE i + 1
  <2>8. /\ \A i \in 1 .. Len(t) : Old(i) \in 1 .. Len(s) /\ Old(i) # m
        /\ \A i, j \in 1 .. Len(t) : Old(i) = Old(j) => i = j
    <3>1. Len(t) = Len(s) - 1 /\ Len(s) \in Nat /\ m \in 1 .. Len(s)
      BY <2>1, <2>2, <2>4
    <3> QED BY <3>1
  <2>9. \A i \in 1 .. Len(t) : t[i] = s[Old(i)]
    BY <2>4
  <2> HIDE DEF Old
  <2>5. \A i \in 1 .. Len(t) : \E j \in 1 .. Len(s) : j # m /\ t[i] = s[j]
    BY <2>8, <2>9
  <2>6. Once(t)
    BY <2>8, <2>9 DEF Once
  <2>7. \A x \in Range(t) : x \in Range(s) /\ x # k
    <3>1. Range(t) = {t[i] : i \in 1 .. Len(t)} /\ Range(s) = {s[i] : i \in 1 .. Len(s)}
      BY <2>4, RangeOf
    <3>2. \A j \in 1 .. Len(s) : j # m => s[j] # k
      BY <2>2 DEF Once
    <3> QED BY <2>5, <3>1, <3>2
  <2> QED BY <2>3, <2>4, <2>6, <2>7
<1>2. CASE ~\E i \in 1 .. Len(s) : s[i] = k
  BY <1>2 DEF RemoveFirst, Range
<1> QED BY <1>1, <1>2

LEMMA Appended ==
    ASSUME NEW X, NEW s \in Seq(X), NEW k \in X, Once(s), k \notin Range(s)
    PROVE  /\ Append(s, k) \in Seq(X) /\ Once(Append(s, k))
           /\ Range(Append(s, k)) = Range(s) \cup {k}
BY DEF Once, Range

-----------------------------------------------------------------------------
(* The invariant in parts.                                                 *)

ListInOrder ==
    /\ Once(listed)
    /\ \A k \in Range(listed) : sock[k].server = "receiving"

\* A browser has one live socket at most.
SocketsInOrder == \A b \in Browsers : \A j, k \in LiveSockets(b) : j = k

\* What a socket says of itself.
SocketsAreWhole ==
    \A k \in Sockets : /\ sock[k].unread > 0 => sock[k].client # "closed"
                       /\ sock[k].client # "closed" => sock[k].of \in Browsers

NoSnapshotComes == \A b \in Browsers : Expects(b) => \A k \in LiveSockets(b) : ~SnapshotComes(k)

Understood(b, p) ==
    /\ p.stage = "metrics" => p.view = "reception"
    /\ p.stage \in {"answered", "metrics"} =>
        /\ p.list[b] = "deleted" => status[b] = "deleted"
        /\ p.list[b] = "over" => status[b] \in {"over", "deleted"} \/ b \in returned
        /\ p.list[b] = "none" /\ p.view = "reception" =>
                page[b].at \in {"reception", "joining"} \/ b \in raced \cup LeftBehind

LEMMA OneAtMost ==
    ASSUME NEW S, IsFiniteSet(S)
    PROVE  Cardinality(S) <= 1 <=> \A x, y \in S : x = y
<1>1. Cardinality(S) \in Nat /\ (Cardinality(S) = 0 <=> S = {})
  BY FS_CardinalityType, FS_EmptySet
<1>2. Cardinality(S) = 1 <=> \E x : S = {x}
  BY FS_Singleton
<1>3. ASSUME Cardinality(S) <= 1 PROVE \A x, y \in S : x = y
  BY <1>1, <1>2, <1>3
<1>4. ASSUME \A x, y \in S : x = y PROVE Cardinality(S) <= 1
  <2>1. S = {} \/ \E x : S = {x}
    BY <1>4
  <2> QED BY <1>1, <1>2, <2>1
<1> QED BY <1>1, <1>3, <1>4

LEMMA SocketsSplit ==
    (\A b \in Browsers : Cardinality(LiveSockets(b)) <= 1) <=> SocketsInOrder
<1>1. ASSUME NEW b \in Browsers
      PROVE  Cardinality(LiveSockets(b)) <= 1 <=> \A j, k \in LiveSockets(b) : j = k
  <2>1. IsFiniteSet(Sockets)
    BY FS_Interval, PageConstants DEF Sockets
  <2>2. IsFiniteSet(LiveSockets(b))
    BY <2>1, FS_Subset DEF LiveSockets
  <2> QED BY <2>2, OneAtMost
<1> QED BY <1>1 DEF SocketsInOrder

LEMMA Parts ==
    IInv <=> /\ TypeOK /\ ListInOrder /\ SocketsInOrder /\ SocketsAreWhole /\ NoSnapshotComes
             /\ PlacesAreKept /\ JoinersMoveOn
             /\ \A b \in Browsers, n \in PollSlots : Understood(b, poll[b][n])
<1>1. ConnectionsInOrder <=> ListInOrder /\ SocketsInOrder
  BY SocketsSplit DEF ConnectionsInOrder, ListInOrder, Once
<1>2. SnapshotsAreFresh <=> SocketsAreWhole /\ NoSnapshotComes
  BY DEF SnapshotsAreFresh, SocketsAreWhole, NoSnapshotComes
<1>3. ListsAreUnderstood <=> \A b \in Browsers, n \in PollSlots : Understood(b, poll[b][n])
  BY DEF ListsAreUnderstood, Understood
<1> QED BY <1>1, <1>2, <1>3 DEF IInv

\* The primed form of the same, as the steps need it.
LEMMA PartsPrime ==
    IInv' <=> /\ TypeOK' /\ ListInOrder' /\ SocketsInOrder' /\ SocketsAreWhole' /\ NoSnapshotComes'
              /\ PlacesAreKept' /\ JoinersMoveOn'
              /\ (\A b \in Browsers, n \in PollSlots : Understood(b, poll[b][n]))'
BY Parts, PTL

-----------------------------------------------------------------------------
(* Changes of the queue.                                                   *)

\* What rows may become: deleted rows and those not yet there stay so, but for
\* those that join; no row that was there comes to have never been.
RowsGoOn(new) ==
    /\ new \in Lists
    /\ \A c \in Customers : /\ status[c] = "deleted" => new[c] = "deleted"
                            /\ new[c] = "none" => status[c] = "none"
                            /\ status[c] = "none" => new[c] \in {"none", "waiting"}

\* What queues may become meanwhile: the active one is closed or not, and only who
\* joins gets a queue, the active one.
QueuesGoOn(new) ==
    /\ active' \in {active, active + 1}
    /\ queueOf' \in [Customers -> 0 .. active]
    /\ \A c \in Customers : /\ queueOf[c] # 0 => queueOf'[c] = queueOf[c]
                            /\ queueOf'[c] = 0 <=> new[c] = "none"

\* What pages may become meanwhile: one on the reception page joins, and only who
\* is not in line forgets the id.
PagesFollow(new) ==
    /\ page' \in [Browsers -> Pages]
    /\ \A b \in Browsers :
        /\ page'[b].at = page[b].at \/ (page[b].at = "reception" /\ page'[b].at = "joining")
        /\ page'[b].at = "reception" <=> new[b] = "none"
        /\ page'[b].saved = page[b].saved \/ new[b] \notin Active

\* What is sent: snapshots of an empty line only, to those listed.
SendsFollow(new) ==
    /\ listed' \in {listed, <<>>} /\ sends' \subseteq Sends
    /\ \A s \in sends' : \/ s \in sends
                         \/ s.type # "shop_live_snapshot"
                         \/ \A c \in Customers : queueOf'[c] = active' => new[c] \notin Active

LEMMA ChangeKeeps ==
    ASSUME IInv, NEW new, Change(new), RowsGoOn(new), QueuesGoOn(new), PagesFollow(new),
           SendsFollow(new),
           UNCHANGED <<poll, sock, faults, raced>>
    PROVE  IInv'
<1> USE Parts DEF Customers
<1>1. status' = new /\ returned' = returned \cup Revived(new)
  BY DEF Change
<1>2. TypeOK'
  <2>1. changes' \in 0 .. MaxChanges
    BY PageConstants DEF Change, TypeOK
  <2>2. returned' \subseteq Customers
    BY <1>1 DEF TypeOK, Revived
  <2>3. listed' \in Seq(Sockets)
    <3>1. <<>> \in Seq(Sockets) /\ listed \in Seq(Sockets)
      BY DEF TypeOK
    <3> QED BY <3>1 DEF SendsFollow
  <2>4. /\ active' \in Queues /\ active' <= changes' + 1
        /\ queueOf' \in [Customers -> 0 .. active']
    <3>1. changes' = changes + 1 /\ changes' <= MaxChanges /\ changes \in Nat
      BY PageConstants DEF Change, TypeOK
    <3>2. active \in Nat /\ 1 <= active /\ active <= changes + 1 /\ MaxChanges \in Nat
      BY PageConstants DEF TypeOK, Queues
    <3>3. 0 .. active \subseteq 0 .. active'
      BY <3>2 DEF QueuesGoOn
    <3> QED BY <3>1, <3>2, <3>3 DEF QueuesGoOn, Queues
  <2> QED BY <1>1, <2>1, <2>2, <2>3, <2>4 DEF TypeOK, RowsGoOn, PagesFollow, SendsFollow
<1>3. ListInOrder'
  <2>1. listed' = listed \/ listed' = <<>>
    BY DEF SendsFollow
  <2>2. CASE listed' = listed
    BY <2>2 DEF ListInOrder, Once
  <2>3. CASE listed' = <<>>
    BY <2>3 DEF ListInOrder, Once, Range
  <2> QED BY <2>1, <2>2, <2>3
<1>4. \A b \in Browsers : LiveSockets(b)' = LiveSockets(b)
  BY DEF LiveSockets
<1>5. SocketsInOrder'
  BY <1>4 DEF SocketsInOrder
<1>6. SocketsAreWhole'
  BY DEF SocketsAreWhole
<1>12. LeftBehind \subseteq LeftBehind'
  <2>1. active \in Nat /\ active' \in Nat /\ active <= active'
    BY DEF TypeOK, Queues, QueuesGoOn
  <2> QED BY <2>1 DEF LeftBehind, QueuesGoOn
\* Who is to be kept in line was so before, and is in the active queue.
<1>7. \A b \in Browsers : Expects(b)' => Expects(b) /\ queueOf'[b] = active'
  <2> SUFFICES ASSUME NEW b \in Browsers, Expects(b)'
               PROVE  Expects(b) /\ queueOf'[b] = active'
    OBVIOUS
  <2>0. /\ page'[b].at \in {"told", "queue"} /\ new[b] \in Active /\ b \notin returned'
        /\ b \notin raced /\ b \notin LeftBehind' /\ b \in Customers
    BY <1>1 DEF Expects
  <2>1. page'[b].at = page[b].at
    BY <2>0 DEF PagesFollow
  <2>2. status[b] # "none"
    BY <2>0, <2>1 DEF JoinersMoveOn
  <2>3. status[b] # "deleted"
    BY <2>0 DEF RowsGoOn, Active
  <2>4. status[b] # "over"
    BY <1>1, <2>0 DEF Revived
  <2>5. status[b] \in Statuses
    BY <2>0 DEF TypeOK, Lists
  <2>6. Expects(b)
    BY <1>1, <1>12, <2>0, <2>1, <2>2, <2>3, <2>4, <2>5 DEF Statuses, Expects
  <2>7. queueOf'[b] \in 0 .. active' /\ queueOf'[b] # 0 /\ active' \in Nat
    BY <1>2, <2>0 DEF TypeOK, Queues, QueuesGoOn, Active
  <2>8. ~(queueOf'[b] \in 1 .. active' - 1)
    BY <2>0 DEF LeftBehind
  <2> QED BY <2>6, <2>7, <2>8
<1>8. NoSnapshotComes'
  <2> SUFFICES ASSUME NEW b \in Browsers, Expects(b)', NEW k \in LiveSockets(b)
               PROVE  ~SnapshotComes(k)'
    BY <1>4 DEF NoSnapshotComes
  <2>1. new[b] \in Active /\ Expects(b) /\ queueOf'[b] = active'
    BY <1>1, <1>7 DEF Expects
  <2>2. ~SnapshotComes(k)
    BY <2>1 DEF NoSnapshotComes
  <2> QED BY <2>1, <2>2 DEF SnapshotComes, SendsFollow
<1>9. PlacesAreKept'
  <2> SUFFICES ASSUME NEW b \in Browsers, Expects(b)' PROVE page'[b].saved
    BY DEF PlacesAreKept
  <2>1. page[b].saved /\ new[b] \in Active
    BY <1>1, <1>7 DEF PlacesAreKept, Expects
  <2> QED BY <2>1 DEF PagesFollow
<1>10. JoinersMoveOn'
  BY <1>1 DEF PagesFollow, QueuesGoOn, JoinersMoveOn
<1>11. ASSUME NEW b \in Browsers, NEW n \in PollSlots
       PROVE  Understood(b, poll[b][n])'
  <2>1. Understood(b, poll[b][n])
    OBVIOUS
  <2>2. status[b] = "deleted" => status'[b] = "deleted"
    BY <1>1 DEF RowsGoOn
  <2>3. status[b] = "over" => status'[b] \in {"over", "deleted"} \/ b \in returned'
    <3>1. new[b] \in Statuses
      BY DEF RowsGoOn, Lists
    <3> QED BY <1>1, <3>1 DEF RowsGoOn, Revived, Statuses
  <2>4. page[b].at \in {"reception", "joining"} => page'[b].at \in {"reception", "joining"}
    BY DEF PagesFollow
  <2>5. b \in returned => b \in returned'
    BY <1>1
  <2> QED BY <1>12, <2>1, <2>2, <2>3, <2>4, <2>5 DEF Understood
<1> QED BY <1>2, <1>3, <1>5, <1>6, <1>8, <1>9, <1>10, <1>11, PartsPrime

\* Who joins moves on; the page stays otherwise.
LEMMA SamePages ==
    ASSUME IInv, NEW new, UNCHANGED page, \A b \in Browsers : new[b] = "none" <=> status[b] = "none"
    PROVE  PagesFollow(new)
BY Parts DEF PagesFollow, TypeOK, JoinersMoveOn

LEMMA SameSends == ASSUME IInv, NEW new, UNCHANGED <<listed, sends>> PROVE SendsFollow(new)
BY Parts DEF SendsFollow, TypeOK

\* A snapshot of a line that holds anybody empties the list, any other message
\* goes to those listed.
LEMMA BroadcastFollows ==
    ASSUME IInv, NEW new, new \in Lists, status' = new, NEW m,
           m.type \in {"shop_live_snapshot", "appointment"},
           m.type = "shop_live_snapshot" => m.line = Line',
           changes \in 0 .. MaxChanges,
           Broadcast(m)
    PROVE  SendsFollow(new) /\ UNCHANGED sock
<1> USE Parts
<1>1. CASE m.type = "shop_live_snapshot" /\ m.line # EmptyLine
  BY <1>1, SameSends DEF Broadcast, SendsFollow, TypeOK
<1>2. CASE ~(m.type = "shop_live_snapshot" /\ m.line # EmptyLine)
  <2>1. /\ listed' = listed /\ UNCHANGED sock
        /\ sends' = IF listed = <<>> THEN sends
                    ELSE sends \cup {[id |-> changes, type |-> m.type, to |-> listed]}
    BY <1>2 DEF Broadcast
  <2>2. sends' \subseteq Sends
    BY <2>1 DEF TypeOK, Sends
  <2>3. m.type = "shop_live_snapshot" =>
            \A c \in Customers : queueOf'[c] = active' => new[c] \notin Active
    <3> SUFFICES ASSUME m.type = "shop_live_snapshot",
                        NEW c \in Customers, queueOf'[c] = active', new[c] \in Active
                 PROVE  FALSE
      OBVIOUS
    <3>1. Line' = EmptyLine
      BY <1>2
    <3>2. /\ DOMAIN (Line') = {d \in Customers : (Rows')[d] \in Active}
          /\ DOMAIN EmptyLine = {}
      BY DEF Line, Shown, EmptyLine
    <3>3. (Rows')[c] = new[c]
      BY DEF Rows
    <3> QED BY <3>1, <3>2, <3>3
  <2> QED BY <2>1, <2>2, <2>3 DEF SendsFollow
<1> QED BY <1>1, <1>2

LEMMA AnnounceKeeps ==
    ASSUME IInv, NEW new, Announce(new), RowsGoOn(new), QueuesGoOn(new), PagesFollow(new)
    PROVE  IInv'
<1>1. /\ Change(new) /\ UNCHANGED <<poll, faults, raced>>
      /\ Broadcast([type |-> "shop_live_snapshot", line |-> Line'])
  BY DEF Announce
<1>2. changes \in 0 .. MaxChanges /\ new \in Lists /\ status' = new
  BY <1>1, Parts DEF TypeOK, RowsGoOn, Change
<1>3. SendsFollow(new) /\ UNCHANGED sock
  BY <1>1, <1>2, BroadcastFollows
<1> QED BY <1>1, <1>3, ChangeKeeps

\* Changes that are not announced.
LEMMA QuietKeeps ==
    ASSUME IInv, NEW new, Change(new), RowsGoOn(new), QueuesGoOn(new), PagesFollow(new), Quiet
    PROVE  IInv'
<1>1. UNCHANGED <<poll, sock, faults, raced>> /\ UNCHANGED <<listed, sends>>
  BY DEF Quiet, socketVars
<1> QED BY <1>1, SameSends, ChangeKeeps

\* No queue is closed and nobody joins.
LEMMA SameQueuesGoOn ==
    ASSUME IInv, NEW new, SameQueues, \A c \in Customers : new[c] = "none" <=> status[c] = "none"
    PROVE  QueuesGoOn(new)
BY Parts DEF SameQueues, QueuesGoOn, JoinersMoveOn, TypeOK

\* Rows go on and nobody joins.
NoneJoins(new) == RowsGoOn(new) /\ \A c \in Customers : new[c] = "none" <=> status[c] = "none"

\* Setting the status of one row that is there.
LEMMA RowGoesOn ==
    ASSUME IInv, NEW c \in Customers, InTable(c), NEW s \in Active \cup {"over"}
    PROVE  NoneJoins([status EXCEPT ![c] = s])
BY Parts DEF TypeOK, Lists, Statuses, RowsGoOn, InTable, Active, NoneJoins

LEMMA FinishingGoesOn ==
    ASSUME IInv, NEW q
    PROVE  NoneJoins(Finishing(q))
BY Parts DEF TypeOK, Lists, Statuses, RowsGoOn, Finishing, Serving, Active, NoneJoins

LEMMA EmptiedGoesOn ==
    ASSUME IInv, NEW q
    PROVE  NoneJoins(Emptied(q))
BY Parts DEF TypeOK, Lists, Statuses, RowsGoOn, Emptied, InTable, Active, NoneJoins

LEMMA StatusGoesOn == ASSUME IInv PROVE NoneJoins(status)
BY Parts DEF TypeOK, Lists, RowsGoOn, NoneJoins

\* The changes of rows that are there.
LEMMA AnnouncedChange ==
    ASSUME IInv, NEW new, NoneJoins(new), SameQueues, Announce(new), PagesFollow(new)
    PROVE  IInv'
BY SameQueuesGoOn, AnnounceKeeps DEF NoneJoins

LEMMA PlainPages ==
    ASSUME IInv, NEW new, NoneJoins(new), UNCHANGED page
    PROVE  PagesFollow(new)
BY SamePages DEF NoneJoins, Customers

LEMMA QuietChange ==
    ASSUME IInv, NEW new, NoneJoins(new), SameQueues, Change(new), UNCHANGED page, Quiet
    PROVE  IInv'
BY SameQueuesGoOn, PlainPages, QuietKeeps DEF NoneJoins

\* A join, announced or not.
LEMMA JoinersFollow ==
    ASSUME IInv, NEW c \in Customers, Joins(c)
    PROVE  /\ RowsGoOn([status EXCEPT ![c] = "waiting"])
           /\ QueuesGoOn([status EXCEPT ![c] = "waiting"])
           /\ PagesFollow([status EXCEPT ![c] = "waiting"])
<1> DEFINE new == [status EXCEPT ![c] = "waiting"]
<1> USE Parts
<1>1. status[c] = "none"
  BY DEF Joins
<1>2. RowsGoOn(new)
  BY <1>1 DEF TypeOK, Lists, Statuses, RowsGoOn, Active
<1>3. PagesFollow(new)
  <2>1. CASE c \in Browsers
    <3>1. page[c].at = "reception" /\ page' = [page EXCEPT ![c] = [page[c] EXCEPT !.at = "joining"]]
      BY <2>1 DEF Joins, OnPage
    <3>2. page' \in [Browsers -> Pages]
      BY <3>1 DEF TypeOK, Pages, Reception
    <3>3. ASSUME NEW b \in Browsers
          PROVE  /\ \/ page'[b].at = page[b].at
                    \/ page[b].at = "reception" /\ page'[b].at = "joining"
                 /\ page'[b].at = "reception" <=> new[b] = "none"
                 /\ page'[b].saved = page[b].saved
      BY <1>1, <3>1, <3>3 DEF TypeOK, Pages, Lists, JoinersMoveOn, Customers
    <3> QED BY <3>2, <3>3 DEF PagesFollow
  <2>2. CASE c \notin Browsers
    <3>1. UNCHANGED page
      BY <2>2 DEF Joins
    <3>2. \A b \in Browsers : new[b] = "none" <=> status[b] = "none"
      BY <2>2 DEF TypeOK, Lists, Customers
    <3> QED BY <3>1, <3>2, SamePages
  <2> QED BY <2>1, <2>2
<1>4. QueuesGoOn(new)
  <2>1. queueOf' = [queueOf EXCEPT ![c] = active] /\ active' = active
    BY DEF Joins
  <2>2. queueOf[c] = 0 /\ active \in Nat /\ active # 0 /\ queueOf \in [Customers -> 0 .. active]
    BY <1>1 DEF TypeOK, Queues, JoinersMoveOn
  <2>3. \A d \in Customers : new[d] = IF d = c THEN "waiting" ELSE status[d]
    BY DEF TypeOK, Lists
  <2>4. \A d \in Customers : queueOf'[d] = IF d = c THEN active ELSE queueOf[d]
    BY <2>1, <2>2
  <2>5. queueOf' \in [Customers -> 0 .. active]
    BY <2>1, <2>2
  <2> HIDE DEF new
  <2> QED BY <2>1, <2>2, <2>3, <2>4, <2>5 DEF QueuesGoOn, JoinersMoveOn
<1> QED BY <1>2, <1>3, <1>4

LEMMA JoinKeeps == ASSUME IInv, NEW c \in Customers, Join(c) \/ ServerJoin(c) PROVE IInv'
<1>1. CASE Join(c)
  BY <1>1, JoinersFollow, AnnounceKeeps DEF Join
<1>2. CASE ServerJoin(c)
  BY <1>2, JoinersFollow, QuietKeeps DEF ServerJoin
<1> QED BY <1>1, <1>2

LEMMA SetStatusKeeps ==
    ASSUME IInv, NEW c \in Customers, NEW s \in Active \cup {"over"}, SetStatus(c, s)
    PROVE  IInv'
<1> DEFINE new == [status EXCEPT ![c] = s]
<1>1. InTable(c) /\ SameQueues /\ Announce(new) /\ UNCHANGED page
  BY DEF SetStatus
<1>2. NoneJoins(new)
  BY <1>1, RowGoesOn
<1> HIDE DEF new
<1> QED BY <1>1, <1>2, PlainPages, AnnouncedChange

LEMMA ReassignKeeps == ASSUME IInv, NEW c \in Customers, Reassign(c) PROVE IInv'
<1>1. SameQueues /\ Announce(status) /\ UNCHANGED page
  BY DEF Reassign
<1> QED BY <1>1, StatusGoesOn, PlainPages, AnnouncedChange

LEMMA CallNextKeeps == ASSUME IInv, NEW c \in Customers, CallNext(c) PROVE IInv'
<1> DEFINE old == Finishing(queueOf[c])
           new == [old EXCEPT ![c] = "being_served"]
<1>1. status[c] = "waiting" /\ SameQueues /\ Announce(new) /\ UNCHANGED page
  BY DEF CallNext
<1>2. NoneJoins(old) /\ old[c] = "waiting"
  BY <1>1, FinishingGoesOn DEF Finishing, Serving
<1> HIDE DEF old
<1>3. NoneJoins(new)
  BY <1>1, <1>2 DEF NoneJoins, RowsGoOn, Lists, Statuses, Active
<1> HIDE DEF new
<1> QED BY <1>1, <1>3, PlainPages, AnnouncedChange

LEMMA ResetKeeps == ASSUME IInv, NEW q \in 1 .. active, Reset(q) PROVE IInv'
<1>1. SameQueues /\ Announce(Emptied(q)) /\ UNCHANGED page
  BY DEF Reset
<1> QED BY <1>1, EmptiedGoesOn, PlainPages, AnnouncedChange

LEMMA QuietChangesKeep ==
    ASSUME IInv,
           \/ \E q \in 1 .. active : CallNobody(q) \/ DeleteQueue(q)
           \/ \E c \in Customers : \E s \in Active \cup {"over"} : ServerChange(c, s)
    PROVE  IInv'
<1>1. ASSUME NEW q \in 1 .. active, CallNobody(q) PROVE IInv'
  BY <1>1, FinishingGoesOn, QuietChange DEF CallNobody
<1>2. ASSUME NEW q \in 1 .. active, DeleteQueue(q) PROVE IInv'
  BY <1>2, EmptiedGoesOn, QuietChange DEF DeleteQueue
<1>3. ASSUME NEW c \in Customers, NEW s \in Active \cup {"over"}, ServerChange(c, s) PROVE IInv'
  <2> DEFINE new == [status EXCEPT ![c] = s]
  <2>1. InTable(c) /\ SameQueues /\ Change(new) /\ UNCHANGED page /\ Quiet
    BY <1>3 DEF ServerChange
  <2>2. NoneJoins(new)
    BY <2>1, RowGoesOn
  <2> HIDE DEF new
  <2> QED BY <2>1, <2>2, QuietChange
<1> QED BY <1>1, <1>2, <1>3

\* A close: the items stay, and their customers are left behind.
LEMMA CloseKeeps == ASSUME IInv, CloseQueues PROVE IInv'
<1>1. active' = active + 1 /\ queueOf' = queueOf /\ Change(status) /\ UNCHANGED page /\ Quiet
  BY DEF CloseQueues
<1>2. RowsGoOn(status) /\ PagesFollow(status)
  BY <1>1, StatusGoesOn, PlainPages DEF NoneJoins
<1>3. QueuesGoOn(status)
  BY <1>1, Parts DEF QueuesGoOn, TypeOK, JoinersMoveOn
<1> QED BY <1>1, <1>2, <1>3, QuietKeeps

LEMMA AppointmentEventKeeps == ASSUME IInv, AppointmentEvent PROVE IInv'
<1> DEFINE m == [type |-> "appointment"]
<1>1. SameQueues /\ Change(status) /\ Broadcast(m) /\ UNCHANGED <<page, poll, faults, raced>>
  BY DEF AppointmentEvent
<1>2. /\ m.type = "appointment" /\ changes \in 0 .. MaxChanges /\ status \in Lists
      /\ status' = status
  BY <1>1, Parts DEF TypeOK, Change
<1> HIDE DEF m
<1>3. SendsFollow(status) /\ UNCHANGED sock
  BY <1>1, <1>2, BroadcastFollows
<1>4. RowsGoOn(status) /\ QueuesGoOn(status) /\ PagesFollow(status)
  BY <1>1, StatusGoesOn, SameQueuesGoOn, PlainPages DEF NoneJoins
<1> QED BY <1>1, <1>3, <1>4, ChangeKeeps

LEMMA LeaveKeeps == ASSUME IInv, NEW b \in Browsers, Leave(b) PROVE IInv'
<1> DEFINE new == [status EXCEPT ![b] = "over"]
<1> USE Parts
<1>1. /\ page[b].at = "queue" /\ InTable(b) /\ b \in Customers
      /\ SameQueues /\ Announce(new)
      /\ page' = [page EXCEPT ![b] = [page[b] EXCEPT !.saved = FALSE, !.mine = FALSE]]
  BY DEF Leave, OnPage, InTable, Customers
<1>2. NoneJoins(new)
  BY <1>1, RowGoesOn
<1>3. PagesFollow(new)
  <2>1. page' \in [Browsers -> Pages]
    BY <1>1 DEF TypeOK, Pages
  <2>2. ASSUME NEW a \in Browsers
        PROVE  /\ page'[a].at = page[a].at
               /\ page'[a].saved = page[a].saved \/ new[a] \notin Active
    BY <1>1, <2>2 DEF TypeOK, Lists, Pages, Active, Customers
  <2> HIDE DEF new
  <2> QED BY <1>2, <2>1, <2>2 DEF PagesFollow, JoinersMoveOn, NoneJoins, Customers
<1> HIDE DEF new
<1> QED BY <1>1, <1>2, <1>3, AnnouncedChange

LEMMA StaffKeeps == ASSUME IInv, Staff PROVE IInv'
BY JoinKeeps, SetStatusKeeps, ReassignKeeps, CallNextKeeps, ResetKeeps, QuietChangesKeep,
   CloseKeeps, AppointmentEventKeeps DEF Staff

-----------------------------------------------------------------------------
(* The pages' requests.                                                    *)

\* A page whose customer's place is to be kept does not forget the id.
Keeps(b, q) ==
    /\ q.at = page[b].at
    /\ Expects(b) => page[b].saved = q.saved

\* One slot of one page changes, and what that page shows and remembers.
LEMMA PollKeeps ==
    ASSUME IInv, NEW b \in Browsers, NEW n \in PollSlots, NEW p \in Polls, NEW q \in Pages,
           InSlot(b, n, p), page' = [page EXCEPT ![b] = q], Understood(b, p), Keeps(b, q),
           faults' \in 0 .. MaxFaults, UNCHANGED <<queueVars, socketVars, raced>>
    PROVE  IInv'
<1> USE Parts DEF queueVars, socketVars, Keeps
<1>1. page' \in [Browsers -> Pages] /\ \A a \in Browsers : page'[a] = IF a = b THEN q ELSE page[a]
  BY DEF TypeOK
<1>2. \A a \in Browsers : page'[a].at = page[a].at
  BY <1>1
<1>3. /\ poll' \in [Browsers -> [PollSlots -> Polls]]
      /\ \A a \in Browsers, m \in PollSlots :
            poll'[a][m] = IF a = b /\ m = n THEN p ELSE poll[a][m]
  BY DEF TypeOK, InSlot
<1>4. TypeOK'
  BY <1>1, <1>3 DEF TypeOK
<1>5. ListInOrder' /\ SocketsAreWhole'
  BY DEF ListInOrder, Once, SocketsAreWhole
<1>6. \A a \in Browsers : LiveSockets(a)' = LiveSockets(a)
  BY DEF LiveSockets
<1>7. SocketsInOrder'
  BY <1>2, <1>6 DEF SocketsInOrder
<1>12. \A a \in Browsers : Expects(a)' <=> Expects(a)
  BY <1>2 DEF Expects, LeftBehind
<1>8. NoSnapshotComes'
  BY <1>6, <1>12 DEF NoSnapshotComes, SnapshotComes
<1>9. PlacesAreKept'
  BY <1>1, <1>12 DEF PlacesAreKept
<1>10. JoinersMoveOn'
  BY <1>2 DEF JoinersMoveOn
<1>11. ASSUME NEW a \in Browsers, NEW m \in PollSlots
       PROVE  Understood(a, poll[a][m])'
  <2>1. Understood(a, poll'[a][m])
    BY <1>3
  <2> QED BY <1>2, <2>1 DEF Understood, LeftBehind
<1> QED BY <1>4, <1>5, <1>7, <1>8, <1>9, <1>10, <1>11, PartsPrime

LEMMA ShownIsLine == ASSUME NEW list \in Lists PROVE Shown(list) \in Lines
<1>1. Shown(list) \in [{d \in Customers : list[d] \in Active} -> Active]
  BY DEF Shown
<1> QED BY <1>1 DEF Lines

LEMMA EmptyIsLine == EmptyLine \in Lines
<1>1. EmptyLine \in [{} -> Active]
  BY DEF EmptyLine
<1> QED BY <1>1 DEF Lines

LEMMA SlotIsPoll ==
    ASSUME IInv, NEW b \in Browsers, NEW n \in PollSlots
    PROVE  poll[b][n] \in Polls /\ page[b] \in Pages /\ Understood(b, poll[b][n])
BY Parts DEF TypeOK

LEMMA NoPollIsPoll == NoPoll \in Polls /\ [NoPoll EXCEPT !.stage = "estimate"] \in Polls
BY DEF NoPoll, Polls, Lists, Statuses

LEMMA NoPollSaysNothing ==
    ASSUME NEW b PROVE Understood(b, NoPoll) /\ Understood(b, [NoPoll EXCEPT !.stage = "estimate"])
BY DEF NoPoll, Understood

\* A page that stays is one that is written again.
LEMMA PageStays ==
    ASSUME IInv, NEW b \in Browsers
    PROVE  (UNCHANGED page => page' = [page EXCEPT ![b] = page[b]]) /\ Keeps(b, page[b])
BY Parts DEF TypeOK, Keeps

LEMMA PollActKeeps ==
    ASSUME IInv, NEW b \in Browsers, NEW n \in PollSlots, Poll(b, n) PROVE IInv'
<1> DEFINE p == [stage |-> "answered", view |-> View(b), list |-> Rows]
<1>1. InSlot(b, n, p) /\ UNCHANGED <<queueVars, page, socketVars, faults, raced>>
  BY DEF Poll
<1>2. p \in Polls
  <2>1. Rows \in Lists
    BY Parts DEF TypeOK, Rows, Lists, Statuses
  <2> QED BY <2>1 DEF Polls, View
<1>3. Understood(b, p)
  <2>1. status[b] = "none" => page[b].at = "reception"
    BY Parts DEF JoinersMoveOn
  <2>2. b \in Customers /\ Rows[b] = IF queueOf[b] = active THEN status[b] ELSE "none"
    BY DEF Rows, Customers
  <2>3. queueOf[b] # active => status[b] = "none" \/ b \in LeftBehind
    <3>1. queueOf[b] \in 0 .. active /\ active \in Nat
      BY <2>2, Parts DEF TypeOK, Queues
    <3>2. queueOf[b] = 0 <=> status[b] = "none"
      BY <2>2, Parts DEF JoinersMoveOn
    <3> QED BY <2>2, <3>1, <3>2 DEF LeftBehind
  <2>4. /\ p.stage = "answered" /\ p.list[b] = Rows[b]
    OBVIOUS
  <2> HIDE DEF p
  <2> QED BY <2>1, <2>2, <2>3, <2>4 DEF Understood
<1>4. page' = [page EXCEPT ![b] = page[b]] /\ page[b] \in Pages /\ Keeps(b, page[b])
  BY <1>1, PageStays, SlotIsPoll
<1>5. faults' \in 0 .. MaxFaults
  BY <1>1, Parts DEF TypeOK
<1> HIDE DEF p
<1> QED BY <1>1, <1>2, <1>3, <1>4, <1>5, PollKeeps

LEMMA PollFailsKeeps ==
    ASSUME IInv, NEW b \in Browsers, NEW n \in PollSlots, PollFails(b, n) PROVE IInv'
<1>1. InSlot(b, n, NoPoll) /\ UNCHANGED <<queueVars, page, socketVars, raced>>
  BY DEF PollFails
<1>2. page' = [page EXCEPT ![b] = page[b]] /\ page[b] \in Pages /\ Keeps(b, page[b])
  BY <1>1, PageStays, SlotIsPoll
<1>3. faults' \in 0 .. MaxFaults
  BY Parts, PageConstants DEF PollFails, TypeOK
<1> QED BY <1>1, <1>2, <1>3, NoPollIsPoll, NoPollSaysNothing, PollKeeps

LEMMA ShowListKeeps ==
    ASSUME IInv, NEW b \in Browsers, NEW n \in PollSlots, ShowList(b, n) PROVE IInv'
<1> DEFINE p == [poll[b][n] EXCEPT !.stage = "metrics"]
           q == IF page[b].at \in Reception
                THEN [page[b] EXCEPT !.shown = Shown(poll[b][n].list)] ELSE page[b]
<1>1. poll[b][n] \in Polls /\ page[b] \in Pages /\ Understood(b, poll[b][n])
  BY SlotIsPoll
<1>2. /\ poll[b][n].stage = "answered" /\ poll[b][n].view = "reception"
      /\ InSlot(b, n, p) /\ UNCHANGED <<queueVars, socketVars, faults, raced>>
  BY DEF ShowList
<1>3. p \in Polls /\ Understood(b, p)
  BY <1>1, <1>2 DEF Polls, Understood
<1>4. q \in Pages /\ Keeps(b, q)
  BY <1>1, ShownIsLine DEF Pages, Polls, Keeps
<1>5. page' = [page EXCEPT ![b] = q]
  BY PageStays DEF ShowList, OnPage
<1>6. faults' \in 0 .. MaxFaults
  BY <1>2, Parts DEF TypeOK
<1> HIDE DEF p, q
<1> QED BY <1>2, <1>3, <1>4, <1>5, <1>6, PollKeeps

LEMMA ReconcileKeeps ==
    ASSUME IInv, NEW b \in Browsers, NEW n \in PollSlots, Reconcile(b, n) PROVE IInv'
<1> DEFINE q == Reconciled(b, poll[b][n].list)
<1>1. poll[b][n] \in Polls /\ page[b] \in Pages /\ Understood(b, poll[b][n])
  BY SlotIsPoll
<1>2. /\ poll[b][n].stage = "metrics" /\ InSlot(b, n, NoPoll) /\ page' = [page EXCEPT ![b] = q]
      /\ UNCHANGED <<queueVars, socketVars, faults, raced>>
  BY DEF Reconcile, OnPage
<1>3. /\ q \in Pages /\ q.at = page[b].at
      /\ b \in Listed(poll[b][n].list) => q.saved = page[b].saved
  <2>1. q = [page[b] EXCEPT !.saved = page[b].saved /\ b \in Listed(poll[b][n].list)]
    BY DEF Reconciled
  <2>2. (page[b].saved /\ b \in Listed(poll[b][n].list)) \in BOOLEAN
    OBVIOUS
  <2>3. page[b].saved \in BOOLEAN
    BY <1>1 DEF Pages
  <2>4. /\ q \in Pages /\ q.at = page[b].at
        /\ q.saved = (page[b].saved /\ b \in Listed(poll[b][n].list))
    <3> HIDE DEF q
    <3> QED BY <1>1, <2>1, <2>2 DEF Pages
  <2> HIDE DEF q
  <2> QED BY <2>3, <2>4
\* The list is not older than the join, so it has the item.
<1>4. Keeps(b, q)
  <2> SUFFICES ASSUME page[b].at \in {"told", "queue"}, status[b] \in Active,
                      b \notin raced \cup returned \cup LeftBehind
               PROVE  b \in Listed(poll[b][n].list)
    BY <1>3 DEF Keeps, Expects
  <2>1. poll[b][n].list[b] \in Statuses
    BY <1>1 DEF Polls, Lists, Customers
  <2>2. poll[b][n].list[b] \notin {"none", "deleted"}
    BY <1>1, <1>2 DEF Understood, Active
  <2> QED BY <2>1, <2>2 DEF Statuses, Listed, Customers
<1>5. faults' \in 0 .. MaxFaults
  BY <1>2, Parts DEF TypeOK
<1> HIDE DEF q
<1> QED BY <1>2, <1>3, <1>4, <1>5, NoPollIsPoll, NoPollSaysNothing, PollKeeps

LEMMA JudgeKeeps ==
    ASSUME IInv, NEW b \in Browsers, NEW n \in PollSlots, Judge(b, n) PROVE IInv'
<1> DEFINE list == poll[b][n].list
           q == [Judged(page[b], b, list) EXCEPT !.shown = Shown(list)]
           p == IF page[b].saved /\ b \notin Listed(list)
                THEN [NoPoll EXCEPT !.stage = "estimate"] ELSE NoPoll
<1>1. poll[b][n] \in Polls /\ page[b] \in Pages /\ Understood(b, poll[b][n])
  BY SlotIsPoll
<1>2. /\ poll[b][n].stage = "answered" /\ InSlot(b, n, p) /\ page' = [page EXCEPT ![b] = q]
      /\ UNCHANGED <<queueVars, socketVars, faults, raced>>
  BY DEF Judge, OnPage
<1>3. list \in Lists /\ Shown(list) \in Lines
  BY <1>1, ShownIsLine DEF Polls
<1>4. /\ q \in Pages /\ q.at = page[b].at
      /\ q.saved = IF page[b].saved /\ list[b] = "over" THEN FALSE ELSE page[b].saved
  <2> HIDE DEF list
  <2> QED BY <1>1, <1>3 DEF Pages, Judged
<1>5. Keeps(b, q)
  BY <1>1, <1>2, <1>4 DEF Understood, Active, Keeps, Expects
<1>6. p \in Polls /\ Understood(b, p)
  BY NoPollIsPoll, NoPollSaysNothing
<1>7. faults' \in 0 .. MaxFaults
  BY <1>2, Parts DEF TypeOK
<1> HIDE DEF p, q
<1> QED BY <1>2, <1>4, <1>5, <1>6, <1>7, PollKeeps

LEMMA EstimateKeeps ==
    ASSUME IInv, NEW b \in Browsers, NEW n \in PollSlots, Estimate(b, n) PROVE IInv'
<1> DEFINE q == IF status[b] \in Active THEN [page[b] EXCEPT !.mine = TRUE] ELSE page[b]
<1>1. page[b] \in Pages
  BY SlotIsPoll
<1>2. InSlot(b, n, NoPoll) /\ UNCHANGED <<queueVars, socketVars, faults, raced>>
  BY DEF Estimate
<1>3. page' = [page EXCEPT ![b] = q]
  BY PageStays DEF Estimate, OnPage
<1>4. q \in Pages /\ Keeps(b, q)
  BY <1>1 DEF Pages, Keeps
<1>5. faults' \in 0 .. MaxFaults
  BY <1>2, Parts DEF TypeOK
<1> HIDE DEF q
<1> QED BY <1>2, <1>3, <1>4, <1>5, NoPollIsPoll, NoPollSaysNothing, PollKeeps

LEMMA RequestKeeps ==
    ASSUME IInv, NEW b \in Browsers, NEW n \in PollSlots,
           Poll(b, n) \/ Request(b, n) \/ PollFails(b, n)
    PROVE  IInv'
BY PollActKeeps, PollFailsKeeps, ShowListKeeps, ReconcileKeeps, JudgeKeeps, EstimateKeeps
   DEF Request

-----------------------------------------------------------------------------
(* Steps of a page and of its websocket.                                   *)

\* The answer to the join: from here on the place is to be kept, and what could
\* lose it is known.
LEMMA ToldKeeps == ASSUME IInv, NEW b \in Browsers, Told(b) PROVE IInv'
<1> DEFINE q == [page[b] EXCEPT !.at = "told", !.saved = TRUE]
<1> USE Parts DEF queueVars, socketVars
<1>1. /\ page[b].at = "joining" /\ page' = [page EXCEPT ![b] = q]
      /\ raced' = IF OlderListComing(b) THEN raced \cup {b} ELSE raced
      /\ UNCHANGED <<status, queueOf, active, changes, returned, poll, sock, listed, sends, faults>>
  BY DEF Told, OnPage
<1>2. page[b] \in Pages /\ q \in Pages /\ q.at = "told" /\ q.saved = TRUE
  BY DEF TypeOK, Pages, Reception
<1>3. page' \in [Browsers -> Pages] /\ \A a \in Browsers : page'[a] = IF a = b THEN q ELSE page[a]
  BY <1>1, <1>2 DEF TypeOK
<1> HIDE DEF q
<1>4. raced' \subseteq Browsers /\ raced \subseteq raced' /\ raced' \subseteq raced \cup {b}
  BY <1>1 DEF TypeOK
<1>5. TypeOK'
  BY <1>1, <1>3, <1>4 DEF TypeOK
<1>6. ListInOrder' /\ SocketsAreWhole'
  BY <1>1 DEF ListInOrder, Once, SocketsAreWhole
<1>7. \A a \in Browsers : LiveSockets(a)' = LiveSockets(a)
  BY <1>1 DEF LiveSockets
<1>8. SocketsInOrder'
  BY <1>7 DEF SocketsInOrder
<1>13. /\ LeftBehind' = LeftBehind
       /\ \A a \in Browsers : a # b => (Expects(a)' <=> Expects(a))
  BY <1>1, <1>3, <1>4 DEF LeftBehind, Expects
<1>9. NoSnapshotComes'
  <2> SUFFICES ASSUME NEW a \in Browsers, Expects(a)', NEW k \in LiveSockets(a)
               PROVE  ~SnapshotComes(k)
    BY <1>1, <1>7 DEF NoSnapshotComes, SnapshotComes
  <2>1. CASE a = b
    BY <1>1, <2>1 DEF Expects, OlderListComing
  <2>2. CASE a # b
    BY <1>13, <2>2 DEF NoSnapshotComes
  <2> QED BY <2>1, <2>2
<1>10. PlacesAreKept'
  BY <1>2, <1>3, <1>13 DEF PlacesAreKept
<1>11. JoinersMoveOn'
  BY <1>1, <1>2, <1>3 DEF JoinersMoveOn
<1>12. ASSUME NEW a \in Browsers, NEW n \in PollSlots
       PROVE  Understood(a, poll[a][n])'
  <2>1. Understood(a, poll[a][n]) /\ poll[a][n] \in Polls
    BY DEF TypeOK
  <2>2. CASE a # b
    BY <1>1, <1>3, <1>4, <1>13, <2>1, <2>2 DEF Understood
  <2>3. CASE a = b
    <3>1. ASSUME poll[b][n].stage \in {"answered", "metrics"},
                 poll[b][n].list[b] = "none", poll[b][n].view = "reception"
          PROVE  OlderListComing(b)
      BY <3>1 DEF OlderListComing, Listed, Active
    <3> QED BY <1>1, <1>13, <2>1, <2>3, <3>1 DEF Understood
  <2> QED BY <2>2, <2>3
<1> QED BY <1>5, <1>6, <1>8, <1>9, <1>10, <1>11, <1>12, PartsPrime

\* What a step of the sockets leaves to be shown.
LEMMA SocketsKeep ==
    ASSUME IInv, UNCHANGED <<queueVars, page, poll, raced>>,
           sock' \in [Sockets -> Websockets], listed' \in Seq(Sockets), sends' \subseteq Sends,
           faults' \in 0 .. MaxFaults,
           ListInOrder', SocketsInOrder', SocketsAreWhole', NoSnapshotComes'
    PROVE  IInv'
<1> USE Parts DEF queueVars
<1>1. TypeOK'
  BY DEF TypeOK
<1>2. PlacesAreKept' /\ JoinersMoveOn'
  BY DEF PlacesAreKept, JoinersMoveOn, Expects, LeftBehind
<1>3. ASSUME NEW b \in Browsers, NEW n \in PollSlots
      PROVE  Understood(b, poll[b][n])'
  BY DEF Understood, LeftBehind
<1> QED BY <1>1, <1>2, <1>3, PartsPrime

\* A socket that is no longer open, or was not, does nobody harm.
LEMMA NoNewSocket ==
    ASSUME IInv, UNCHANGED <<queueVars, sends, raced>>,
           \A b \in Browsers : /\ page'[b].at = page[b].at
                               /\ LiveSockets(b)' \subseteq LiveSockets(b),
           \A k \in Sockets : sock'[k].unread > 0 => sock[k].unread > 0
    PROVE  SocketsInOrder' /\ NoSnapshotComes'
<1> USE Parts DEF queueVars
<1>1. SocketsInOrder'
  BY DEF SocketsInOrder
<1>2. NoSnapshotComes'
  <2> SUFFICES ASSUME NEW b \in Browsers, Expects(b)', NEW k \in LiveSockets(b)'
               PROVE  ~SnapshotComes(k)'
    BY DEF NoSnapshotComes
  <2>1. Expects(b) /\ k \in LiveSockets(b) /\ k \in Sockets
    BY DEF Expects, LeftBehind, LiveSockets
  <2> QED BY <2>1 DEF NoSnapshotComes, SnapshotComes
<1> QED BY <1>1, <1>2

LEMMA SocketType == ASSUME IInv, NEW k \in Sockets PROVE sock[k] \in Websockets
BY Parts DEF TypeOK

LEMMA ConnectKeeps == ASSUME IInv, NEW b \in Browsers, Connect(b) PROVE IInv'
<1> USE Parts
<1>1. page[b].at \in Reception /\ LiveSockets(b) = {}
  BY DEF Connect
<1>2. PICK k \in Sockets :
        /\ Free(k)
        /\ sock' = [sock EXCEPT ![k] = [of |-> b, client |-> "connecting",
                                        server |-> "accepting", unread |-> 0]]
  BY DEF Connect
<1>3. UNCHANGED <<queueVars, page, poll, listed, sends, faults, raced>>
  BY DEF Connect
<1>4. /\ sock' \in [Sockets -> Websockets] /\ \A j \in Sockets : j # k => sock'[j] = sock[j]
      /\ sock'[k] = [of |-> b, client |-> "connecting", server |-> "accepting", unread |-> 0]
  BY <1>2 DEF TypeOK, Websockets
<1>5. ListInOrder'
  <2>1. k \notin Range(listed)
    BY <1>2 DEF Free, ListInOrder
  <2>2. \A j \in Range(listed) : j \in Sockets
    BY DEF TypeOK, Range
  <2> QED BY <1>3, <1>4, <2>1, <2>2 DEF ListInOrder, Once
<1>6. LiveSockets(b)' = {k} /\ \A a \in Browsers : a # b => LiveSockets(a)' = LiveSockets(a)
  <2>1. sock[k].client = "closed"
    BY <1>2 DEF Free
  <2> QED BY <1>1, <1>4, <2>1 DEF LiveSockets
<1>7. SocketsInOrder'
  BY <1>6 DEF SocketsInOrder
<1>8. SocketsAreWhole'
  BY <1>4 DEF SocketsAreWhole
<1>9. ~SnapshotComes(k)'
  BY <1>2, <1>3, <1>4 DEF Free, SnapshotComes
<1>10. NoSnapshotComes'
  <2> SUFFICES ASSUME NEW a \in Browsers, Expects(a)', NEW j \in LiveSockets(a)'
               PROVE  ~SnapshotComes(j)'
    BY DEF NoSnapshotComes
  <2>1. CASE a = b
    BY <1>6, <1>9, <2>1
  <2>2. CASE a # b
    <3>1. Expects(a) /\ j \in LiveSockets(a) /\ j \in Sockets /\ j # k
      BY <1>2, <1>3, <1>6, <2>2 DEF Expects, LeftBehind, queueVars, LiveSockets, Free
    <3> QED BY <1>3, <1>4, <3>1 DEF NoSnapshotComes, SnapshotComes
  <2> QED BY <2>1, <2>2
<1>11. listed' \in Seq(Sockets) /\ sends' \subseteq Sends /\ faults' \in 0 .. MaxFaults
  BY <1>3 DEF TypeOK
<1> QED BY <1>3, <1>4, <1>5, <1>7, <1>8, <1>10, <1>11, SocketsKeep

LEMMA RegisterKeeps == ASSUME IInv, NEW k \in Sockets, Register(k) PROVE IInv'
<1> USE Parts
<1>1. /\ sock[k].server = "accepting" /\ sock' = [sock EXCEPT ![k].server = "receiving"]
      /\ listed' = Append(listed, k)
      /\ UNCHANGED <<queueVars, page, poll, sends, faults, raced>>
  BY DEF Register
<1>2. /\ sock' \in [Sockets -> Websockets] /\ \A j \in Sockets : j # k => sock'[j] = sock[j]
      /\ sock'[k] = [sock[k] EXCEPT !.server = "receiving"] /\ sock[k] \in Websockets
  BY <1>1 DEF TypeOK, Websockets
<1>3. k \notin Range(listed) /\ listed \in Seq(Sockets) /\ Once(listed)
  BY <1>1 DEF ListInOrder, TypeOK
<1>4. listed' \in Seq(Sockets) /\ Once(listed') /\ Range(listed') = Range(listed) \cup {k}
  BY <1>1, <1>3, Appended
<1>5. ListInOrder'
  <2>1. \A j \in Range(listed) : j \in Sockets
    BY DEF TypeOK, Range
  <2> QED BY <1>2, <1>3, <1>4, <2>1 DEF ListInOrder, Websockets
<1>6. \A j \in Sockets : /\ sock'[j].client = sock[j].client /\ sock'[j].of = sock[j].of
                         /\ sock'[j].unread = sock[j].unread
  BY <1>2 DEF Websockets
<1>7. \A b \in Browsers : LiveSockets(b)' \subseteq LiveSockets(b)
  BY <1>6 DEF LiveSockets
<1>8. SocketsInOrder' /\ NoSnapshotComes'
  BY <1>1, <1>6, <1>7, NoNewSocket
<1>9. SocketsAreWhole'
  BY <1>6 DEF SocketsAreWhole
<1>10. sends' \subseteq Sends /\ faults' \in 0 .. MaxFaults
  BY <1>1 DEF TypeOK
<1> QED BY <1>1, <1>2, <1>4, <1>5, <1>8, <1>9, <1>10, SocketsKeep

LEMMA OpensKeeps == ASSUME IInv, NEW k \in Sockets, Opens(k) PROVE IInv'
<1> USE Parts
<1>1. /\ sock[k].client = "connecting" /\ sock' = [sock EXCEPT ![k].client = "open"]
      /\ UNCHANGED <<queueVars, page, poll, listed, sends, faults, raced>>
  BY DEF Opens
<1>2. /\ sock' \in [Sockets -> Websockets] /\ \A j \in Sockets : j # k => sock'[j] = sock[j]
      /\ sock'[k] = [sock[k] EXCEPT !.client = "open"] /\ sock[k] \in Websockets
  BY <1>1 DEF TypeOK, Websockets
<1>3. \A j \in Sockets : /\ sock'[j].client = "closed" <=> sock[j].client = "closed"
                         /\ sock'[j].of = sock[j].of /\ sock'[j].unread = sock[j].unread
                         /\ sock'[j].server = sock[j].server
  BY <1>1, <1>2 DEF Websockets
<1>4. ListInOrder'
  <2>1. \A j \in Range(listed) : j \in Sockets
    BY DEF TypeOK, Range
  <2> QED BY <1>1, <1>3, <2>1 DEF ListInOrder, Once
<1>5. \A b \in Browsers : LiveSockets(b)' \subseteq LiveSockets(b)
  BY <1>3 DEF LiveSockets
<1>6. SocketsInOrder' /\ NoSnapshotComes'
  BY <1>1, <1>3, <1>5, NoNewSocket
<1>7. SocketsAreWhole'
  BY <1>3 DEF SocketsAreWhole
<1>8. listed' \in Seq(Sockets) /\ sends' \subseteq Sends /\ faults' \in 0 .. MaxFaults
  BY <1>1 DEF TypeOK
<1> QED BY <1>1, <1>2, <1>4, <1>6, <1>7, <1>8, SocketsKeep

LEMMA AcceptFailsKeeps == ASSUME IInv, NEW k \in Sockets, AcceptFails(k) PROVE IInv'
<1> USE Parts
<1>1. /\ sock[k].server = "accepting" /\ sock' = [sock EXCEPT ![k].server = "ended"]
      /\ UNCHANGED <<queueVars, page, poll, listed, sends, faults, raced>>
  BY DEF AcceptFails
<1>2. /\ sock' \in [Sockets -> Websockets] /\ \A j \in Sockets : j # k => sock'[j] = sock[j]
      /\ sock'[k] = [sock[k] EXCEPT !.server = "ended"] /\ sock[k] \in Websockets
  BY <1>1 DEF TypeOK, Websockets
<1>3. ListInOrder'
  <2>1. k \notin Range(listed)
    BY <1>1 DEF ListInOrder
  <2>2. \A j \in Range(listed) : j \in Sockets
    BY DEF TypeOK, Range
  <2> QED BY <1>1, <1>2, <2>1, <2>2 DEF ListInOrder, Once
<1>4. \A j \in Sockets : /\ sock'[j].client = sock[j].client /\ sock'[j].of = sock[j].of
                         /\ sock'[j].unread = sock[j].unread
  BY <1>2 DEF Websockets
<1>5. \A b \in Browsers : LiveSockets(b)' \subseteq LiveSockets(b)
  BY <1>4 DEF LiveSockets
<1>6. SocketsInOrder' /\ NoSnapshotComes'
  BY <1>1, <1>4, <1>5, NoNewSocket
<1>7. SocketsAreWhole'
  BY <1>4 DEF SocketsAreWhole
<1>8. listed' \in Seq(Sockets) /\ sends' \subseteq Sends /\ faults' \in 0 .. MaxFaults
  BY <1>1 DEF TypeOK
<1> QED BY <1>1, <1>2, <1>3, <1>6, <1>7, <1>8, SocketsKeep

LEMMA DropKeeps == ASSUME IInv, NEW k \in Sockets, Drop(k) PROVE IInv'
<1> USE Parts
<1>1. /\ sock' = [sock EXCEPT ![k].client = "closed", ![k].unread = 0]
      /\ UNCHANGED <<queueVars, page, poll, listed, sends, raced>>
  BY DEF Drop
<1>2. /\ sock' \in [Sockets -> Websockets] /\ \A j \in Sockets : j # k => sock'[j] = sock[j]
      /\ sock'[k] = [sock[k] EXCEPT !.client = "closed", !.unread = 0] /\ sock[k] \in Websockets
  <2> DEFINE w == [sock[k] EXCEPT !.client = "closed", !.unread = 0]
  <2>1. sock[k] \in Websockets
    BY SocketType
  <2>2. w \in Websockets
    BY <2>1 DEF Websockets
  <2>3. sock' = [sock EXCEPT ![k] = w]
    BY <1>1, <2>1 DEF TypeOK, Websockets
  <2> HIDE DEF w
  <2>4. /\ sock' \in [Sockets -> Websockets] /\ sock'[k] = w
        /\ \A j \in Sockets : j # k => sock'[j] = sock[j]
    BY <2>2, <2>3 DEF TypeOK
  <2> QED BY <2>1, <2>4 DEF w
<1>3. \A j \in Sockets : sock'[j].server = sock[j].server
  BY <1>2 DEF Websockets
<1>4. ListInOrder'
  <2>1. \A j \in Range(listed) : j \in Sockets
    BY DEF TypeOK, Range
  <2> QED BY <1>1, <1>3, <2>1 DEF ListInOrder, Once
<1>5. sock'[k].client = "closed" /\ sock'[k].unread = 0
  BY <1>2 DEF Websockets
<1>6. \A b \in Browsers : LiveSockets(b)' \subseteq LiveSockets(b)
  BY <1>2, <1>5 DEF LiveSockets
<1>7. SocketsInOrder' /\ NoSnapshotComes'
  BY <1>1, <1>2, <1>5, <1>6, NoNewSocket
<1>8. SocketsAreWhole'
  <2> SUFFICES ASSUME NEW j \in Sockets
               PROVE  /\ sock'[j].unread > 0 => sock'[j].client # "closed"
                      /\ sock'[j].client # "closed" => sock'[j].of \in Browsers
    BY DEF SocketsAreWhole
  <2>1. CASE j = k
    BY <1>5, <2>1
  <2>2. CASE j # k
    BY <1>2, <2>2 DEF SocketsAreWhole
  <2> QED BY <2>1, <2>2
<1>9. listed' \in Seq(Sockets) /\ sends' \subseteq Sends /\ faults' \in 0 .. MaxFaults
  BY <1>1, PageConstants DEF TypeOK, Drop
<1> QED BY <1>1, <1>2, <1>4, <1>7, <1>8, <1>9, SocketsKeep

\* Taking a connection out of the list.
LEMMA DisconnectedInOrder ==
    ASSUME IInv, NEW k
    PROVE  /\ Disconnected(k) \in Seq(Sockets) /\ Once(Disconnected(k))
           /\ \A j \in Range(Disconnected(k)) : /\ j \in Sockets /\ j # k
                                                /\ sock[j].server = "receiving"
<1> USE Parts
<1>1. listed \in Seq(Sockets) /\ Once(listed)
  BY DEF TypeOK, ListInOrder
<1>2. /\ Disconnected(k) \in Seq(Sockets) /\ Once(Disconnected(k))
      /\ \A j \in Range(Disconnected(k)) : j \in Range(listed) /\ j # k
  BY <1>1, Removed DEF Disconnected
<1>3. \A j \in Range(listed) : j \in Sockets
  BY <1>1 DEF Range
<1> QED BY <1>2, <1>3 DEF ListInOrder

LEMMA HangupKeeps == ASSUME IInv, NEW k \in Sockets, Hangup(k) PROVE IInv'
<1> USE Parts
<1>1. /\ sock' = [sock EXCEPT ![k].server = "ended"] /\ listed' = Disconnected(k)
      /\ UNCHANGED <<queueVars, page, poll, sends, faults, raced>>
  BY DEF Hangup
<1>2. /\ sock' \in [Sockets -> Websockets] /\ \A j \in Sockets : j # k => sock'[j] = sock[j]
      /\ sock'[k] = [sock[k] EXCEPT !.server = "ended"] /\ sock[k] \in Websockets
  BY <1>1 DEF TypeOK, Websockets
<1>3. ListInOrder' /\ listed' \in Seq(Sockets)
  BY <1>1, <1>2, DisconnectedInOrder DEF ListInOrder
<1>4. \A j \in Sockets : /\ sock'[j].client = sock[j].client /\ sock'[j].of = sock[j].of
                         /\ sock'[j].unread = sock[j].unread
  BY <1>2 DEF Websockets
<1>5. \A b \in Browsers : LiveSockets(b)' \subseteq LiveSockets(b)
  BY <1>4 DEF LiveSockets
<1>6. SocketsInOrder' /\ NoSnapshotComes'
  BY <1>1, <1>4, <1>5, NoNewSocket
<1>7. SocketsAreWhole'
  BY <1>4 DEF SocketsAreWhole
<1>8. sends' \subseteq Sends /\ faults' \in 0 .. MaxFaults
  BY <1>1 DEF TypeOK
<1> QED BY <1>1, <1>2, <1>3, <1>6, <1>7, <1>8, SocketsKeep

LEMMA TailOf ==
    ASSUME NEW X, NEW t \in Seq(X), t # <<>>
    PROVE  /\ Tail(t) \in Seq(X) /\ Range(Tail(t)) \subseteq Range(t)
           /\ Len(t) # 1 => Tail(t) # <<>>
<1> DEFINE u == Tail(t)
<1>1. Len(t) \in Nat \ {0}
  OBVIOUS
<1>2. u \in Seq(X) /\ Len(u) = Len(t) - 1
  BY <1>1
<1>3. \A i \in 1 .. Len(u) : i + 1 \in 1 .. Len(t) /\ u[i] = t[i + 1]
  BY <1>1, <1>2
<1> HIDE DEF u
<1>4. Range(u) = {u[i] : i \in 1 .. Len(u)} /\ Range(t) = {t[i] : i \in 1 .. Len(t)}
  BY <1>2, RangeOf
<1>5. Range(u) \subseteq Range(t)
  BY <1>3, <1>4
<1>6. Len(t) # 1 => u # <<>>
  BY <1>1, <1>2
<1> QED BY <1>2, <1>5, <1>6 DEF u

\* One send of a broadcast.  A snapshot that is delivered was coming before.
LEMMA SendNextKeeps == ASSUME IInv, NEW s \in sends, SendNext(s) PROVE IInv'
<1> DEFINE k == Head(s.to)
           rest == IF Len(s.to) = 1 THEN {} ELSE {[s EXCEPT !.to = Tail(@)]}
<1> USE Parts
<1>1. s \in Sends /\ s.to \in Seq(Sockets) /\ s.to # <<>>
  BY DEF TypeOK, Sends
<1>2. k \in Sockets /\ k \in Range(s.to)
  BY <1>1 DEF Range
<1>3. sends' = (sends \ {s}) \cup rest /\ UNCHANGED <<queueVars, page, poll, faults, raced>>
  BY DEF SendNext
<1>4. \A r \in rest : r \in Sends /\ r.type = s.type /\ Range(r.to) \subseteq Range(s.to)
  <2> SUFFICES ASSUME Len(s.to) # 1, NEW r, r = [s EXCEPT !.to = Tail(@)]
               PROVE  r \in Sends /\ r.type = s.type /\ Range(r.to) \subseteq Range(s.to)
    OBVIOUS
  <2>1. Tail(s.to) \in Seq(Sockets) \ {<<>>}
    BY <1>1, TailOf
  <2>2. Range(Tail(s.to)) \subseteq Range(s.to)
    BY <1>1, TailOf
  <2>3. r.type = s.type /\ r.to = Tail(s.to) /\ r \in Sends
    BY <1>1, <2>1 DEF Sends
  <2> QED BY <2>2, <2>3
<1>5. sends' \subseteq Sends
  BY <1>3, <1>4 DEF TypeOK
<1> HIDE DEF k, rest
\* What comes now came before.
<1>6. \A r \in sends' : \A j \in Range(r.to) :
            \E t \in sends : t.type = r.type /\ j \in Range(t.to)
  BY <1>3, <1>4
<1>7. CASE /\ sock' = IF sock[k].client # "closed" /\ s.type = "shop_live_snapshot"
                      THEN [sock EXCEPT ![k].unread = @ + 1] ELSE sock
           /\ UNCHANGED listed
  <2>1. /\ sock' \in [Sockets -> Websockets]
        /\ \A j \in Sockets : /\ sock'[j].of = sock[j].of /\ sock'[j].client = sock[j].client
                              /\ sock'[j].server = sock[j].server
        /\ \A j \in Sockets :
              \/ sock'[j].unread = sock[j].unread
              \/ j = k /\ sock[k].client # "closed" /\ s.type = "shop_live_snapshot"
    <3>1. CASE sock[k].client # "closed" /\ s.type = "shop_live_snapshot"
      <4>1. /\ sock' = [sock EXCEPT ![k] = [sock[k] EXCEPT !.unread = sock[k].unread + 1]]
            /\ sock[k] \in Websockets /\ sock[k].unread + 1 \in Nat
        BY <1>2, <1>7, <3>1 DEF TypeOK, Websockets
      <4>2. /\ sock' \in [Sockets -> Websockets] /\ \A j \in Sockets : j # k => sock'[j] = sock[j]
            /\ sock'[k] = [sock[k] EXCEPT !.unread = sock[k].unread + 1]
        BY <1>2, <4>1 DEF TypeOK, Websockets
      <4>3. /\ sock'[k].of = sock[k].of /\ sock'[k].client = sock[k].client
            /\ sock'[k].server = sock[k].server
        BY <4>1, <4>2 DEF Websockets
      <4> QED BY <3>1, <4>2, <4>3
    <3>2. CASE ~(sock[k].client # "closed" /\ s.type = "shop_live_snapshot")
      BY <1>7, <3>2 DEF TypeOK
    <3> QED BY <3>1, <3>2
  <2>2. ListInOrder'
    <3>1. \A j \in Range(listed) : j \in Sockets
      BY DEF TypeOK, Range
    <3> QED BY <1>7, <2>1, <3>1 DEF ListInOrder, Once
  <2>3. \A b \in Browsers : LiveSockets(b)' = LiveSockets(b)
    BY <2>1 DEF LiveSockets
  <2>4. SocketsInOrder'
    BY <2>3 DEF SocketsInOrder
  <2>5. SocketsAreWhole'
    BY <2>1 DEF SocketsAreWhole
  <2>6. \A j \in Sockets : SnapshotComes(j)' => SnapshotComes(j)
    BY <1>2, <1>6, <2>1 DEF SnapshotComes
  <2>7. NoSnapshotComes'
    <3>1. \A b \in Browsers : Expects(b)' => Expects(b)
      BY <1>3 DEF Expects, LeftBehind, queueVars
    <3> QED BY <2>3, <2>6, <3>1 DEF NoSnapshotComes, LiveSockets
  <2>8. listed' \in Seq(Sockets) /\ faults' \in 0 .. MaxFaults
    BY <1>3, <1>7 DEF TypeOK
  <2> QED BY <1>3, <1>5, <2>1, <2>2, <2>4, <2>5, <2>7, <2>8, SocketsKeep
<1>8. CASE listed' = Disconnected(k) /\ UNCHANGED sock
  <2>1. ListInOrder' /\ listed' \in Seq(Sockets)
    BY <1>8, DisconnectedInOrder DEF ListInOrder
  <2>2. \A b \in Browsers : LiveSockets(b)' = LiveSockets(b)
    BY <1>8 DEF LiveSockets
  <2>3. SocketsInOrder' /\ SocketsAreWhole'
    BY <1>3, <1>8, <2>2 DEF SocketsInOrder, SocketsAreWhole
  <2>4. \A j \in Sockets : SnapshotComes(j)' => SnapshotComes(j)
    BY <1>6, <1>8 DEF SnapshotComes
  <2>5. NoSnapshotComes'
    <3>1. \A b \in Browsers : Expects(b)' => Expects(b)
      BY <1>3 DEF Expects, LeftBehind, queueVars
    <3> QED BY <2>2, <2>4, <3>1 DEF NoSnapshotComes, LiveSockets
  <2>6. sock' \in [Sockets -> Websockets] /\ faults' \in 0 .. MaxFaults
    BY <1>3, <1>8 DEF TypeOK
  <2> QED BY <1>3, <1>5, <2>1, <2>3, <2>5, <2>6, SocketsKeep
<1> QED BY <1>7, <1>8 DEF SendNext, k

\* A snapshot reaches the page only of a customer who is not to be kept in line.
LEMMA ShowSnapshotKeeps == ASSUME IInv, NEW k \in Sockets, ShowSnapshot(k) PROVE IInv'
<1> USE Parts
<1> DEFINE b == sock[k].of
           p == Reconciled(b, [c \in Customers |-> "none"])
           q == IF p.at \in Reception THEN [p EXCEPT !.shown = EmptyLine] ELSE p
<1>1. /\ sock[k].unread > 0 /\ sock[k].client = "open"
      /\ sock' = [sock EXCEPT ![k].unread = @ - 1] /\ page' = [page EXCEPT ![b] = q]
      /\ UNCHANGED <<queueVars, poll, listed, sends, faults, raced>>
  BY DEF ShowSnapshot, OnPage
<1>2. /\ sock[k] \in Websockets /\ b \in Browsers /\ k \in LiveSockets(b)
      /\ sock[k].unread \in Nat \ {0}
  BY <1>1, SocketType DEF SocketsAreWhole, LiveSockets, Websockets
<1>3. page[b] \in Pages /\ q \in Pages /\ q.at = page[b].at
  <2>1. page[b] \in Pages
    BY <1>2 DEF TypeOK
  <2>2. p = [page[b] EXCEPT !.saved = FALSE]
    BY DEF Reconciled, Listed, Active
  <2> HIDE DEF b, p
  <2>3. p \in Pages /\ p.at = page[b].at
    BY <2>1, <2>2 DEF Pages
  <2> QED BY <2>1, <2>3, EmptyIsLine DEF Pages
<1> HIDE DEF p, q
<1>4. page' \in [Browsers -> Pages] /\ \A a \in Browsers : page'[a] = IF a = b THEN q ELSE page[a]
  BY <1>1, <1>2, <1>3 DEF TypeOK
<1>5. /\ sock' \in [Sockets -> Websockets] /\ \A j \in Sockets : j # k => sock'[j] = sock[j]
      /\ sock'[k] = [sock[k] EXCEPT !.unread = sock[k].unread - 1]
  <2>1. sock[k].unread - 1 \in Nat
    BY <1>2
  <2> QED BY <1>1, <1>2, <2>1 DEF TypeOK, Websockets
<1>6. \A j \in Sockets : /\ sock'[j].client = sock[j].client /\ sock'[j].of = sock[j].of
                         /\ sock'[j].server = sock[j].server
                         /\ sock'[j].unread > 0 => sock[j].unread > 0
  <2>1. /\ sock'[k].client = sock[k].client /\ sock'[k].of = sock[k].of
        /\ sock'[k].server = sock[k].server
    BY <1>2, <1>5 DEF Websockets
  <2> QED BY <1>1, <1>5, <2>1
<1>7. TypeOK'
  BY <1>1, <1>4, <1>5 DEF TypeOK, queueVars
<1>8. ListInOrder'
  <2>1. \A j \in Range(listed) : j \in Sockets
    BY DEF TypeOK, Range
  <2> QED BY <1>1, <1>6, <2>1 DEF ListInOrder, Once
<1>9. \A a \in Browsers : page'[a].at = page[a].at /\ LiveSockets(a)' \subseteq LiveSockets(a)
  BY <1>3, <1>4, <1>6 DEF LiveSockets
<1>10. SocketsInOrder' /\ NoSnapshotComes'
  BY <1>1, <1>6, <1>9, NoNewSocket
<1>11. SocketsAreWhole'
  BY <1>6 DEF SocketsAreWhole
\* The place is not to be kept: a snapshot comes.
<1>12. ~Expects(b)
  <2>1. SnapshotComes(k)
    BY <1>1 DEF SnapshotComes
  <2> QED BY <1>2, <2>1 DEF NoSnapshotComes
<1>16. LeftBehind' = LeftBehind /\ \A a \in Browsers : Expects(a)' <=> Expects(a)
  BY <1>1, <1>9 DEF Expects, LeftBehind, queueVars
<1>13. PlacesAreKept'
  BY <1>4, <1>12, <1>16 DEF PlacesAreKept
<1>14. JoinersMoveOn'
  BY <1>1, <1>9 DEF JoinersMoveOn, queueVars
<1>15. ASSUME NEW a \in Browsers, NEW n \in PollSlots
       PROVE  Understood(a, poll[a][n])'
  BY <1>1, <1>9, <1>16 DEF Understood, queueVars
<1> QED BY <1>7, <1>8, <1>10, <1>11, <1>13, <1>14, <1>15, PartsPrime

\* Leaving for the queue view closes the socket of the page, if it is open.
LEMMA NavigateKeeps == ASSUME IInv, NEW b \in Browsers, Navigate(b) PROVE IInv'
<1> DEFINE q == [page[b] EXCEPT !.at = "queue", !.mine = FALSE, !.shown = EmptyLine]
           Closes(k) == sock[k].of = b /\ sock[k].client = "open"
<1> USE Parts
<1>1. /\ page[b].at = "told" /\ page' = [page EXCEPT ![b] = q]
      /\ sock' = [k \in Sockets |-> IF Closes(k)
                                    THEN [sock[k] EXCEPT !.client = "closed", !.unread = 0]
                                    ELSE sock[k]]
      /\ UNCHANGED <<queueVars, poll, listed, sends, faults, raced>>
  BY DEF Navigate, OnPage
<1>2. /\ page[b] \in Pages /\ q \in Pages /\ q.at = "queue" /\ q.saved = page[b].saved
  BY EmptyIsLine DEF TypeOK, Pages
<1> HIDE DEF q, Closes
<1>3. page' \in [Browsers -> Pages] /\ \A a \in Browsers : page'[a] = IF a = b THEN q ELSE page[a]
  BY <1>1, <1>2 DEF TypeOK
<1>4. ASSUME NEW k \in Sockets
      PROVE  /\ sock'[k] \in Websockets /\ sock'[k].of = sock[k].of
             /\ sock'[k].server = sock[k].server
             /\ \/ sock'[k].client = "closed" /\ sock'[k].unread = 0
                \/ sock'[k] = sock[k]
  BY <1>1, SocketType DEF Websockets
<1>5. sock' \in [Sockets -> Websockets]
  BY <1>1, <1>4
<1>6. TypeOK'
  BY <1>1, <1>3, <1>5 DEF TypeOK, queueVars
<1>7. ListInOrder'
  <2>1. \A j \in Range(listed) : j \in Sockets
    BY DEF TypeOK, Range
  <2> QED BY <1>1, <1>4, <2>1 DEF ListInOrder, Once
<1>8. \A a \in Browsers, k \in Sockets :
        k \in LiveSockets(a)' => k \in LiveSockets(a) /\ sock'[k] = sock[k]
  BY <1>4 DEF LiveSockets
<1>9. SocketsInOrder'
  BY <1>8 DEF SocketsInOrder, LiveSockets
<1>10. SocketsAreWhole'
  <2> SUFFICES ASSUME NEW k \in Sockets
               PROVE  /\ sock'[k].unread > 0 => sock'[k].client # "closed"
                      /\ sock'[k].client # "closed" => sock'[k].of \in Browsers
    BY DEF SocketsAreWhole
  <2> QED BY <1>4 DEF SocketsAreWhole
<1>15. LeftBehind' = LeftBehind /\ \A a \in Browsers : Expects(a)' <=> Expects(a)
  BY <1>1, <1>2, <1>3 DEF Expects, LeftBehind, queueVars
\* A socket that stays connecting has no snapshot coming either.
<1>11. NoSnapshotComes'
  <2> SUFFICES ASSUME NEW a \in Browsers, Expects(a)', NEW k \in LiveSockets(a)'
               PROVE  ~SnapshotComes(k)'
    BY DEF NoSnapshotComes
  <2>1. k \in LiveSockets(a) /\ k \in Sockets /\ sock'[k] = sock[k]
    BY <1>8 DEF LiveSockets
  <2>2. Expects(a) /\ ~SnapshotComes(k)
    BY <1>15, <2>1 DEF NoSnapshotComes
  <2> QED BY <1>1, <2>1, <2>2 DEF SnapshotComes
<1>12. PlacesAreKept'
  BY <1>2, <1>3, <1>15 DEF PlacesAreKept
<1>13. JoinersMoveOn'
  BY <1>1, <1>2, <1>3 DEF JoinersMoveOn, queueVars
<1>14. ASSUME NEW a \in Browsers, NEW n \in PollSlots
       PROVE  Understood(a, poll[a][n])'
  BY <1>1, <1>2, <1>3, <1>15 DEF Understood, queueVars
<1> QED BY <1>6, <1>7, <1>9, <1>10, <1>11, <1>12, <1>13, <1>14, PartsPrime

-----------------------------------------------------------------------------
LEMMA InitKeeps == ASSUME Init PROVE IInv
<1> USE DEF Init
<1>1. TypeOK
  <2>1. NewPage \in Pages
    BY EmptyIsLine DEF NewPage, Pages, Reception
  <2>2. NoPoll \in Polls /\ NoSocket \in Websockets
    BY NoPollIsPoll DEF NoSocket, Websockets
  <2>3. status \in Lists
    BY DEF Lists, Statuses
  <2>4. <<>> \in Seq(Sockets) /\ 0 \in 0 .. MaxChanges /\ 0 \in 0 .. MaxFaults
    BY PageConstants
  <2>5. active \in Queues /\ active <= changes + 1 /\ queueOf \in [Customers -> 0 .. active]
    BY PageConstants DEF Queues
  <2> QED BY <2>1, <2>2, <2>3, <2>4, <2>5 DEF TypeOK
<1>2. ListInOrder
  BY DEF ListInOrder, Once, Range
<1>3. \A b \in Browsers : LiveSockets(b) = {}
  BY DEF LiveSockets, NoSocket
<1>4. SocketsInOrder /\ NoSnapshotComes
  BY <1>3 DEF SocketsInOrder, NoSnapshotComes
<1>5. SocketsAreWhole
  BY DEF SocketsAreWhole, NoSocket
<1>6. PlacesAreKept /\ JoinersMoveOn
  BY DEF PlacesAreKept, Expects, JoinersMoveOn, NewPage, Customers
<1>7. \A b \in Browsers, n \in PollSlots : Understood(b, poll[b][n])
  BY DEF Understood, NoPoll
<1> QED BY <1>1, <1>2, <1>4, <1>5, <1>6, <1>7, Parts

LEMMA NextKeeps == ASSUME IInv, [Next]_vars PROVE IInv'
<1>1. CASE UNCHANGED vars
  <2>1. /\ TypeOK' /\ ListInOrder' /\ SocketsInOrder' /\ SocketsAreWhole' /\ NoSnapshotComes'
        /\ PlacesAreKept' /\ JoinersMoveOn'
    BY <1>1, Parts DEF vars, TypeOK, ListInOrder, Once, SocketsInOrder, SocketsAreWhole, LeftBehind,
       LiveSockets, NoSnapshotComes, Expects, SnapshotComes, PlacesAreKept, JoinersMoveOn
  <2>2. (\A b \in Browsers, n \in PollSlots : Understood(b, poll[b][n]))'
    BY <1>1, Parts DEF vars, Understood, LeftBehind
  <2> QED BY <2>1, <2>2, PartsPrime
<1>2. CASE Staff
  BY <1>2, StaffKeeps
<1>3. CASE \E b \in Browsers : Customer(b) \/ Leave(b) \/ Connect(b)
  BY <1>3, ToldKeeps, NavigateKeeps, LeaveKeeps, ConnectKeeps DEF Customer
<1>4. CASE \E b \in Browsers, n \in PollSlots : Poll(b, n) \/ Request(b, n) \/ PollFails(b, n)
  BY <1>4, RequestKeeps
<1>5. CASE \E k \in Sockets : Connection(k) \/ Opens(k) \/ AcceptFails(k) \/ Drop(k)
  BY <1>5, RegisterKeeps, HangupKeeps, ShowSnapshotKeeps, OpensKeeps, AcceptFailsKeeps, DropKeeps
     DEF Connection
<1>6. CASE \E s \in sends : SendNext(s)
  BY <1>6, SendNextKeeps
<1> QED BY <1>1, <1>2, <1>3, <1>4, <1>5, <1>6 DEF Next

\* However polls, snapshots, joins and reconnects interleave, connections are in
\* order, places are kept, and what is under way to a page is no older than the
\* page may take it for (websocket_manager.py, AIShopPublicPage.tsx,
\* QueueViewPage.tsx).
THEOREM Invariance == Spec => []IInv
<1>1. Init => IInv
  BY InitKeeps
<1>2. IInv /\ [Next]_vars => IInv'
  BY NextKeeps
<1> QED BY <1>1, <1>2, PTL DEF Spec

\* A customer in line who was told their id keeps it: reconcileMyQueueItem forgets
\* it only for a list that was on its way when the join was answered, or when
\* their queue has been closed.
THEOREM CustomersKeepTheirPlace == Spec => []PlacesAreKept
<1>1. IInv => PlacesAreKept
  BY DEF IInv
<1> QED BY <1>1, Invariance, PTL

\* The manager lists a connection once and only while its endpoint receives, and
\* a browser has one live socket at most, also after its page was left.
THEOREM ConnectionsStayInOrder == Spec => []ConnectionsInOrder
<1>1. IInv => ConnectionsInOrder
  BY DEF IInv
<1> QED BY <1>1, Invariance, PTL
=============================================================================
