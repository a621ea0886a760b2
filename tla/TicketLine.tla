----------------------------- MODULE TicketLine -----------------------------
(***************************************************************************)
(* What a shop's walk-in queues promise their customers, with no database, *)
(* no row lock and no process in sight: every queue is one line, a         *)
(* customer who joins stands behind everybody already in it, nobody ever   *)
(* changes place, and a line disappears only as a whole (the owner resets  *)
(* or deletes the queue).                                                  *)
(***************************************************************************)
EXTENDS Naturals, Sequences

CONSTANTS
    Queues,      \* the queues of the shop
    MaxItems     \* bound: how many customers ever join

VARIABLES
    line,        \* [Queues -> Seq(1..MaxItems)], the first in line first
    issued       \* how many tickets have been handed out

vars == <<line, issued>>

Init ==
    /\ line = [q \in Queues |-> <<>>]
    /\ issued = 0

\* A customer takes the next ticket and stands at the end of line q.
Arrive(q) ==
    /\ issued < MaxItems
    /\ issued' = issued + 1
    /\ line' = [line EXCEPT ![q] = Append(@, issued + 1)]

\* The owner empties line q.
Clear(q) ==
    /\ line' = [line EXCEPT ![q] = <<>>]
    /\ UNCHANGED issued

Next == \E q \in Queues : Arrive(q) \/ Clear(q)

Spec == Init /\ [][Next]_vars
=============================================================================
