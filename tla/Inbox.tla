-------------------------------- MODULE Inbox --------------------------------
(***************************************************************************)
(* What the owner's inbox promises, with no graph, no checkpoint and no    *)
(* chat in sight: a card asks about one action, no two waiting cards ask   *)
(* about the same one, a card is settled once and for good, and for each   *)
(* approval the owner gives at most one card is settled as approved and at *)
(* most one action is run.                                                 *)
(***************************************************************************)
EXTENDS Naturals, FiniteSets

CONSTANTS
    Actions,      \* what a card may ask about
    NoAction,
    MaxRequests   \* bound: cards

Cards == 1 .. MaxRequests

VARIABLES
    card,       \* what a card asks about, and how it stands
    approvals,  \* approvals the owner has given
    spent       \* approvals that have run an action

vars == <<card, approvals, spent>>

Init ==
    /\ card = [n \in Cards |-> [about |-> NoAction, status |-> "unused"]]
    /\ approvals = 0 /\ spent = 0

With(status) == {n \in Cards : card[n].status = status}

\* The next card, about an action nobody is being asked about.
File(n, a) ==
    /\ Cards \ With("unused") = 1 .. n - 1
    /\ \A m \in With("pending") : card[m].about # a
    /\ card' = [card EXCEPT ![n] = [about |-> a, status |-> "pending"]]
    /\ UNCHANGED <<approvals, spent>>

\* The owner says yes; the action may run at once, or later, or never.
Approve ==
    /\ approvals' = approvals + 1
    /\ spent' \in {spent, spent + 1}
    /\ spent' <= approvals'
    /\ UNCHANGED card

Run ==
    /\ spent < approvals
    /\ spent' = spent + 1
    /\ UNCHANGED <<card, approvals>>

\* The answer is written down.
Settle(n, status) ==
    /\ card[n].status = "pending"
    /\ status = "approved" => Cardinality(With("approved")) < approvals
    /\ card' = [card EXCEPT ![n].status = status]
    /\ UNCHANGED <<approvals, spent>>

Next ==
    \/ \E n \in Cards, a \in Actions : File(n, a)
    \/ Approve \/ Run
    \/ \E n \in Cards, status \in {"approved", "rejected"} : Settle(n, status)

Spec == Init /\ [][Next]_vars
=============================================================================
