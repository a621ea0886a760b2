---------------------------- MODULE ApprovalFlow ----------------------------
(***************************************************************************)
(* How the owner's agent acts only after asking.  A chat runs the          *)
(* supervisor graph; a specialist may propose an action with the policy    *)
(* mode in force at that moment; the approval gate executes it, refuses it *)
(* or interrupts the graph; the owner decides with POST /approve.          *)
(*                                                                         *)
(* A shop has one owner, so all of a shop's chats share one checkpoint     *)
(* thread.  The graph of a chat runs in a worker thread; everything else   *)
(* runs on the event loop, one synchronous section at a time, which is     *)
(* what "loop" stands for.  A step is one commit or one saved checkpoint.  *)
(*                                                                         *)
(* LangGraph is external.  What is assumed of it: a run keeps its state    *)
(* and saves a checkpoint after every node; get_state and a resume load    *)
(* the latest checkpoint of the thread, whoever saved it; an interrupt is  *)
(* kept with the checkpoint of the node that raised it; a resume answers   *)
(* the first interrupt of the step it resumes.                             *)
(***************************************************************************)
EXTENDS Integers, FiniteSets

CONSTANTS
    Chats,          \* the chat requests that arrive (bound)
    Actions,        \* an action with its details: what the fingerprint tells apart
    PolicyModes,    \* the modes the owner sets in this instance
    FirstModes,     \* the modes in force at the beginning
    MaxProposals,   \* bound: proposals the specialists make
    MaxRequests,    \* bound: rows of approval_requests
    MaxFailures,    \* bound: exceptions and crashes on the event loop
    NoAction

Modes == {"allow", "notify_only", "silent", "forbid", "require_approval"}
AutoModes == {"allow", "notify_only", "silent"}
Proposals == 1 .. MaxProposals
RequestIds == 1 .. MaxRequests
None == 0

Loop == "loop"
Workers == Chats \cup {Loop}

ASSUME ConstantsOK ==
    /\ MaxProposals \in Nat /\ MaxRequests \in Nat /\ MaxFailures \in Nat
    /\ PolicyModes \subseteq Modes /\ FirstModes \subseteq Modes
    /\ Loop \notin Chats /\ NoAction \notin Actions

VARIABLES
    policy,     \* shop_policies: the mode of each action
    proposal,   \* what was proposed, under which mode; mode "unused" for ids not yet given
    thread,     \* the latest checkpoint of the thread
    worker,     \* the graph a chat's thread, or the approve handler, is running
    handler,    \* how far each chat's handler is
    seen,       \* what a chat read from the checkpoint when its graph had stopped
    goal, run,  \* the status of the chat's goal and run
    request,    \* the approval_requests table
    loop,       \* the synchronous section the event loop is in
    notified,   \* agent_notifications: the proposals reported as executed
    failures,   \* bound: how many there were
    executed,   \* history: how often each proposal was executed
    granted,    \* history: approvals the owner has given
    used        \* history: executions no policy mode permitted

vars == <<policy, proposal, thread, worker, handler, seen, goal, run, request, loop,
          notified, failures, executed, granted, used>>
graph == <<thread, worker, proposal>>
history == <<executed, granted, used>>
work == <<goal, run, request, notified>>

Phases == {"none", "queued", "thinking", "gate", "acting", "reply", "asked", "end"}
Saved == {"none", "thinking", "gate", "reply", "end"}
Answers == {"none", "approve", "reject"}

Proposal == [action : Actions \cup {NoAction}, mode : Modes \cup {"unused"}]
NoProposal == [action |-> NoAction, mode |-> "unused"]

Checkpoint == [phase : Saved, proposal : Proposals \cup {None}, interrupted : BOOLEAN]
Worker == [phase : Phases, proposal : Proposals \cup {None}, answer : Answers]
NoCheckpoint == [phase |-> "none", proposal |-> None, interrupted |-> FALSE]
NoWorker == [phase |-> "none", proposal |-> None, answer |-> "none"]

\* The ids of cards: an interrupt's, the placeholder of a row that has none, no id.
CardIds == {"interrupt"} \X Proposals \cup {"row"} \X RequestIds \cup {<<"none", None>>}
NoId == <<"none", None>>
InterruptId(p) == <<"interrupt", p>>

Seen == [proposal : Proposals \cup {None}, id : CardIds]
NothingSeen == [proposal |-> None, id |-> NoId]

RequestStatuses == {"unused", "pending", "approved", "rejected"}
Request == [status : RequestStatuses, ext : CardIds,
            proposal : Proposals \cup {None}, chat : Chats \cup {Loop}]
NoRequest == [status |-> "unused", ext |-> NoId, proposal |-> None, chat |-> Loop]

Sections == {"idle", "run", "row", "load", "graph", "decide", "decide goal", "decide run"}
Section == [step : Sections, chat : Chats \cup {Loop}, id : CardIds,
            proposal : Proposals \cup {None}, answer : Answers]
Idle == [step |-> "idle", chat |-> Loop, id |-> NoId, proposal |-> None, answer |-> "none"]

Free == loop = Idle

-----------------------------------------------------------------------------
(* Finding the row of approval_requests that a card stands for.            *)

Filed(n) == request[n].status # "unused"

\* Mutant: a row that was decided is found again.
PendingOrDecided(n) == Filed(n)

Pending(n) == request[n].status = "pending"

SameAction(p, q) == proposal[p].action = proposal[q].action

\* Mutant: the placeholder id of a row without one is not understood.
ByIdOnlyExternal(id) == {n \in RequestIds : id # NoId /\ Pending(n) /\ id = request[n].ext}

\* By external_action_id, or by the placeholder "approval-request-<id>".
ById(id) ==
    {n \in RequestIds : id # NoId /\ Pending(n) /\ id \in {request[n].ext, <<"row", n>>}}

\* Mutant: cards are told apart by id alone.
SameCardsNever(p) == {}

\* The pending rows with the same action and details (the fingerprint).
SameCards(p) == {n \in RequestIds : p # None /\ Pending(n) /\ SameAction(request[n].proposal, p)}

\* By id, else the oldest row with the same fingerprint.
Matching(id, p) ==
    IF ById(id) # {} THEN ById(id) ELSE {n \in SameCards(p) : \A m \in SameCards(p) : n <= m}

\* The id is filled in on a row that was filed without one.
WithId(r, id) == IF r.ext = NoId THEN [r EXCEPT !.ext = id] ELSE r

-----------------------------------------------------------------------------
(* The graph, run by w: a chat's thread, or the approve handler's resume.  *)

Step(w, phase, p) == worker' = [worker EXCEPT ![w] = [NoWorker EXCEPT !.phase = phase, !.proposal = p]]
Save(phase, p) == thread' = [phase |-> phase, proposal |-> p, interrupted |-> FALSE]

Begin(w) ==
    /\ worker[w].phase = "queued"
    /\ Step(w, "thinking", None) /\ Save("thinking", None)
    /\ UNCHANGED <<policy, proposal, handler, seen, work, loop, failures, history>>

\* classify_intent, plan_and_route and execute_plan.  A proposal carries the
\* policy mode of the moment it is made.
ExecutePlan(w) ==
    /\ worker[w].phase = "thinking"
    /\ \/ /\ Step(w, "gate", None) /\ Save("gate", None)
          /\ UNCHANGED proposal
       \/ \E a \in Actions, p \in Proposals :
            /\ {q \in Proposals : proposal[q] # NoProposal} = 1 .. p - 1
            /\ proposal' = [proposal EXCEPT ![p] = [action |-> a, mode |-> policy[a]]]
            /\ Step(w, "gate", p) /\ Save("gate", p)
    /\ UNCHANGED <<policy, handler, seen, work, loop, failures, history>>

AtGate(w) == worker[w].phase = "gate"
ModeAt(w) == IF worker[w].proposal = None THEN "none" ELSE proposal[worker[w].proposal].mode

\* _execute_approved_action, which may fail without anybody noticing the
\* difference: the action counts as executed.
Execute(p) ==
    /\ executed' = [executed EXCEPT ![p] = @ + 1]
    /\ used' = IF proposal[p].mode \in AutoModes THEN used ELSE used + 1

\* Nothing was proposed, or the mode is FORBID.
GatePasses(w) ==
    /\ AtGate(w) /\ ModeAt(w) \in {"none", "forbid"}
    /\ Step(w, "reply", None) /\ Save("reply", None)
    /\ UNCHANGED <<policy, proposal, handler, seen, work, loop, failures, history>>

\* Mutant: any answer is taken for an approval.
IsApprovalAnyway(answer) == answer # "none"

IsApproval(answer) == answer = "approve"

\* ALLOW, NOTIFY_ONLY and SILENT execute at once; REQUIRE_APPROVAL when the
\* interrupt returns an approval.
GateExecutes(w) ==
    /\ AtGate(w)
    /\ \/ ModeAt(w) \in AutoModes
       \/ ModeAt(w) = "require_approval" /\ IsApproval(worker[w].answer)
    /\ Execute(worker[w].proposal)
    /\ Step(w, "acting", worker[w].proposal)
    /\ UNCHANGED <<policy, proposal, thread, handler, seen, work, loop, failures, granted>>

GateRejects(w) ==
    /\ AtGate(w) /\ ModeAt(w) = "require_approval"
    /\ worker[w].answer # "none" /\ ~IsApproval(worker[w].answer)
    /\ Step(w, "reply", None) /\ Save("reply", None)
    /\ UNCHANGED <<policy, proposal, handler, seen, work, loop, failures, history>>

\* The interrupt is kept with this run's checkpoint, and seen by nobody when
\* another run has saved one since, or a new chat has deleted it.
GateInterrupts(w) ==
    /\ AtGate(w) /\ ModeAt(w) = "require_approval" /\ worker[w].answer = "none"
    /\ thread' = IF thread.phase = "gate" /\ thread.proposal = worker[w].proposal
                 THEN [thread EXCEPT !.interrupted = TRUE] ELSE thread
    /\ Step(w, "asked", None)
    /\ UNCHANGED <<policy, proposal, handler, seen, work, loop, failures, history>>

GateSaves(w) ==
    /\ worker[w].phase = "acting"
    /\ notified' = IF ModeAt(w) = "notify_only" THEN notified \cup {worker[w].proposal} ELSE notified
    /\ Step(w, "reply", None) /\ Save("reply", None)
    /\ UNCHANGED <<policy, proposal, handler, seen, goal, run, request, loop, failures, history>>

Synthesize(w) ==
    /\ worker[w].phase = "reply"
    /\ Step(w, "end", None) /\ Save("end", None)
    /\ UNCHANGED <<policy, proposal, handler, seen, work, loop, failures, history>>

-----------------------------------------------------------------------------
(* The chat handlers.                                                      *)

Blocked == thread.interrupted \/ \E n \in RequestIds : Pending(n)

CardOf(n) == IF request[n].ext # NoId THEN request[n].ext ELSE <<"row", n>>

\* The first of the pending cards: the interrupt's, or the oldest row's.
ShownFirst ==
    IF thread.interrupted THEN {InterruptId(thread.proposal)}
    ELSE {CardOf(n) : n \in {m \in RequestIds : Pending(m) /\ \A k \in 1 .. m - 1 : ~Pending(k)}}

\* A chat is taken only when nothing is pending; it clears the idle thread
\* and opens a goal and a run.  When the rows cannot be read it is not held up.
\* The thread stays when the DELETE fails, or an interrupt is about to arrive.
StartChat(c) ==
    /\ Free /\ handler[c] = "new" /\ ~thread.interrupted
    /\ \/ ~Blocked /\ UNCHANGED failures
       \/ Blocked /\ failures < MaxFailures /\ failures' = failures + 1
    /\ handler' = [handler EXCEPT ![c] = "running"]
    /\ thread' \in {NoCheckpoint, thread}
    /\ goal' = [goal EXCEPT ![c] = "pending"]
    /\ run' = [run EXCEPT ![c] = "running"]
    /\ Step(c, "queued", None)
    /\ UNCHANGED <<policy, proposal, seen, request, notified, loop, history>>

\* What get_state shows: a pending action when the graph is not at its end.
Snapshot ==
    [proposal |-> thread.proposal,
     id |-> IF thread.interrupted THEN InterruptId(thread.proposal) ELSE NoId]

\* In a thread again: another chat may have saved a checkpoint since.  A stream
\* that has its text does not look; a stream whose look fails carries on.
ReadState(c) ==
    /\ handler[c] = "running" /\ worker[c].phase \in {"asked", "end"}
    /\ handler' = [handler EXCEPT ![c] = "read"]
    /\ \/ seen' = [seen EXCEPT ![c] = Snapshot] /\ UNCHANGED failures
       \/ worker[c].phase = "end" /\ UNCHANGED <<seen, failures>>
       \/ worker[c].phase = "asked" /\ failures < MaxFailures
          /\ failures' = failures + 1 /\ UNCHANGED seen
    /\ UNCHANGED <<policy, graph, work, loop, history>>

\* Mutant: the chat is over whatever it is waiting for.
OutcomeCompleted(c) == "completed"

Outcome(c) == IF seen[c].proposal # None THEN "waiting_approval" ELSE "completed"

\* _finalize_chat_work_context: goal, run, row, each committed on its own.
FinishGoal(c) ==
    /\ Free /\ handler[c] = "read"
    /\ goal' = [goal EXCEPT ![c] = Outcome(c)]
    /\ handler' = [handler EXCEPT ![c] = "done"]
    /\ loop' = [Idle EXCEPT !.step = "run", !.chat = c]
    /\ UNCHANGED <<policy, graph, seen, run, request, notified, failures, history>>

FinishRun ==
    /\ loop.step = "run"
    /\ run' = [run EXCEPT ![loop.chat] = Outcome(loop.chat)]
    /\ loop' = IF seen[loop.chat].proposal = None THEN Idle ELSE [loop EXCEPT !.step = "row"]
    /\ UNCHANGED <<policy, graph, handler, seen, goal, request, notified, failures, history>>

\* The next row of the table.
NewRequest == {n \in RequestIds : {m \in RequestIds : Filed(m)} = 1 .. n - 1}

\* _persist_approval_request: one card per action, whoever proposes it.
FileRequest ==
    /\ loop.step = "row"
    /\ LET s == seen[loop.chat] IN
        IF ById(s.id) = {} /\ SameCards(s.proposal) = {}
        THEN \E n \in NewRequest :
                request' = [request EXCEPT ![n] =
                    [status |-> "pending", ext |-> s.id, proposal |-> s.proposal,
                     chat |-> loop.chat]]
        ELSE \E n \in Matching(s.id, s.proposal) :
                request' = [request EXCEPT ![n] = WithId(@, s.id)]
    /\ loop' = Idle
    /\ UNCHANGED <<policy, graph, handler, seen, goal, run, notified, failures, history>>

\* A sync chat answers 504 after its timeout, and a stream's client may
\* disconnect: nothing is finalized.  The thread of a sync chat goes on.
Abandon(c) ==
    /\ handler[c] \in {"running", "read"}
    /\ handler' = [handler EXCEPT ![c] = "done"]
    /\ UNCHANGED <<policy, graph, seen, work, loop, failures, history>>

\* The thread of a stream stops between two nodes; an exception in a node, and
\* a restart, stop it anywhere.
Stop(c) ==
    /\ handler[c] = "done" /\ worker[c].phase \notin {"none", "asked", "end"}
    /\ worker' = [worker EXCEPT ![c] = NoWorker]
    /\ UNCHANGED <<policy, proposal, thread, handler, seen, work, loop, failures, history>>

-----------------------------------------------------------------------------
(* POST /approve.  A request that is refused (409) changes nothing.        *)

NamesInterrupt(id) == id \in {InterruptId(thread.proposal), NoId}

Grant(answer) == granted' = IF answer = "approve" THEN granted + 1 ELSE granted

\* With an interrupt in the thread: check its id, then resume the graph.
DecideInterrupt(id, answer) ==
    /\ Free /\ thread.interrupted /\ NamesInterrupt(id)
    /\ loop' = [Idle EXCEPT !.step = "load", !.id = InterruptId(thread.proposal),
                            !.proposal = thread.proposal, !.answer = answer]
    /\ Grant(answer)
    /\ UNCHANGED <<policy, graph, handler, seen, work, failures, executed, used>>

\* invoke(Command(resume)) loads the latest checkpoint once more, and a thread
\* may have saved another one after the check.
LoadCheckpoint ==
    /\ loop.step = "load"
    /\ worker' = [worker EXCEPT ![Loop] =
            [phase |-> thread.phase, proposal |-> thread.proposal, answer |-> loop.answer]]
    /\ loop' = [loop EXCEPT !.step = "graph"]
    /\ UNCHANGED <<policy, proposal, thread, handler, seen, work, failures, history>>

Resumed ==
    /\ loop.step = "graph" /\ worker[Loop].phase \in {"asked", "end"}
    /\ worker' = [worker EXCEPT ![Loop] = NoWorker]
    /\ loop' = [loop EXCEPT !.step = "decide"]
    /\ UNCHANGED <<policy, proposal, thread, handler, seen, work, failures, history>>

\* With no interrupt: the row is the proposal, and it is executed from there.
DecideRequest(id, answer) ==
    /\ Free /\ ~thread.interrupted
    /\ \E n \in ById(id) :
        IF IsApproval(answer) THEN Execute(request[n].proposal) ELSE UNCHANGED <<executed, used>>
    /\ Grant(answer)
    /\ loop' = [Idle EXCEPT !.step = "decide", !.id = id, !.answer = answer]
    /\ UNCHANGED <<policy, graph, handler, seen, work, failures>>

\* Mutant: a rejection is not written down.
DecisionApprovalsOnly(answer) == IF answer = "approve" THEN "approved" ELSE "pending"

Decision(answer) == IF answer = "approve" THEN "approved" ELSE "rejected"

DecidedWork(answer) == IF answer = "approve" THEN "completed" ELSE "cancelled"

\* _record_approval_decision: the row's id when it has none, the row, goal,
\* run, each committed on its own; no row, nothing to record.
DecideRow ==
    /\ loop.step = "decide"
    /\ LET found == Matching(loop.id, loop.proposal) IN
        \/ found = {} /\ loop' = Idle /\ UNCHANGED request
        \/ \E n \in found :
            /\ request[n].ext = NoId
            /\ request' = [request EXCEPT ![n] = WithId(@, loop.id)]
            /\ UNCHANGED loop
        \/ \E n \in found :
            /\ request[n].ext # NoId
            /\ request' = [request EXCEPT ![n].status = Decision(loop.answer)]
            /\ loop' = [loop EXCEPT !.step = "decide goal", !.chat = request[n].chat]
    /\ UNCHANGED <<policy, graph, handler, seen, goal, run, notified, failures, history>>

DecideGoal ==
    /\ loop.step = "decide goal"
    /\ goal' = [goal EXCEPT ![loop.chat] = DecidedWork(loop.answer)]
    /\ loop' = [loop EXCEPT !.step = "decide run"]
    /\ UNCHANGED <<policy, graph, handler, seen, run, request, notified, failures, history>>

DecideRun ==
    /\ loop.step = "decide run"
    /\ run' = [run EXCEPT ![loop.chat] = DecidedWork(loop.answer)]
    /\ loop' = Idle
    /\ UNCHANGED <<policy, graph, handler, seen, goal, request, notified, failures, history>>

-----------------------------------------------------------------------------

\* PUT /policies/{key}.
SetPolicy(a, m) ==
    /\ Free
    /\ policy' = [policy EXCEPT ![a] = m]
    /\ UNCHANGED <<graph, handler, seen, work, loop, failures, history>>

\* An exception or a crash in the middle of a section.
LoopFails ==
    /\ ~Free /\ failures < MaxFailures
    /\ failures' = failures + 1
    /\ loop' = Idle
    /\ worker' = [worker EXCEPT ![Loop] = NoWorker]
    /\ UNCHANGED <<policy, proposal, thread, handler, seen, work, history>>

Init ==
    /\ policy \in [Actions -> FirstModes]
    /\ proposal = [p \in Proposals |-> NoProposal]
    /\ thread = NoCheckpoint
    /\ worker = [w \in Workers |-> NoWorker]
    /\ handler = [c \in Chats |-> "new"]
    /\ seen = [c \in Chats |-> NothingSeen]
    /\ goal = [c \in Chats |-> "none"]
    /\ run = [c \in Chats |-> "none"]
    /\ request = [n \in RequestIds |-> NoRequest]
    /\ loop = Idle
    /\ notified = {}
    /\ failures = 0
    /\ executed = [p \in Proposals |-> 0]
    /\ granted = 0
    /\ used = 0

GraphNode(w) ==
    \/ Begin(w) \/ ExecutePlan(w)
    \/ GatePasses(w) \/ GateExecutes(w) \/ GateRejects(w) \/ GateInterrupts(w) \/ GateSaves(w)
    \/ Synthesize(w)

SectionStep ==
    \/ FinishRun \/ FileRequest
    \/ LoadCheckpoint \/ Resumed
    \/ DecideRow \/ DecideGoal \/ DecideRun

Owner ==
    \/ \E c \in Chats : StartChat(c)
    \/ \E id \in CardIds, answer \in {"approve", "reject"} :
            DecideInterrupt(id, answer) \/ DecideRequest(id, answer)
    \/ \E a \in Actions, m \in PolicyModes : SetPolicy(a, m)

Next ==
    \/ \E w \in Workers : GraphNode(w)
    \/ \E c \in Chats : ReadState(c) \/ FinishGoal(c) \/ Abandon(c) \/ Stop(c)
    \/ SectionStep
    \/ Owner
    \/ LoopFails

Spec == Init /\ [][Next]_vars

\* Node after node the graph runs, a section that has begun goes on, and an
\* owner who is held up decides the card that is shown first.
Fairness ==
    /\ \A w \in Workers : WF_vars(GraphNode(w))
    /\ \A c \in Chats : WF_vars(ReadState(c) \/ FinishGoal(c))
    /\ WF_vars(SectionStep)
    /\ WF_vars(\E id \in ShownFirst, answer \in {"approve", "reject"} :
                    DecideInterrupt(id, answer) \/ DecideRequest(id, answer))

FairSpec == Spec /\ Fairness

-----------------------------------------------------------------------------
(* Properties.                                                             *)

TypeOK ==
    /\ policy \in [Actions -> Modes]
    /\ proposal \in [Proposals -> Proposal]
    /\ thread \in Checkpoint
    /\ worker \in [Workers -> Worker]
    /\ handler \in [Chats -> {"new", "running", "read", "done"}]
    /\ seen \in [Chats -> Seen]
    /\ goal \in [Chats -> {"none", "pending", "waiting_approval", "completed", "cancelled"}]
    /\ run \in [Chats -> {"none", "running", "waiting_approval", "completed", "cancelled"}]
    /\ request \in [RequestIds -> Request]
    /\ loop \in Section
    /\ notified \subseteq Proposals
    /\ failures \in 0 .. MaxFailures
    /\ executed \in [Proposals -> Nat]
    /\ granted \in Nat /\ used \in Nat

\* Every execution that no policy mode permits is paid for by an approval of
\* its own, whatever chats overlap and wherever a handler breaks off; one
\* approval never executes twice (approval_gate, _resume_persisted_approval).
ExecutionsAreGranted == used <= granted

\* A card in the owner's inbox belongs to a goal and a run that wait for it:
\* the statuses are committed before the row, and the decision after it.
CardsAreWaitedFor ==
    \A n \in RequestIds : Pending(n) =>
        /\ goal[request[n].chat] = "waiting_approval"
        /\ run[request[n].chat] = "waiting_approval"

\* The inbox never shows one action twice, though chats that overlap propose
\* the same action and file it under different ids.
OneCardPerAction ==
    \A m, n \in RequestIds :
        Pending(m) /\ Pending(n) /\ m # n => ~SameAction(request[m].proposal, request[n].proposal)

\* The rows of approval_requests as cards.
CardInInbox(n) ==
    [about |-> IF Filed(n) THEN proposal[request[n].proposal].action ELSE NoAction,
     status |-> request[n].status]

OwnersInbox == INSTANCE Inbox WITH
    card <- [n \in RequestIds |-> CardInInbox(n)], approvals <- granted, spent <- used

\* Chats that overlap on one checkpoint thread, interrupts that are lost,
\* answers by two kinds of id and handlers that break off implement an inbox:
\* what is decided stays decided, and an approval settles at most one card and
\* runs at most one action.
ImplementsInbox == OwnersInbox!Spec

\* An owner who is told to decide first can: deciding what is shown first
\* always ends the block, though cards have lost their interrupt, or never
\* had an id, or hide each other.
BlockEnds == Blocked ~> ~Blocked

\* supervisor.py tells the owner that a forbidden action "is blocked by the
\* current shop policy, so no changes were made".
ForbiddenNeverRuns == \A p \in Proposals : proposal[p].mode = "forbid" => executed[p] = 0

-----------------------------------------------------------------------------
(* Why the safety properties hold.                                         *)

Proposed(p) == p = None \/ (p \in Proposals /\ proposal[p].action \in Actions)

\* Whatever is remembered of a proposal, the proposal was made.
ProposalsExist ==
    /\ Proposed(thread.proposal) /\ (thread.interrupted => thread.proposal # None)
    /\ \A w \in Workers : Proposed(worker[w].proposal)
    /\ \A c \in Chats : Proposed(seen[c].proposal)
    /\ \A n \in RequestIds : Filed(n) => request[n].proposal # None /\ Proposed(request[n].proposal)

\* The only answer under way is the one the event loop carries, and an
\* approval under way is still to be used.
AnswerIsUnused ==
    /\ \A w \in Workers : worker[w].answer # "none" => w = Loop /\ loop.step = "graph"
    /\ (loop.step = "load" /\ loop.answer = "approve") => used < granted
    /\ worker[Loop].answer = "approve" => used < granted

\* Every chat files at most one row, after its handler has come to the end.
OneRowPerChat ==
    /\ \A n \in RequestIds : Filed(n) => request[n].chat \in Chats /\ handler[request[n].chat] = "done"
    /\ \A m, n \in RequestIds : Filed(m) /\ Filed(n) /\ request[m].chat = request[n].chat => m = n

\* What the sections that write a goal, a run and a row rely on.
SectionsInOrder ==
    /\ loop.step \in {"run", "row"} =>
        /\ loop.chat \in Chats /\ handler[loop.chat] = "done"
        /\ goal[loop.chat] = Outcome(loop.chat)
        /\ \A n \in RequestIds : Filed(n) => request[n].chat # loop.chat
    /\ loop.step = "row" =>
        seen[loop.chat].proposal # None /\ run[loop.chat] = "waiting_approval"
    /\ loop.step \in {"decide goal", "decide run"} =>
        /\ loop.chat \in Chats
        /\ \A n \in RequestIds : Pending(n) => request[n].chat # loop.chat

\* The rows decided as approved, and the approval that is about to be written
\* down, are among the approvals the owner has given.
ApprovedRows == {n \in RequestIds : request[n].status = "approved"}
ToBeWritten == loop.step \in {"load", "graph", "decide"} /\ loop.answer = "approve"
ApprovalsAreGiven ==
    IF ToBeWritten THEN Cardinality(ApprovedRows) < granted ELSE Cardinality(ApprovedRows) <= granted

IInv ==
    /\ TypeOK
    /\ ProposalsExist
    /\ ExecutionsAreGranted
    /\ AnswerIsUnused
    /\ OneRowPerChat
    /\ SectionsInOrder
    /\ CardsAreWaitedFor
    /\ OneCardPerAction
    /\ ApprovalsAreGiven
=============================================================================
