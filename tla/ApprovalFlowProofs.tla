------------------------- MODULE ApprovalFlowProofs -------------------------
(***************************************************************************)
(* The agent acts only as often as the owner allowed, and the rows of      *)
(* approval_requests are an inbox, for any number of chats, actions,       *)
(* proposals and failures.                                                 *)
(***************************************************************************)
EXTENDS ApprovalFlow, FiniteSetTheorems, TLAPS

-----------------------------------------------------------------------------
(* Types.                                                                  *)

LEMMA CardIdsHave ==
    /\ NoId \in CardIds
    /\ \A p \in Proposals : InterruptId(p) \in CardIds /\ InterruptId(p) # NoId
    /\ \A n \in RequestIds : <<"row", n>> \in CardIds
BY DEF CardIds, NoId, InterruptId

\* Where the event loop may go from one section to the next.
LEMMA SectionSteps ==
    /\ Idle \in Section
    /\ \A l \in Section, step \in Sections : [l EXCEPT !.step = step] \in Section
    /\ \A l \in Section, step \in Sections, c \in Chats \cup {Loop} :
            [l EXCEPT !.step = step, !.chat = c] \in Section
    /\ \A l \in Section, step \in Sections, id \in CardIds, answer \in Answers :
            [l EXCEPT !.step = step, !.id = id, !.answer = answer] \in Section
    /\ \A l \in Section, step \in Sections, id \in CardIds, p \in Proposals, answer \in Answers :
            [l EXCEPT !.step = step, !.id = id, !.proposal = p, !.answer = answer] \in Section
<1>1. Idle \in Section
  BY CardIdsHave DEF Idle, Section, Sections, Answers
<1>2. \A l \in Section, step \in Sections : [l EXCEPT !.step = step] \in Section
  BY DEF Section
<1>3. \A l \in Section, step \in Sections, c \in Chats \cup {Loop} :
            [l EXCEPT !.step = step, !.chat = c] \in Section
  BY DEF Section
<1>4. \A l \in Section, step \in Sections, id \in CardIds, answer \in Answers :
            [l EXCEPT !.step = step, !.id = id, !.answer = answer] \in Section
  BY DEF Section
<1>5. \A l \in Section, step \in Sections, id \in CardIds, p \in Proposals, answer \in Answers :
            [l EXCEPT !.step = step, !.id = id, !.proposal = p, !.answer = answer] \in Section
  BY DEF Section
<1> QED BY <1>1, <1>2, <1>3, <1>4, <1>5

LEMMA SectionMoves ==
    ASSUME NEW l \in Section, NEW step, NEW c
    PROVE  /\ [l EXCEPT !.step = step].step = step
           /\ [l EXCEPT !.step = step].chat = l.chat
           /\ [l EXCEPT !.step = step].answer = l.answer
           /\ [l EXCEPT !.step = step, !.chat = c].step = step
           /\ [l EXCEPT !.step = step, !.chat = c].chat = c
<1>1. /\ [l EXCEPT !.step = step].step = step
      /\ [l EXCEPT !.step = step].chat = l.chat
      /\ [l EXCEPT !.step = step].answer = l.answer
  BY DEF Section
<1> DEFINE k == [l EXCEPT !.step = step, !.chat = c]
<1>2. k \in [step : {step}, chat : {c}, id : CardIds, proposal : Proposals \cup {None}, answer : Answers]
  BY DEF Section
<1> HIDE DEF k
<1>3. k.step = step /\ k.chat = c
  BY <1>2
<1> QED BY <1>1, <1>3 DEF k

\* A worker with its phase and proposal set.
LEMMA WorkerAt ==
    ASSUME NEW phase, NEW p
    PROVE  [NoWorker EXCEPT !.phase = phase, !.proposal = p]
               = [phase |-> phase, proposal |-> p, answer |-> "none"]
<1> DEFINE n == [NoWorker EXCEPT !.phase = phase, !.proposal = p]
<1>1. NoWorker \in [phase : {"none"}, proposal : {None}, answer : {"none"}]
  BY DEF NoWorker
<1>2. ASSUME NEW Ps, NEW Qs, NEW As, NEW r \in [phase : Ps, proposal : Qs, answer : As]
      PROVE  [r EXCEPT !.phase = phase, !.proposal = p]
                 \in [phase : {phase}, proposal : {p}, answer : As]
  OBVIOUS
<1>3. n \in [phase : {phase}, proposal : {p}, answer : {"none"}]
  BY <1>1, <1>2
<1> HIDE DEF n
<1>4. n = [phase |-> phase, proposal |-> p, answer |-> "none"]
  BY <1>3
<1> QED BY <1>4 DEF n

LEMMA StepTyped ==
    ASSUME TypeOK, NEW w, NEW phase \in Phases, NEW p \in Proposals \cup {None},
           Step(w, phase, p)
    PROVE  worker' \in [Workers -> Worker]
BY WorkerAt DEF TypeOK, Step, Worker, Answers

LEMMA SaveTyped ==
    ASSUME NEW phase \in Saved, NEW p \in Proposals \cup {None}, Save(phase, p)
    PROVE  thread' \in Checkpoint
BY DEF Save, Checkpoint

LEMMA ExecuteTyped ==
    ASSUME TypeOK, NEW p, Execute(p)
    PROVE  executed' \in [Proposals -> Nat] /\ used' \in Nat /\ used' \in {used, used + 1}
<1>1. executed' = [executed EXCEPT ![p] = executed[p] + 1]
  BY DEF Execute
<1>2. executed' \in [Proposals -> Nat]
  <2>1. CASE p \in Proposals
    BY <1>1, <2>1 DEF TypeOK
  <2>2. CASE p \notin Proposals
    BY <1>1, <2>2 DEF TypeOK
  <2> QED BY <2>1, <2>2
<1>3. used' = used \/ used' = used + 1
  BY DEF Execute
<1> QED BY <1>2, <1>3 DEF TypeOK

LEMMA GraphNodeTyped ==
    ASSUME TypeOK, NEW w \in Workers, GraphNode(w)
    PROVE  TypeOK'
<1>1. worker[w] \in Worker /\ worker[w].proposal \in Proposals \cup {None}
  BY DEF TypeOK, Worker
<1>2. CASE Begin(w)
  BY <1>2, StepTyped, SaveTyped DEF Begin, TypeOK, Phases, Saved, work, history
<1>3. CASE ExecutePlan(w)
  <2>1. CASE UNCHANGED proposal /\ Step(w, "gate", None) /\ Save("gate", None)
    BY <1>3, <2>1, StepTyped, SaveTyped DEF ExecutePlan, TypeOK, Phases, Saved, work, history
  <2>2. ASSUME NEW a \in Actions, NEW p \in Proposals,
               proposal' = [proposal EXCEPT ![p] = [action |-> a, mode |-> policy[a]]],
               Step(w, "gate", p) /\ Save("gate", p)
        PROVE  TypeOK'
    <3>1. proposal' \in [Proposals -> Proposal]
      BY <2>2 DEF TypeOK, Proposal
    <3> QED BY <1>3, <2>2, <3>1, StepTyped, SaveTyped DEF ExecutePlan, TypeOK, Phases, Saved, work, history
  <2> QED BY <1>3, <2>1, <2>2 DEF ExecutePlan
<1>4. CASE GatePasses(w)
  BY <1>4, StepTyped, SaveTyped DEF GatePasses, TypeOK, Phases, Saved, work, history
<1>5. CASE GateExecutes(w)
  BY <1>1, <1>5, StepTyped, ExecuteTyped DEF GateExecutes, TypeOK, Phases, Saved, work, history
<1>6. CASE GateRejects(w)
  BY <1>6, StepTyped, SaveTyped DEF GateRejects, TypeOK, Phases, Saved, work, history
<1>7. CASE GateInterrupts(w)
  <2>1. thread' \in Checkpoint
    BY <1>7 DEF GateInterrupts, TypeOK, Checkpoint
  <2> QED BY <1>7, <2>1, StepTyped DEF GateInterrupts, TypeOK, Phases, Saved, work, history
<1>8. CASE GateSaves(w)
  <2>1. worker[w].proposal # None => notified' \subseteq Proposals
    BY <1>1, <1>8 DEF GateSaves, TypeOK
  <2>2. ModeAt(w) = "notify_only" => worker[w].proposal # None
    BY DEF ModeAt
  <2>3. notified' \subseteq Proposals
    BY <1>8, <2>1, <2>2 DEF GateSaves, TypeOK
  <2> QED BY <1>8, <2>3, StepTyped, SaveTyped DEF GateSaves, TypeOK, Phases, Saved, history
<1>9. CASE Synthesize(w)
  BY <1>9, StepTyped, SaveTyped DEF Synthesize, TypeOK, Phases, Saved, work, history
<1> QED BY <1>2, <1>3, <1>4, <1>5, <1>6, <1>7, <1>8, <1>9 DEF GraphNode

LEMMA OwnerTyped == ASSUME TypeOK, ProposalsExist, Owner PROVE TypeOK'
<1>1. ASSUME NEW c \in Chats, StartChat(c) PROVE TypeOK'
  <2>1. worker' \in [Workers -> Worker]
    BY <1>1, StepTyped DEF StartChat, Phases
  <2>2. thread' \in Checkpoint
    <3>1. NoCheckpoint \in Checkpoint
      BY DEF NoCheckpoint, Checkpoint, Saved
    <3> QED BY <1>1, <3>1 DEF StartChat, TypeOK
  <2>3. failures' \in 0 .. MaxFailures
    BY <1>1, ConstantsOK DEF StartChat, TypeOK
  <2> QED BY <1>1, <2>1, <2>2, <2>3 DEF StartChat, TypeOK, history
<1>2. ASSUME NEW id \in CardIds, NEW answer \in {"approve", "reject"}, DecideInterrupt(id, answer)
      PROVE  TypeOK'
  <2>1. thread.proposal \in Proposals
    BY <1>2 DEF DecideInterrupt, ProposalsExist, TypeOK, Checkpoint
  <2>2. InterruptId(thread.proposal) \in CardIds
    BY <2>1 DEF InterruptId, CardIds
  <2>3. loop' \in Section
    BY <1>2, <2>1, <2>2, SectionSteps DEF DecideInterrupt, Sections, Answers
  <2>4. granted' \in Nat
    BY <1>2 DEF DecideInterrupt, Grant, TypeOK
  <2> QED BY <1>2, <2>3, <2>4 DEF DecideInterrupt, TypeOK, graph, work
<1>3. ASSUME NEW id \in CardIds, NEW answer \in {"approve", "reject"}, DecideRequest(id, answer)
      PROVE  TypeOK'
  <2>1. executed' \in [Proposals -> Nat] /\ used' \in Nat
    BY <1>3, ExecuteTyped DEF DecideRequest, TypeOK
  <2>2. loop' \in Section
    BY <1>3, SectionSteps DEF DecideRequest, Sections, Answers
  <2>3. granted' \in Nat
    BY <1>3 DEF DecideRequest, Grant, TypeOK
  <2> QED BY <1>3, <2>1, <2>2, <2>3 DEF DecideRequest, TypeOK, graph, work
<1>4. ASSUME NEW a \in Actions, NEW m \in PolicyModes, SetPolicy(a, m) PROVE TypeOK'
  BY <1>4, ConstantsOK DEF SetPolicy, TypeOK, graph, work, history
<1> QED BY <1>1, <1>2, <1>3, <1>4 DEF Owner

LEMMA HandlerTyped ==
    ASSUME TypeOK, ProposalsExist, NEW c \in Chats,
           ReadState(c) \/ FinishGoal(c) \/ Abandon(c) \/ Stop(c)
    PROVE  TypeOK'
<1>1. CASE ReadState(c)
  <2>1. Snapshot \in Seen
    <3>1. thread.proposal \in Proposals \cup {None}
      BY DEF TypeOK, Checkpoint
    <3>2. thread.interrupted => InterruptId(thread.proposal) \in CardIds
      BY <3>1, CardIdsHave DEF ProposalsExist
    <3> QED BY <3>1, <3>2, CardIdsHave DEF Snapshot, Seen
  <2>2. failures' \in 0 .. MaxFailures
    BY <1>1, ConstantsOK DEF ReadState, TypeOK
  <2>3. seen' \in [Chats -> Seen]
    BY <1>1, <2>1 DEF ReadState, TypeOK
  <2> QED BY <1>1, <2>2, <2>3 DEF ReadState, TypeOK, graph, work, history
<1>2. CASE FinishGoal(c)
  <2>1. loop' \in Section
    BY <1>2, SectionSteps DEF FinishGoal, Sections
  <2> QED BY <1>2, <2>1 DEF FinishGoal, Outcome, TypeOK, graph, history
<1>3. CASE Abandon(c)
  BY <1>3 DEF Abandon, TypeOK, graph, work, history
<1>4. CASE Stop(c)
  BY <1>4 DEF Stop, NoWorker, TypeOK, Worker, Phases, Answers, work, history
<1> QED BY <1>1, <1>2, <1>3, <1>4

LEMMA SectionTyped == ASSUME TypeOK, SectionsInOrder, SectionStep \/ LoopFails PROVE TypeOK'
<1>1. NoWorker \in Worker /\ Loop \in Workers
  BY DEF NoWorker, Worker, Workers, Phases, Answers
<1>2. loop \in Section /\ Idle \in Section /\ loop.answer \in Answers /\ loop.id \in CardIds
  BY SectionSteps DEF TypeOK, Section
<1>3. CASE FinishRun
  <2>1. loop' \in Section
    BY <1>2, <1>3, SectionSteps DEF FinishRun, Sections
  <2> QED BY <1>3, <2>1 DEF FinishRun, Outcome, TypeOK, graph, history
<1>4. CASE FileRequest
  <2>1. request' \in [RequestIds -> Request]
    <3> DEFINE s == seen[loop.chat]
    <3>1. PICK n \in RequestIds :
            \/ request' = [request EXCEPT ![n] =
                    [status |-> "pending", ext |-> s.id, proposal |-> s.proposal,
                     chat |-> loop.chat]]
            \/ request' = [request EXCEPT ![n] = WithId(request[n], s.id)]
      BY <1>4 DEF FileRequest, NewRequest, Matching, ById, SameCards
    <3>2. loop.chat \in Chats
      BY <1>4 DEF FileRequest, SectionsInOrder
    <3>3. s \in Seen
      BY <3>2 DEF TypeOK
    <3>4. [status |-> "pending", ext |-> s.id, proposal |-> s.proposal, chat |-> loop.chat] \in Request
      BY <3>2, <3>3 DEF Request, RequestStatuses, Seen
    <3>5. WithId(request[n], s.id) \in Request
      BY <3>3, SMTT(20) DEF WithId, TypeOK, Request, Seen
    <3> QED BY <3>1, <3>4, <3>5 DEF TypeOK
  <2> QED BY <1>2, <1>4, <2>1 DEF FileRequest, TypeOK, graph, history
<1>5. CASE LoadCheckpoint
  <2>1. [phase |-> thread.phase, proposal |-> thread.proposal, answer |-> loop.answer] \in Worker
    BY <1>2 DEF TypeOK, Checkpoint, Worker, Saved, Phases
  <2>2. loop' \in Section
    BY <1>2, <1>5, SectionSteps DEF LoadCheckpoint, Sections
  <2> QED BY <1>1, <1>5, <2>1, <2>2 DEF LoadCheckpoint, TypeOK, work, history
<1>6. CASE Resumed
  <2>1. loop' \in Section
    BY <1>2, <1>6, SectionSteps DEF Resumed, Sections
  <2> QED BY <1>1, <1>6, <2>1 DEF Resumed, TypeOK, work, history
<1>7. CASE DecideRow
  <2>1. CASE UNCHANGED request /\ loop' = Idle
    BY <1>2, <1>7, <2>1 DEF DecideRow, TypeOK, graph, history
  <2>2. ASSUME NEW n \in RequestIds, request' = [request EXCEPT ![n] = WithId(request[n], loop.id)],
               UNCHANGED loop
        PROVE  TypeOK'
    <3>1. WithId(request[n], loop.id) \in Request
      BY <1>2 DEF WithId, TypeOK, Request
    <3> QED BY <1>7, <2>2, <3>1 DEF DecideRow, TypeOK, graph, history
  <2>3. ASSUME NEW n \in RequestIds,
               request' = [request EXCEPT ![n].status = Decision(loop.answer)],
               loop' = [loop EXCEPT !.step = "decide goal", !.chat = request[n].chat]
        PROVE  TypeOK'
    <3>1. request' \in [RequestIds -> Request]
      BY <2>3 DEF TypeOK, Request, Decision, RequestStatuses
    <3>2. loop' \in Section
      BY <1>2, <2>3, SectionSteps DEF TypeOK, Request, Sections
    <3> QED BY <1>7, <3>1, <3>2 DEF DecideRow, TypeOK, graph, history
  <2> QED BY <1>7, <2>1, <2>2, <2>3 DEF DecideRow, Matching, ById, SameCards
<1>8. CASE DecideGoal
  <2>1. loop' \in Section
    BY <1>2, <1>8, SectionSteps DEF DecideGoal, Sections
  <2> QED BY <1>8, <2>1 DEF DecideGoal, DecidedWork, TypeOK, graph, history
<1>9. CASE DecideRun
  BY <1>2, <1>9 DEF DecideRun, DecidedWork, TypeOK, graph, history
<1>10. CASE LoopFails
  <2>1. failures' \in 0 .. MaxFailures
    BY <1>10, ConstantsOK DEF LoopFails, TypeOK
  <2> QED BY <1>1, <1>2, <1>10, <2>1 DEF LoopFails, TypeOK, work, history
<1> QED BY <1>3, <1>4, <1>5, <1>6, <1>7, <1>8, <1>9, <1>10 DEF SectionStep

-----------------------------------------------------------------------------
(* What a step does to the parts of the state the invariants relate.       *)

\* A worker that takes a step has lost the answer it carried.
LEMMA StepMoves ==
    ASSUME TypeOK, NEW w \in Workers, NEW phase, NEW p, Step(w, phase, p)
    PROVE  /\ worker'[w].phase = phase /\ worker'[w].proposal = p /\ worker'[w].answer = "none"
           /\ \A v \in Workers \ {w} : worker'[v] = worker[v]
<1>1. worker' = [worker EXCEPT ![w] = [phase |-> phase, proposal |-> p, answer |-> "none"]]
  BY WorkerAt DEF Step
<1> QED BY <1>1 DEF TypeOK

\* ExecutePlan takes an unused id: what was proposed stays as it was proposed.
LEMMA ProposedStays ==
    ASSUME TypeOK, NEW w \in Workers, GraphNode(w)
    PROVE  \A p \in Proposals : proposal[p] # NoProposal => proposal'[p] = proposal[p]
<1>1. CASE UNCHANGED proposal
  BY <1>1
<1>2. CASE ExecutePlan(w) /\ ~UNCHANGED proposal
  <2>1. PICK a \in Actions, p \in Proposals :
           /\ {q \in Proposals : proposal[q] # NoProposal} = 1 .. p - 1
           /\ proposal' = [proposal EXCEPT ![p] = [action |-> a, mode |-> policy[a]]]
    BY <1>2 DEF ExecutePlan
  <2>2. p \notin 1 .. p - 1
    BY DEF Proposals
  <2>3. proposal[p] = NoProposal
    BY <2>1, <2>2
  <2> QED BY <2>1, <2>3 DEF TypeOK
<1> QED BY <1>1, <1>2 DEF GraphNode, Begin, GatePasses, GateExecutes, GateRejects,
                         GateInterrupts, GateSaves, Synthesize

\* The rows of approval_requests are the same cards of the same chats.
RowsStay ==
    \A n \in RequestIds :
        /\ request'[n].status = request[n].status
        /\ request'[n].proposal = request[n].proposal
        /\ request'[n].chat = request[n].chat

LEMMA WithIdStays ==
    ASSUME TypeOK, NEW n \in RequestIds, NEW id,
           request' = [request EXCEPT ![n] = WithId(request[n], id)]
    PROVE  RowsStay
<1>1. request[n] \in Request
  BY DEF TypeOK
<1>2. ASSUME NEW r \in Request
      PROVE  /\ WithId(r, id).status = r.status
             /\ WithId(r, id).proposal = r.proposal
             /\ WithId(r, id).chat = r.chat
  BY DEF WithId, Request
<1> QED BY <1>1, <1>2 DEF TypeOK, RowsStay

\* _persist_approval_request fills in an id, or files the card of a chat that
\* found no other.
LEMMA FileRequestFiles ==
    ASSUME TypeOK, FileRequest
    PROVE  \/ RowsStay
           \/ \E n \in NewRequest :
                /\ ~Filed(n)
                /\ SameCards(seen[loop.chat].proposal) = {}
                /\ request' = [request EXCEPT ![n] =
                        [status |-> "pending", ext |-> seen[loop.chat].id,
                         proposal |-> seen[loop.chat].proposal, chat |-> loop.chat]]
<1>1. ASSUME NEW n \in NewRequest PROVE n \in RequestIds /\ ~Filed(n)
  <2>1. n \in RequestIds /\ {m \in RequestIds : Filed(m)} = 1 .. n - 1
    BY DEF NewRequest
  <2>2. n \notin 1 .. n - 1
    BY <2>1 DEF RequestIds
  <2> QED BY <2>1, <2>2
<1>2. ASSUME NEW id, NEW p, NEW n \in Matching(id, p) PROVE n \in RequestIds
  BY DEF Matching, ById, SameCards
<1> DEFINE s == seen[loop.chat]
<1>3. CASE ById(s.id) = {} /\ SameCards(s.proposal) = {}
  BY <1>1, <1>3 DEF FileRequest
<1>4. CASE ~(ById(s.id) = {} /\ SameCards(s.proposal) = {})
  BY <1>2, <1>4, WithIdStays DEF FileRequest
<1> QED BY <1>3, <1>4

\* _record_approval_decision fills in an id, or decides one pending row.
LEMMA DecideRowDecides ==
    ASSUME TypeOK, DecideRow
    PROVE  \/ RowsStay /\ loop' \in {Idle, loop}
           \/ \E n \in RequestIds :
                /\ Pending(n)
                /\ request' = [request EXCEPT ![n].status = Decision(loop.answer)]
                /\ loop' = [loop EXCEPT !.step = "decide goal", !.chat = request[n].chat]
<1>1. \A n \in Matching(loop.id, loop.proposal) : n \in RequestIds /\ Pending(n)
  BY DEF Matching, ById, SameCards
<1> QED BY <1>1, WithIdStays DEF DecideRow, RowsStay

-----------------------------------------------------------------------------
(* Whatever is remembered of a proposal, the proposal was made.            *)

LEMMA GraphNodeProposals ==
    ASSUME TypeOK, ProposalsExist, NEW w \in Workers, GraphNode(w)
    PROVE  ProposalsExist'
<1> DEFINE Made(p) == p = None \/ (p \in Proposals /\ proposal'[p].action \in Actions)
<1> USE DEF Proposed
<1>1. \A p \in Proposals \cup {None} : Proposed(p) => Made(p)
  BY ProposedStays, ConstantsOK DEF NoProposal
<1>2. /\ thread.proposal \in Proposals \cup {None}
      /\ \A v \in Workers : worker[v].proposal \in Proposals \cup {None}
      /\ \A c \in Chats : seen[c].proposal \in Proposals \cup {None}
      /\ \A n \in RequestIds : request[n].proposal \in Proposals \cup {None}
  BY DEF TypeOK, Checkpoint, Worker, Seen, Request
<1>3. UNCHANGED <<seen, request>>
  BY DEF GraphNode, Begin, ExecutePlan, GatePasses, GateExecutes, GateRejects,
         GateInterrupts, GateSaves, Synthesize, work
<1>4. /\ \A c \in Chats : Made(seen'[c].proposal)
      /\ \A n \in RequestIds : Filed(n)' => request'[n].proposal # None /\ Made(request'[n].proposal)
  BY <1>1, <1>2, <1>3 DEF ProposalsExist, Filed
<1>5. ASSUME NEW phase, NEW p, Step(w, phase, p), Made(p)
      PROVE  \A v \in Workers : Made(worker'[v].proposal)
  BY <1>1, <1>2, <1>5, StepMoves DEF ProposalsExist
<1>6. ASSUME NEW phase, NEW p, Save(phase, p), Made(p)
      PROVE  Made(thread'.proposal) /\ (thread'.interrupted => thread'.proposal # None)
  BY <1>6 DEF Save
<1>7. Made(None)
  OBVIOUS
<1>8. UNCHANGED thread
         => Made(thread'.proposal) /\ (thread'.interrupted => thread'.proposal # None)
  BY <1>1, <1>2 DEF ProposalsExist
<1>9. CASE Begin(w) \/ GatePasses(w) \/ GateRejects(w) \/ GateSaves(w) \/ Synthesize(w)
  BY <1>4, <1>5, <1>6, <1>7, <1>9
     DEF ProposalsExist, Begin, GatePasses, GateRejects, GateSaves, Synthesize
<1>10. CASE ExecutePlan(w)
  <2>1. CASE Step(w, "gate", None) /\ Save("gate", None)
    BY <1>4, <1>5, <1>6, <1>7, <2>1 DEF ProposalsExist
  <2>2. ASSUME NEW a \in Actions, NEW p \in Proposals,
               proposal' = [proposal EXCEPT ![p] = [action |-> a, mode |-> policy[a]]],
               Step(w, "gate", p) /\ Save("gate", p)
        PROVE  ProposalsExist'
    <3>1. Made(p)
      BY <2>2 DEF TypeOK
    <3> QED BY <1>4, <1>5, <1>6, <2>2, <3>1 DEF ProposalsExist
  <2> QED BY <1>10, <2>1, <2>2 DEF ExecutePlan
<1>11. CASE GateExecutes(w)
  <2>1. Made(worker[w].proposal)
    BY <1>1, <1>2 DEF ProposalsExist
  <2> QED BY <1>4, <1>5, <1>8, <1>11, <2>1 DEF ProposalsExist, GateExecutes
<1>12. CASE GateInterrupts(w)
  <2>1. CASE thread.phase = "gate" /\ thread.proposal = worker[w].proposal
    <3>1. thread'.proposal = thread.proposal
      BY <1>12, <2>1 DEF GateInterrupts, TypeOK, Checkpoint
    <3>2. thread.proposal # None
      BY <1>12, <2>1 DEF GateInterrupts, ModeAt
    <3>3. Made(thread'.proposal)
      BY <1>1, <1>2, <3>1 DEF ProposalsExist
    <3> QED BY <1>4, <1>5, <1>7, <1>12, <3>1, <3>2, <3>3 DEF ProposalsExist, GateInterrupts
  <2>2. CASE ~(thread.phase = "gate" /\ thread.proposal = worker[w].proposal)
    BY <1>4, <1>5, <1>7, <1>8, <1>12, <2>2 DEF ProposalsExist, GateInterrupts
  <2> QED BY <2>1, <2>2
<1> QED BY <1>9, <1>10, <1>11, <1>12 DEF GraphNode

LEMMA ChatProposals ==
    ASSUME TypeOK, ProposalsExist,
           \/ Owner
           \/ \E c \in Chats : ReadState(c) \/ FinishGoal(c) \/ Abandon(c) \/ Stop(c)
    PROVE  ProposalsExist'
<1> USE DEF Proposed
<1>1. ASSUME NEW c \in Chats, StartChat(c) PROVE ProposalsExist'
  <2>1. c \in Workers
    BY DEF Workers
  <2>2. \A v \in Workers : Proposed(worker'[v].proposal)
    BY <1>1, <2>1, StepMoves DEF StartChat, ProposalsExist
  <2>3. Proposed(thread'.proposal) /\ (thread'.interrupted => thread'.proposal # None)
    BY <1>1 DEF StartChat, ProposalsExist, NoCheckpoint
  <2> QED BY <1>1, <2>2, <2>3 DEF StartChat, ProposalsExist, Filed
<1>2. ASSUME NEW id \in CardIds, NEW answer, DecideInterrupt(id, answer) \/ DecideRequest(id, answer)
      PROVE  ProposalsExist'
  BY <1>2 DEF DecideInterrupt, DecideRequest, ProposalsExist, Filed, graph, work
<1>3. ASSUME NEW a \in Actions, NEW m, SetPolicy(a, m) PROVE ProposalsExist'
  BY <1>3 DEF SetPolicy, ProposalsExist, Filed, graph, work
<1>4. ASSUME NEW c \in Chats, ReadState(c) PROVE ProposalsExist'
  <2>1. Proposed(Snapshot.proposal)
    BY DEF Snapshot, ProposalsExist
  <2>2. \A d \in Chats : Proposed(seen'[d].proposal)
    BY <1>4, <2>1 DEF ReadState, ProposalsExist, TypeOK
  <2> QED BY <1>4, <2>2 DEF ReadState, ProposalsExist, Filed, graph, work
<1>5. ASSUME NEW c \in Chats, FinishGoal(c) \/ Abandon(c) PROVE ProposalsExist'
  BY <1>5 DEF FinishGoal, Abandon, ProposalsExist, Filed, graph, work
<1>6. ASSUME NEW c \in Chats, Stop(c) PROVE ProposalsExist'
  <2>1. \A v \in Workers : Proposed(worker'[v].proposal)
    BY <1>6 DEF Stop, ProposalsExist, TypeOK, NoWorker
  <2> QED BY <1>6, <2>1 DEF Stop, ProposalsExist, Filed, work
<1> QED BY <1>1, <1>2, <1>3, <1>4, <1>5, <1>6 DEF Owner

LEMMA SectionProposals ==
    ASSUME TypeOK, ProposalsExist, SectionsInOrder, SectionStep \/ LoopFails
    PROVE  ProposalsExist'
<1> USE DEF Proposed
<1>1. CASE FinishRun \/ DecideGoal \/ DecideRun
  BY <1>1 DEF FinishRun, DecideGoal, DecideRun, ProposalsExist, Filed, graph
<1>2. CASE FileRequest
  <2>1. UNCHANGED <<proposal, thread, worker, seen>>
    BY <1>2 DEF FileRequest, graph
  <2>2. CASE RowsStay
    BY <2>1, <2>2 DEF RowsStay, ProposalsExist, Filed
  <2>3. ASSUME NEW n \in NewRequest,
               request' = [request EXCEPT ![n] =
                   [status |-> "pending", ext |-> seen[loop.chat].id,
                    proposal |-> seen[loop.chat].proposal, chat |-> loop.chat]]
        PROVE  ProposalsExist'
    <3>1. seen[loop.chat].proposal # None /\ Proposed(seen[loop.chat].proposal)
      BY <1>2 DEF FileRequest, SectionsInOrder, ProposalsExist
    <3>2. \A m \in RequestIds : Filed(m)' => request'[m].proposal # None /\ Proposed(request'[m].proposal)
      BY <2>3, <3>1 DEF ProposalsExist, Filed, TypeOK
    <3> QED BY <2>1, <3>2 DEF ProposalsExist
  <2> QED BY <1>2, <2>2, <2>3, FileRequestFiles
<1>3. CASE LoadCheckpoint \/ Resumed \/ LoopFails
  <2>1. Loop \in Workers
    BY DEF Workers
  <2>2. \A v \in Workers : Proposed(worker'[v].proposal)
    BY <1>3, <2>1 DEF LoadCheckpoint, Resumed, LoopFails, ProposalsExist, TypeOK, NoWorker
  <2> QED BY <1>3, <2>2 DEF LoadCheckpoint, Resumed, LoopFails, ProposalsExist, Filed, work
<1>4. CASE DecideRow
  <2>1. UNCHANGED <<proposal, thread, worker, seen>>
    BY <1>4 DEF DecideRow, graph
  <2>2. CASE RowsStay
    BY <2>1, <2>2 DEF RowsStay, ProposalsExist, Filed
  <2>3. ASSUME NEW n \in RequestIds, Pending(n),
               request' = [request EXCEPT ![n].status = Decision(loop.answer)]
        PROVE  ProposalsExist'
    <3>1. \A m \in RequestIds : Filed(m)' => Filed(m) /\ request'[m].proposal = request[m].proposal
      BY <2>3 DEF Filed, Pending, TypeOK, Request
    <3> QED BY <2>1, <3>1 DEF ProposalsExist
  <2> QED BY <1>4, <2>2, <2>3, DecideRowDecides
<1> QED BY <1>1, <1>2, <1>3, <1>4 DEF SectionStep

-----------------------------------------------------------------------------
(* Every execution no mode permits is paid for by an approval.             *)

Paid == ExecutionsAreGranted /\ AnswerIsUnused

\* A node of the graph: only the approve handler's resume carries an answer,
\* and passing the gate takes it.
LEMMA GraphNodePaid ==
    ASSUME TypeOK, Paid, NEW w \in Workers, GraphNode(w)
    PROVE  Paid'
<1> USE DEF Paid, ExecutionsAreGranted, AnswerIsUnused
<1>1. UNCHANGED <<loop, granted>> /\ used \in Nat /\ granted \in Nat /\ Loop \in Workers
  BY DEF GraphNode, Begin, ExecutePlan, GatePasses, GateExecutes, GateRejects,
         GateInterrupts, GateSaves, Synthesize, history, TypeOK, Workers
<1>2. PICK phase, p : Step(w, phase, p)
  BY DEF GraphNode, Begin, ExecutePlan, GatePasses, GateExecutes, GateRejects,
         GateInterrupts, GateSaves, Synthesize
<1>3. worker'[w].answer = "none" /\ \A v \in Workers \ {w} : worker'[v] = worker[v]
  BY <1>2, StepMoves
<1>4. CASE UNCHANGED used
  BY <1>1, <1>3, <1>4
<1>5. CASE used' # used
  <2>1. GateExecutes(w) /\ Execute(worker[w].proposal)
    BY <1>5 DEF GraphNode, Begin, ExecutePlan, GatePasses, GateExecutes, GateRejects,
                GateInterrupts, GateSaves, Synthesize, history
  <2>2. used' = used + 1 /\ proposal[worker[w].proposal].mode \notin AutoModes
    BY <1>5, <2>1 DEF Execute
  <2>3. ModeAt(w) \notin AutoModes
    BY <2>2 DEF ModeAt, AutoModes
  <2>4. worker[w].answer = "approve"
    BY <2>1, <2>3 DEF GateExecutes, IsApproval
  <2>5. w = Loop /\ loop.step = "graph" /\ used < granted
    BY <2>4
  <2> QED BY <1>1, <1>3, <2>2, <2>5
<1> QED BY <1>4, <1>5

LEMMA ChatPaid ==
    ASSUME TypeOK, Paid,
           \/ Owner
           \/ \E c \in Chats : ReadState(c) \/ FinishGoal(c) \/ Abandon(c) \/ Stop(c)
    PROVE  Paid'
<1> USE DEF Paid, ExecutionsAreGranted, AnswerIsUnused
<1>1. used \in Nat /\ granted \in Nat /\ Loop \in Workers /\ Loop \notin Chats
  BY ConstantsOK DEF TypeOK, Workers
<1>2. ASSUME NEW c \in Chats, StartChat(c) PROVE Paid'
  <2>1. c \in Workers /\ c # Loop
    BY <1>1 DEF Workers
  <2>2. worker'[c].answer = "none" /\ \A v \in Workers \ {c} : worker'[v] = worker[v]
    BY <1>2, <2>1, StepMoves DEF StartChat
  <2> QED BY <1>1, <1>2, <2>1, <2>2 DEF StartChat, history
<1>3. Free => \A w \in Workers : worker[w].answer = "none"
  BY DEF Free, Idle
<1>4. ASSUME NEW id, NEW answer \in {"approve", "reject"}, DecideInterrupt(id, answer) PROVE Paid'
  <2>1. granted' \in {granted, granted + 1} /\ (answer = "approve" => granted' = granted + 1)
    BY <1>4 DEF DecideInterrupt, Grant
  <2>2. UNCHANGED <<worker, used>> /\ loop'.step = "load" /\ loop'.answer = answer
    BY <1>4 DEF DecideInterrupt, graph, Idle
  <2> QED BY <1>1, <1>3, <1>4, <2>1, <2>2 DEF DecideInterrupt
<1>5. ASSUME NEW id, NEW answer \in {"approve", "reject"}, DecideRequest(id, answer) PROVE Paid'
  <2>1. UNCHANGED worker /\ loop'.step = "decide" /\ Free
    BY <1>5 DEF DecideRequest, graph, Idle
  <2>2. \/ used' = used /\ granted' \in {granted, granted + 1}
        \/ used' \in {used, used + 1} /\ granted' = granted + 1
    BY <1>5 DEF DecideRequest, Grant, IsApproval, Execute
  <2> QED BY <1>1, <1>3, <2>1, <2>2
<1>6. ASSUME NEW a, NEW m, SetPolicy(a, m) PROVE Paid'
  BY <1>6 DEF SetPolicy, graph, history
<1>7. ASSUME NEW c \in Chats, ReadState(c) \/ Abandon(c) PROVE Paid'
  BY <1>7 DEF ReadState, Abandon, graph, history
<1>8. ASSUME NEW c \in Chats, FinishGoal(c) PROVE Paid'
  <2>1. UNCHANGED <<worker, used, granted>> /\ loop'.step = "run" /\ Free
    BY <1>8 DEF FinishGoal, graph, history, Idle
  <2> QED BY <1>1, <1>3, <2>1
<1>9. ASSUME NEW c \in Chats, Stop(c) PROVE Paid'
  <2>1. c \in Workers /\ c # Loop
    BY <1>1 DEF Workers
  <2>2. worker'[c].answer = "none" /\ \A v \in Workers \ {c} : worker'[v] = worker[v]
    BY <1>9, <2>1 DEF Stop, TypeOK, NoWorker
  <2> QED BY <1>1, <1>9, <2>1, <2>2 DEF Stop, history
<1> QED BY <1>2, <1>4, <1>5, <1>6, <1>7, <1>8, <1>9 DEF Owner

\* The answer goes from the section into the resumed graph, and no further.
LEMMA SectionPaid == ASSUME TypeOK, Paid, SectionStep \/ LoopFails PROVE Paid'
<1> USE DEF Paid, ExecutionsAreGranted, AnswerIsUnused
<1>1. UNCHANGED <<used, granted>> /\ Loop \in Workers
  BY DEF SectionStep, FinishRun, FileRequest, LoadCheckpoint, Resumed, DecideRow,
         DecideGoal, DecideRun, LoopFails, history, Workers
<1>2. worker \in [Workers -> Worker] /\ loop \in Section
  BY DEF TypeOK
<1>3. CASE LoadCheckpoint
  <2>1. worker'[Loop].answer = loop.answer /\ \A v \in Workers \ {Loop} : worker'[v] = worker[v]
    BY <1>1, <1>2, <1>3 DEF LoadCheckpoint
  <2>2. loop'.step = "graph"
    BY <1>2, <1>3 DEF LoadCheckpoint, Section
  <2> QED BY <1>1, <1>3, <2>1, <2>2 DEF LoadCheckpoint
<1>4. CASE Resumed \/ LoopFails
  <2>1. worker'[Loop].answer = "none" /\ \A v \in Workers \ {Loop} : worker'[v] = worker[v]
    BY <1>1, <1>2, <1>4 DEF Resumed, LoopFails, NoWorker
  <2>2. loop'.step \notin {"load", "graph"}
    BY <1>2, <1>4 DEF Resumed, LoopFails, Section, Idle
  <2> QED BY <1>1, <2>1, <2>2
<1>5. CASE ~(LoadCheckpoint \/ Resumed \/ LoopFails)
  <2>1. loop.step # "graph"
    BY <1>5 DEF SectionStep, FinishRun, FileRequest, DecideRow, DecideGoal, DecideRun
  <2>2. UNCHANGED worker
    <3>1. FinishRun \/ DecideGoal \/ DecideRun => UNCHANGED worker
      BY DEF FinishRun, DecideGoal, DecideRun, graph
    <3>2. FileRequest \/ DecideRow => UNCHANGED worker
      BY DEF FileRequest, DecideRow, graph
    <3> QED BY <1>5, <3>1, <3>2 DEF SectionStep
  <2>3. loop' = loop \/ loop'.step \notin {"load", "graph"}
    <3>1. CASE FinishRun
      <4>1. loop' = Idle \/ loop' = [loop EXCEPT !.step = "row"]
        BY <3>1 DEF FinishRun
      <4>2. Idle.step = "idle" /\ [loop EXCEPT !.step = "row"].step = "row"
        BY <1>2, SectionMoves DEF Idle
      <4> QED BY <4>1, <4>2
    <3>2. CASE DecideGoal
      BY <1>2, <3>2 DEF DecideGoal, Section
    <3>3. CASE DecideRun \/ FileRequest
      <4>1. loop' = Idle
        BY <3>3 DEF DecideRun, FileRequest
      <4> QED BY <4>1 DEF Idle
    <3>4. CASE DecideRow
      <4>1. CASE RowsStay /\ loop' \in {Idle, loop}
        BY <4>1 DEF Idle
      <4>2. ASSUME NEW n, loop' = [loop EXCEPT !.step = "decide goal", !.chat = request[n].chat]
            PROVE  loop'.step = "decide goal"
        BY <1>2, <4>2, SectionMoves
      <4> QED BY <3>4, <4>1, <4>2, DecideRowDecides
    <3> QED BY <1>5, <3>1, <3>2, <3>3, <3>4 DEF SectionStep
  <2> QED BY <1>1, <2>1, <2>2, <2>3
<1> QED BY <1>3, <1>4, <1>5

-----------------------------------------------------------------------------
(* The rows, the chats that filed them, and the work that waits for them.  *)

Rows == OneRowPerChat /\ SectionsInOrder /\ CardsAreWaitedFor

LEMMA RowsUntouched ==
    ASSUME Rows, UNCHANGED <<handler, seen, goal, run, request>>,
           loop' = loop \/ loop'.step \notin {"run", "row", "decide goal", "decide run"}
    PROVE  Rows'
BY DEF Rows, OneRowPerChat, SectionsInOrder, CardsAreWaitedFor, Filed, Pending, Outcome

LEMMA GraphNodeRows == ASSUME Rows, NEW w \in Workers, GraphNode(w) PROVE Rows'
<1>1. UNCHANGED <<handler, seen, goal, run, request, loop>>
  BY DEF GraphNode, Begin, ExecutePlan, GatePasses, GateExecutes, GateRejects,
         GateInterrupts, GateSaves, Synthesize, work
<1> QED BY <1>1, RowsUntouched

\* A chat that is not done has filed no row: no step of its handler reaches
\* the work another card waits for.
LEMMA ChatRows ==
    ASSUME TypeOK, Rows,
           \/ Owner
           \/ \E c \in Chats : ReadState(c) \/ FinishGoal(c) \/ Abandon(c) \/ Stop(c)
    PROVE  Rows'
<1>1. ASSUME NEW c \in Chats, handler[c] # "done"
      PROVE  /\ \A n \in RequestIds : Filed(n) => request[n].chat # c
             /\ loop.step \in {"run", "row"} => loop.chat # c
  BY <1>1 DEF Rows, OneRowPerChat, SectionsInOrder
<1>2. ASSUME NEW c \in Chats, StartChat(c) PROVE Rows'
  <2>1. handler[c] # "done" /\ loop.step = "idle" /\ UNCHANGED <<loop, seen, request>>
    BY <1>2 DEF StartChat, Free, Idle
  <2>2. /\ handler'[c] = "running" /\ \A d \in Chats \ {c} :
            handler'[d] = handler[d] /\ goal'[d] = goal[d] /\ run'[d] = run[d]
    BY <1>2 DEF StartChat, TypeOK
  <2>3. OneRowPerChat'
    BY <1>1, <2>1, <2>2 DEF Rows, OneRowPerChat, Filed
  <2>4. SectionsInOrder'
    BY <2>1 DEF SectionsInOrder
  <2>5. CardsAreWaitedFor'
    BY <1>1, <2>1, <2>2 DEF Rows, OneRowPerChat, CardsAreWaitedFor, Pending, Filed
  <2> QED BY <2>3, <2>4, <2>5 DEF Rows
<1>3. ASSUME NEW id, NEW answer, DecideInterrupt(id, answer) \/ DecideRequest(id, answer)
      PROVE  Rows'
  <2>1. loop'.step \in {"load", "decide"}
    BY <1>3 DEF DecideInterrupt, DecideRequest, Idle
  <2>2. UNCHANGED <<handler, seen, goal, run, request>>
    BY <1>3 DEF DecideInterrupt, DecideRequest, work
  <2> QED BY <2>1, <2>2, RowsUntouched
<1>4. ASSUME NEW a, NEW m, SetPolicy(a, m) PROVE Rows'
  BY <1>4, RowsUntouched DEF SetPolicy, work
<1>5. ASSUME NEW c \in Chats, Stop(c) PROVE Rows'
  BY <1>5, RowsUntouched DEF Stop, work
<1>6. ASSUME NEW c \in Chats, ReadState(c) \/ Abandon(c) PROVE Rows'
  <2>1. handler[c] # "done" /\ UNCHANGED <<loop, goal, run, request>>
    BY <1>6 DEF ReadState, Abandon, work
  <2>2. \A d \in Chats \ {c} : handler'[d] = handler[d] /\ seen'[d] = seen[d]
    BY <1>6 DEF ReadState, Abandon, TypeOK
  <2>3. OneRowPerChat'
    BY <1>1, <2>1, <2>2 DEF Rows, OneRowPerChat, Filed
  <2>4. SectionsInOrder'
    BY <1>1, <2>1, <2>2 DEF Rows, SectionsInOrder, Filed, Pending, Outcome
  <2>5. CardsAreWaitedFor'
    BY <2>1 DEF Rows, CardsAreWaitedFor, Pending
  <2> QED BY <2>3, <2>4, <2>5 DEF Rows
<1>7. ASSUME NEW c \in Chats, FinishGoal(c) PROVE Rows'
  <2>1. handler[c] # "done" /\ UNCHANGED <<seen, run, request>>
    BY <1>7 DEF FinishGoal
  <2>2. /\ handler'[c] = "done" /\ goal'[c] = Outcome(c)
        /\ \A d \in Chats \ {c} : handler'[d] = handler[d] /\ goal'[d] = goal[d]
    BY <1>7 DEF FinishGoal, TypeOK
  <2>3. loop'.step = "run" /\ loop'.chat = c
    <3>1. Idle \in Section /\ loop' = [Idle EXCEPT !.step = "run", !.chat = c]
      BY <1>7, SectionSteps DEF FinishGoal
    <3>2. [Idle EXCEPT !.step = "run", !.chat = c].step = "run"
      BY <3>1, SectionMoves
    <3>3. [Idle EXCEPT !.step = "run", !.chat = c].chat = c
      BY <3>1, SectionMoves
    <3> QED BY <3>1, <3>2, <3>3
  <2>4. OneRowPerChat'
    BY <1>1, <2>1, <2>2 DEF Rows, OneRowPerChat, Filed
  <2>5. SectionsInOrder'
    BY <1>1, <2>1, <2>2, <2>3 DEF SectionsInOrder, Filed, Outcome
  <2>6. CardsAreWaitedFor'
    BY <1>1, <2>1, <2>2 DEF Rows, OneRowPerChat, CardsAreWaitedFor, Pending, Filed
  <2> QED BY <2>4, <2>5, <2>6 DEF Rows
<1> QED BY <1>2, <1>3, <1>4, <1>5, <1>6, <1>7 DEF Owner

\* Goal, run and row are committed in this order, and decided in the reverse.
LEMMA SectionRows ==
    ASSUME TypeOK, Rows, SectionStep \/ LoopFails
    PROVE  Rows'
<1>1. loop \in Section /\ Idle.step = "idle"
  BY DEF TypeOK, Idle
<1>2. ASSUME NEW step
      PROVE  [loop EXCEPT !.step = step].step = step /\ [loop EXCEPT !.step = step].chat = loop.chat
  BY <1>1, SectionMoves
<1>3. CASE FinishRun
  <2>1. UNCHANGED <<handler, seen, goal, request>> /\ loop.step = "run"
    BY <1>3 DEF FinishRun
  <2>2. loop.chat \in Chats /\ \A n \in RequestIds : Filed(n) => request[n].chat # loop.chat
    BY <2>1 DEF Rows, SectionsInOrder
  <2>3. /\ run'[loop.chat] = Outcome(loop.chat)
        /\ \A d \in Chats \ {loop.chat} : run'[d] = run[d]
    BY <1>3, <2>2 DEF FinishRun, TypeOK
  <2>4. \/ loop'.step = "idle"
        \/ /\ loop'.step = "row" /\ loop'.chat = loop.chat
           /\ seen[loop.chat].proposal # None
    BY <1>1, <1>2, <1>3 DEF FinishRun
  <2>5. OneRowPerChat'
    BY <2>1 DEF Rows, OneRowPerChat, Filed
  <2>6. SectionsInOrder'
    BY <2>1, <2>2, <2>3, <2>4 DEF Rows, SectionsInOrder, Filed, Outcome
  <2>7. CardsAreWaitedFor'
    BY <2>1, <2>2, <2>3 DEF Rows, OneRowPerChat, CardsAreWaitedFor, Pending, Filed
  <2> QED BY <2>5, <2>6, <2>7 DEF Rows
<1>4. CASE FileRequest
  <2>1. UNCHANGED <<handler, seen, goal, run>> /\ loop.step = "row" /\ loop' = Idle
    BY <1>4 DEF FileRequest
  <2>2. SectionsInOrder'
    BY <1>1, <2>1 DEF SectionsInOrder
  <2>3. CASE RowsStay
    BY <2>1, <2>2, <2>3 DEF RowsStay, Rows, OneRowPerChat, CardsAreWaitedFor, Filed, Pending
  <2>4. ASSUME NEW n \in NewRequest, ~Filed(n),
               request' = [request EXCEPT ![n] =
                   [status |-> "pending", ext |-> seen[loop.chat].id,
                    proposal |-> seen[loop.chat].proposal, chat |-> loop.chat]]
        PROVE  Rows'
    <3>1. /\ loop.chat \in Chats /\ handler[loop.chat] = "done"
          /\ \A m \in RequestIds : Filed(m) => request[m].chat # loop.chat
          /\ goal[loop.chat] = "waiting_approval" /\ run[loop.chat] = "waiting_approval"
      BY <2>1 DEF Rows, SectionsInOrder, Outcome
    <3>2. request'[n].chat = loop.chat /\ \A m \in RequestIds \ {n} : request'[m] = request[m]
      BY <2>4 DEF TypeOK, NewRequest
    <3>3. OneRowPerChat'
      BY <2>1, <3>1, <3>2 DEF Rows, OneRowPerChat, Filed
    <3>4. CardsAreWaitedFor'
      BY <2>1, <3>1, <3>2 DEF Rows, CardsAreWaitedFor, Pending
    <3> QED BY <2>2, <3>3, <3>4 DEF Rows
  <2> QED BY <1>4, <2>3, <2>4, FileRequestFiles
<1>5. CASE LoadCheckpoint
  <2>1. loop'.step = "graph"
    BY <1>2, <1>5 DEF LoadCheckpoint
  <2> QED BY <1>5, <2>1, RowsUntouched DEF LoadCheckpoint, work
<1>6. CASE Resumed
  <2>1. loop'.step = "decide"
    BY <1>2, <1>6 DEF Resumed
  <2> QED BY <1>6, <2>1, RowsUntouched DEF Resumed, work
<1>7. CASE DecideRow
  <2>1. UNCHANGED <<handler, seen, goal, run>> /\ loop.step = "decide"
    BY <1>7 DEF DecideRow
  <2>2. CASE RowsStay /\ loop' \in {Idle, loop}
    <3>1. loop'.step \in {"idle", "decide"}
      BY <1>1, <2>1, <2>2
    <3>2. SectionsInOrder'
      BY <3>1 DEF SectionsInOrder
    <3> QED BY <2>1, <2>2, <3>2
            DEF RowsStay, Rows, OneRowPerChat, CardsAreWaitedFor, Filed, Pending
  <2>3. ASSUME NEW n \in RequestIds, Pending(n),
               request' = [request EXCEPT ![n].status = Decision(loop.answer)],
               loop' = [loop EXCEPT !.step = "decide goal", !.chat = request[n].chat]
        PROVE  Rows'
    <3>1. /\ request'[n].chat = request[n].chat /\ request'[n].status # "pending"
          /\ \A m \in RequestIds \ {n} : request'[m] = request[m]
      BY <2>3 DEF TypeOK, Request, Decision
    <3>2. loop'.step = "decide goal" /\ loop'.chat = request[n].chat
      BY <1>1, <2>3, SectionMoves
    <3>3. Filed(n) /\ request[n].chat \in Chats
      BY <2>3 DEF Rows, OneRowPerChat, Filed, Pending
    <3>4. \A m \in RequestIds : Filed(m)' => Filed(m) /\ request'[m].chat = request[m].chat
      BY <3>1, <3>3 DEF Filed
    <3>5. \A m \in RequestIds : Pending(m)' => Pending(m) /\ m # n
      BY <3>1 DEF Pending
    <3>6. OneRowPerChat'
      BY <2>1, <3>4 DEF Rows, OneRowPerChat
    <3>7. SectionsInOrder'
      BY <3>1, <3>2, <3>3, <3>5 DEF Rows, OneRowPerChat, SectionsInOrder, Filed, Pending
    <3>8. CardsAreWaitedFor'
      BY <2>1, <3>1, <3>5 DEF Rows, CardsAreWaitedFor
    <3> QED BY <3>6, <3>7, <3>8 DEF Rows
  <2> QED BY <1>7, <2>2, <2>3, DecideRowDecides
<1>8. CASE DecideGoal \/ DecideRun
  <2>1. UNCHANGED <<handler, seen, request>> /\ loop.step \in {"decide goal", "decide run"}
    BY <1>8 DEF DecideGoal, DecideRun
  <2>2. loop.chat \in Chats /\ \A n \in RequestIds : Pending(n) => request[n].chat # loop.chat
    BY <2>1 DEF Rows, SectionsInOrder
  <2>3. \A d \in Chats \ {loop.chat} : goal'[d] = goal[d] /\ run'[d] = run[d]
    BY <1>8 DEF DecideGoal, DecideRun, TypeOK
  <2>4. loop'.step = "idle" \/ (loop'.step = "decide run" /\ loop'.chat = loop.chat)
    BY <1>1, <1>2, <1>8 DEF DecideGoal, DecideRun
  <2>5. OneRowPerChat'
    BY <2>1 DEF Rows, OneRowPerChat, Filed
  <2>6. SectionsInOrder'
    BY <2>1, <2>2, <2>4 DEF SectionsInOrder, Pending
  <2>7. CardsAreWaitedFor'
    BY <2>1, <2>2, <2>3 DEF Rows, OneRowPerChat, CardsAreWaitedFor, Pending, Filed
  <2> QED BY <2>5, <2>6, <2>7 DEF Rows
<1>9. CASE LoopFails
  BY <1>1, <1>9, RowsUntouched DEF LoopFails, work
<1> QED BY <1>3, <1>4, <1>5, <1>6, <1>7, <1>8, <1>9 DEF SectionStep

-----------------------------------------------------------------------------
(* One card per action.                                                    *)

LEMMA GraphNodeCards ==
    ASSUME TypeOK, ProposalsExist, OneCardPerAction, NEW w \in Workers, GraphNode(w)
    PROVE  OneCardPerAction'
<1>1. UNCHANGED request
  BY DEF GraphNode, Begin, ExecutePlan, GatePasses, GateExecutes, GateRejects,
         GateInterrupts, GateSaves, Synthesize, work
<1>2. ASSUME NEW n \in RequestIds, Pending(n)
      PROVE  proposal'[request[n].proposal] = proposal[request[n].proposal]
  BY <1>2, ProposedStays, ConstantsOK DEF ProposalsExist, Proposed, Pending, Filed, NoProposal
<1> QED BY <1>1, <1>2 DEF OneCardPerAction, Pending, SameAction

LEMMA OtherCards ==
    ASSUME TypeOK, SectionsInOrder, OneCardPerAction,
           \/ Owner
           \/ \E c \in Chats : ReadState(c) \/ FinishGoal(c) \/ Abandon(c) \/ Stop(c)
           \/ SectionStep
           \/ LoopFails
    PROVE  OneCardPerAction'
<1>1. UNCHANGED proposal
  <2>1. ASSUME NEW c \in Chats,
               StartChat(c) \/ ReadState(c) \/ FinishGoal(c) \/ Abandon(c) \/ Stop(c)
        PROVE  UNCHANGED proposal
    BY <2>1 DEF StartChat, ReadState, FinishGoal, Abandon, Stop, graph
  <2>2. ASSUME NEW id, NEW answer, DecideInterrupt(id, answer) \/ DecideRequest(id, answer)
        PROVE  UNCHANGED proposal
    BY <2>2 DEF DecideInterrupt, DecideRequest, graph
  <2>3. ASSUME NEW a, NEW m, SetPolicy(a, m) PROVE UNCHANGED proposal
    BY <2>3 DEF SetPolicy, graph
  <2>4. CASE SectionStep \/ LoopFails
    BY <2>4 DEF SectionStep, FinishRun, FileRequest, LoadCheckpoint, Resumed, DecideRow,
                DecideGoal, DecideRun, LoopFails, graph
  <2> QED BY <2>1, <2>2, <2>3, <2>4 DEF Owner
<1>2. CASE UNCHANGED request \/ RowsStay
  BY <1>1, <1>2 DEF RowsStay, OneCardPerAction, Pending, SameAction
<1>3. CASE FileRequest /\ ~RowsStay
  <2>1. PICK n \in NewRequest :
            /\ SameCards(seen[loop.chat].proposal) = {}
            /\ request' = [request EXCEPT ![n] =
                    [status |-> "pending", ext |-> seen[loop.chat].id,
                     proposal |-> seen[loop.chat].proposal, chat |-> loop.chat]]
    BY <1>3, FileRequestFiles
  <2>2. request'[n].proposal = seen[loop.chat].proposal
        /\ \A m \in RequestIds \ {n} : request'[m] = request[m]
    BY <2>1 DEF TypeOK, NewRequest
  <2>3. seen[loop.chat].proposal # None
    BY <1>3 DEF FileRequest, SectionsInOrder
  <2>4. \A m \in RequestIds : Pending(m) => ~SameAction(request[m].proposal, seen[loop.chat].proposal)
    BY <2>1, <2>3 DEF SameCards
  <2> QED BY <1>1, <2>2, <2>4 DEF OneCardPerAction, Pending, SameAction
<1>4. CASE DecideRow /\ ~RowsStay
  <2>1. PICK n \in RequestIds : request' = [request EXCEPT ![n].status = Decision(loop.answer)]
    BY <1>4, DecideRowDecides
  <2>2. \A m \in RequestIds : Pending(m)' => Pending(m) /\ request'[m] = request[m]
    BY <2>1 DEF Pending, TypeOK, Request, Decision
  <2> QED BY <1>1, <2>2 DEF OneCardPerAction, SameAction
<1>5. UNCHANGED request \/ FileRequest \/ DecideRow
  BY DEF Owner, StartChat, DecideInterrupt, DecideRequest, SetPolicy, ReadState, FinishGoal,
         Abandon, Stop, SectionStep, FinishRun, LoadCheckpoint, Resumed, DecideGoal, DecideRun,
         LoopFails, work
<1> QED BY <1>2, <1>3, <1>4, <1>5

-----------------------------------------------------------------------------
(* What is decided as approved was granted.                                *)

LEMMA RequestIdsFinite ==
    ASSUME NEW S \in SUBSET RequestIds
    PROVE  IsFiniteSet(S) /\ Cardinality(S) \in Nat
<1>1. IsFiniteSet(RequestIds)
  BY ConstantsOK, FS_Interval DEF RequestIds
<1> QED BY <1>1, FS_Subset, FS_CardinalityType

LEMMA ApprovalsStay ==
    ASSUME TypeOK, ApprovalsAreGiven, UNCHANGED granted, ApprovedRows' = ApprovedRows,
           ToBeWritten' => ToBeWritten
    PROVE  ApprovalsAreGiven'
<1>1. Cardinality(ApprovedRows) \in Nat /\ granted \in Nat
  BY RequestIdsFinite DEF ApprovedRows, TypeOK
<1> QED BY <1>1 DEF ApprovalsAreGiven

LEMMA GraphNodeApprovals ==
    ASSUME TypeOK, ApprovalsAreGiven, NEW w \in Workers, GraphNode(w)
    PROVE  ApprovalsAreGiven'
<1>1. UNCHANGED <<request, loop, granted>>
  BY DEF GraphNode, Begin, ExecutePlan, GatePasses, GateExecutes, GateRejects,
         GateInterrupts, GateSaves, Synthesize, work, history
<1> QED BY <1>1, ApprovalsStay DEF ApprovedRows, ToBeWritten

LEMMA ChatApprovals ==
    ASSUME TypeOK, ApprovalsAreGiven,
           \/ Owner
           \/ \E c \in Chats : ReadState(c) \/ FinishGoal(c) \/ Abandon(c) \/ Stop(c)
    PROVE  ApprovalsAreGiven'
<1>1. Cardinality(ApprovedRows) \in Nat /\ granted \in Nat
  BY RequestIdsFinite DEF ApprovedRows, TypeOK
<1>2. ASSUME NEW id, NEW answer \in {"approve", "reject"},
             DecideInterrupt(id, answer) \/ DecideRequest(id, answer)
      PROVE  ApprovalsAreGiven'
  <2>1. ~ToBeWritten /\ UNCHANGED request
    BY <1>2 DEF DecideInterrupt, DecideRequest, Free, Idle, ToBeWritten, work
  <2>2. loop'.answer = answer
    BY <1>2 DEF DecideInterrupt, DecideRequest, Idle
  <2>3. granted' = IF answer = "approve" THEN granted + 1 ELSE granted
    BY <1>2 DEF DecideInterrupt, DecideRequest, Grant
  <2> QED BY <1>1, <2>1, <2>2, <2>3 DEF ApprovalsAreGiven, ApprovedRows, ToBeWritten
<1>3. ASSUME NEW c \in Chats, StartChat(c) \/ ReadState(c) \/ Abandon(c) \/ Stop(c)
      PROVE  ApprovalsAreGiven'
  <2>1. UNCHANGED <<request, loop, granted>>
    BY <1>3 DEF StartChat, ReadState, Abandon, Stop, work, history
  <2> QED BY <2>1, ApprovalsStay DEF ApprovedRows, ToBeWritten
<1>4. ASSUME NEW c \in Chats, FinishGoal(c) PROVE ApprovalsAreGiven'
  <2>1. UNCHANGED <<request, granted>> /\ loop'.step = "run"
    BY <1>4 DEF FinishGoal, history, Idle
  <2> QED BY <2>1, ApprovalsStay DEF ApprovedRows, ToBeWritten
<1>5. ASSUME NEW a, NEW m, SetPolicy(a, m) PROVE ApprovalsAreGiven'
  BY <1>5, ApprovalsStay DEF SetPolicy, ApprovedRows, ToBeWritten, work, history
<1> QED BY <1>2, <1>3, <1>4, <1>5 DEF Owner

LEMMA SectionApprovals ==
    ASSUME TypeOK, ApprovalsAreGiven, SectionStep \/ LoopFails
    PROVE  ApprovalsAreGiven'
<1>1. loop \in Section /\ Idle.step = "idle" /\ UNCHANGED granted
  BY DEF TypeOK, Idle, SectionStep, FinishRun, FileRequest, LoadCheckpoint, Resumed,
         DecideRow, DecideGoal, DecideRun, LoopFails, history
<1>2. ASSUME NEW step
      PROVE  /\ [loop EXCEPT !.step = step].step = step
             /\ [loop EXCEPT !.step = step].answer = loop.answer
  BY <1>1, SectionMoves
<1>3. CASE FinishRun \/ DecideGoal \/ DecideRun \/ LoopFails
  <2>1. UNCHANGED request
    BY <1>3 DEF FinishRun, DecideGoal, DecideRun, LoopFails, work
  <2>2. loop'.step \in {"idle", "row", "decide run"}
    BY <1>1, <1>2, <1>3 DEF FinishRun, DecideGoal, DecideRun, LoopFails
  <2> QED BY <1>1, <2>1, <2>2, ApprovalsStay DEF ApprovedRows, ToBeWritten
<1>4. CASE FileRequest
  <2>1. ~ToBeWritten'
    BY <1>1, <1>4 DEF FileRequest, ToBeWritten
  <2>2. ApprovedRows' = ApprovedRows
    <3>1. CASE RowsStay
      BY <3>1 DEF RowsStay, ApprovedRows
    <3>2. CASE ~RowsStay
      <4>1. PICK n \in RequestIds :
                /\ ~Filed(n)
                /\ request' = [request EXCEPT ![n] =
                        [status |-> "pending", ext |-> seen[loop.chat].id,
                         proposal |-> seen[loop.chat].proposal, chat |-> loop.chat]]
        BY <1>4, <3>2, FileRequestFiles DEF NewRequest
      <4>2. request'[n].status = "pending" /\ \A m \in RequestIds \ {n} : request'[m] = request[m]
        BY <4>1 DEF TypeOK
      <4> QED BY <4>1, <4>2 DEF ApprovedRows, Filed
    <3> QED BY <3>1, <3>2
  <2> QED BY <1>1, <2>1, <2>2, ApprovalsStay
<1>5. CASE LoadCheckpoint \/ Resumed
  <2>1. loop'.answer = loop.answer /\ loop.step \in {"load", "graph"} /\ UNCHANGED request
    BY <1>2, <1>5 DEF LoadCheckpoint, Resumed, work
  <2> QED BY <1>1, <2>1, ApprovalsStay DEF ApprovedRows, ToBeWritten
<1>6. CASE DecideRow
  <2>1. CASE RowsStay /\ loop' \in {Idle, loop}
    <3>1. ApprovedRows' = ApprovedRows
      BY <2>1 DEF RowsStay, ApprovedRows
    <3> QED BY <1>1, <2>1, <3>1, ApprovalsStay DEF ToBeWritten
  <2>2. ASSUME NEW n \in RequestIds, Pending(n),
               request' = [request EXCEPT ![n].status = Decision(loop.answer)],
               loop' = [loop EXCEPT !.step = "decide goal", !.chat = request[n].chat]
        PROVE  ApprovalsAreGiven'
    <3>1. ~ToBeWritten'
      <4>1. loop'.step = "decide goal"
        BY <1>1, <2>2, SectionMoves
      <4> QED BY <4>1 DEF ToBeWritten
    <3>2. /\ request'[n].status = Decision(loop.answer)
          /\ \A m \in RequestIds \ {n} : request'[m] = request[m]
      BY <2>2 DEF TypeOK, Request
    <3>3. CASE loop.answer = "approve"
      <4>1. Cardinality(ApprovedRows) < granted
        BY <1>6, <3>3 DEF DecideRow, ApprovalsAreGiven, ToBeWritten
      <4>2. ApprovedRows' = ApprovedRows \cup {n} /\ n \notin ApprovedRows
        BY <2>2, <3>2, <3>3 DEF ApprovedRows, Pending, Decision
      <4>3. Cardinality(ApprovedRows') = Cardinality(ApprovedRows) + 1
        BY <4>2, RequestIdsFinite, FS_AddElement DEF ApprovedRows
      <4>4. Cardinality(ApprovedRows) \in Nat /\ granted \in Nat
        BY RequestIdsFinite DEF ApprovedRows, TypeOK
      <4> QED BY <1>1, <3>1, <4>1, <4>3, <4>4 DEF ApprovalsAreGiven
    <3>4. CASE loop.answer # "approve"
      <4>1. ApprovedRows' = ApprovedRows
        BY <2>2, <3>2, <3>4 DEF ApprovedRows, Pending, Decision
      <4> QED BY <1>1, <3>1, <4>1, ApprovalsStay
    <3> QED BY <3>3, <3>4
  <2> QED BY <1>6, <2>1, <2>2, DecideRowDecides
<1> QED BY <1>3, <1>4, <1>5, <1>6 DEF SectionStep

-----------------------------------------------------------------------------
(* The inbox.                                                              *)

CardsStay == \A n \in RequestIds : CardInInbox(n)' = CardInInbox(n)

LEMMA CardsStayInInbox ==
    ASSUME CardsStay
    PROVE  [n \in RequestIds |-> CardInInbox(n)]' = [n \in RequestIds |-> CardInInbox(n)]
BY DEF CardsStay

LEMMA InboxStutters ==
    ASSUME CardsStay, UNCHANGED <<granted, used>>
    PROVE  UNCHANGED OwnersInbox!vars
BY CardsStayInInbox DEF OwnersInbox!vars

LEMMA RowsStayCards == ASSUME RowsStay, UNCHANGED proposal PROVE CardsStay
BY DEF RowsStay, CardsStay, CardInInbox, Filed

\* A node of the graph runs at most one action, for an approval not yet spent.
LEMMA GraphNodeInInbox ==
    ASSUME IInv, IInv', NEW w \in Workers, GraphNode(w)
    PROVE  OwnersInbox!Run \/ UNCHANGED OwnersInbox!vars
<1>1. UNCHANGED <<request, granted>>
  BY DEF GraphNode, Begin, ExecutePlan, GatePasses, GateExecutes, GateRejects,
         GateInterrupts, GateSaves, Synthesize, work, history
<1>2. ASSUME NEW n \in RequestIds, Filed(n)
      PROVE  proposal'[request[n].proposal] = proposal[request[n].proposal]
  BY <1>2, ProposedStays, ConstantsOK DEF IInv, ProposalsExist, Proposed, NoProposal
<1>3. CardsStay
  BY <1>1, <1>2 DEF CardsStay, CardInInbox, Filed
<1>4. used' \in {used, used + 1}
  BY DEF GraphNode, Begin, ExecutePlan, GatePasses, GateExecutes, GateRejects,
         GateInterrupts, GateSaves, Synthesize, Execute, history
<1>5. CASE used' = used
  BY <1>1, <1>3, <1>5, InboxStutters
<1>6. CASE used' = used + 1
  <2>1. used < granted
    BY <1>1, <1>6 DEF IInv, TypeOK, ExecutionsAreGranted
  <2> QED BY <1>1, <1>3, <1>6, <2>1, CardsStayInInbox DEF OwnersInbox!Run
<1> QED BY <1>4, <1>5, <1>6

\* The owner's POST is an approval, or changes no card.
LEMMA ChatInInbox ==
    ASSUME IInv, IInv',
           \/ Owner
           \/ \E c \in Chats : ReadState(c) \/ FinishGoal(c) \/ Abandon(c) \/ Stop(c)
    PROVE  OwnersInbox!Approve \/ UNCHANGED OwnersInbox!vars
<1>1. UNCHANGED <<proposal, request>>
  BY DEF Owner, StartChat, DecideInterrupt, DecideRequest, SetPolicy, ReadState, FinishGoal,
         Abandon, Stop, graph, work
<1>2. CardsStay
  BY <1>1 DEF CardsStay, CardInInbox, Filed
<1>3. \/ UNCHANGED <<granted, used>>
      \/ granted' = granted + 1 /\ used' \in {used, used + 1}
  <2>1. ASSUME NEW id, NEW answer, DecideInterrupt(id, answer) \/ DecideRequest(id, answer)
        PROVE  \/ UNCHANGED <<granted, used>>
               \/ granted' = granted + 1 /\ used' \in {used, used + 1}
    BY <2>1 DEF DecideInterrupt, DecideRequest, Grant, IsApproval, Execute
  <2>2. ASSUME NEW c \in Chats,
               StartChat(c) \/ ReadState(c) \/ FinishGoal(c) \/ Abandon(c) \/ Stop(c)
        PROVE  UNCHANGED <<granted, used>>
    BY <2>2 DEF StartChat, ReadState, FinishGoal, Abandon, Stop, history
  <2>3. ASSUME NEW act, NEW m, SetPolicy(act, m) PROVE UNCHANGED <<granted, used>>
    BY <2>3 DEF SetPolicy, history
  <2> QED BY <2>1, <2>2, <2>3 DEF Owner
<1>4. CASE UNCHANGED <<granted, used>>
  BY <1>2, <1>4, InboxStutters
<1>5. CASE granted' = granted + 1 /\ used' \in {used, used + 1}
  <2>1. used' <= granted'
    BY DEF IInv, ExecutionsAreGranted
  <2> QED BY <1>2, <1>5, <2>1, CardsStayInInbox DEF OwnersInbox!Approve
<1> QED BY <1>3, <1>4, <1>5

\* _persist_approval_request files a card about an action no card asks about.
LEMMA FileRequestInInbox ==
    ASSUME IInv, FileRequest
    PROVE  \/ \E n \in OwnersInbox!Cards, a \in Actions : OwnersInbox!File(n, a)
           \/ UNCHANGED OwnersInbox!vars
<1>1. UNCHANGED <<proposal, seen, granted, used>>
  BY DEF FileRequest, graph, history
<1>2. CASE RowsStay
  BY <1>1, <1>2, RowsStayCards, InboxStutters
<1>3. CASE ~RowsStay
  <2> DEFINE p == seen[loop.chat].proposal
             a == proposal[p].action
             card == [n \in RequestIds |-> CardInInbox(n)]
  <2>1. PICK n \in NewRequest :
            /\ ~Filed(n)
            /\ SameCards(p) = {}
            /\ request' = [request EXCEPT ![n] =
                    [status |-> "pending", ext |-> seen[loop.chat].id, proposal |-> p,
                     chat |-> loop.chat]]
    BY <1>3, FileRequestFiles DEF IInv
  <2>2. n \in RequestIds /\ {m \in RequestIds : Filed(m)} = 1 .. n - 1
    BY DEF NewRequest
  <2>3. p # None /\ a \in Actions
    BY DEF FileRequest, IInv, SectionsInOrder, ProposalsExist, Proposed
  <2>4. /\ request'[n].status = "pending" /\ request'[n].proposal = p
        /\ \A m \in RequestIds \ {n} : request'[m] = request[m]
    BY <2>1, <2>2 DEF IInv, TypeOK
  <2>5. card' = [card EXCEPT ![n] = [about |-> a, status |-> "pending"]]
    <3>1. CardInInbox(n)' = [about |-> a, status |-> "pending"]
      BY <1>1, <2>4 DEF CardInInbox, Filed
    <3>2. \A m \in RequestIds \ {n} : CardInInbox(m)' = CardInInbox(m)
      BY <1>1, <2>4 DEF CardInInbox, Filed
    <3> QED BY <2>2, <3>1, <3>2
  <2>6. \A m \in RequestIds : card[m].status = request[m].status
    BY DEF CardInInbox
  <2>7. \A m \in RequestIds : Pending(m) => card[m].about # a
    BY <2>1, <2>3 DEF SameCards, SameAction, CardInInbox, Filed, Pending
  <2> HIDE DEF p, a
  <2>8. OwnersInbox!Cards \ OwnersInbox!With("unused") = 1 .. n - 1
    BY <2>2, <2>6 DEF OwnersInbox!Cards, OwnersInbox!With, RequestIds, Filed
  <2>9. \A m \in OwnersInbox!With("pending") : card[m].about # a
    BY <2>6, <2>7 DEF OwnersInbox!Cards, OwnersInbox!With, RequestIds, Pending
  <2>10. OwnersInbox!File(n, a)
    BY <1>1, <2>5, <2>8, <2>9 DEF OwnersInbox!File
  <2> QED BY <2>2, <2>3, <2>10 DEF OwnersInbox!Cards, RequestIds
<1> QED BY <1>2, <1>3

\* _record_approval_decision settles a card, as approved only for an approval
\* that has settled none.
LEMMA DecideRowInInbox ==
    ASSUME IInv, DecideRow
    PROVE  \/ \E n \in OwnersInbox!Cards, status \in {"approved", "rejected"} :
                OwnersInbox!Settle(n, status)
           \/ UNCHANGED OwnersInbox!vars
<1>1. UNCHANGED <<proposal, granted, used>>
  BY DEF DecideRow, graph, history
<1>2. CASE RowsStay
  BY <1>1, <1>2, RowsStayCards, InboxStutters
<1>3. CASE ~RowsStay
  <2> DEFINE status == Decision(loop.answer)
             card == [n \in RequestIds |-> CardInInbox(n)]
  <2>1. PICK n \in RequestIds : Pending(n) /\ request' = [request EXCEPT ![n].status = status]
    BY <1>3, DecideRowDecides DEF IInv
  <2>2. status \in {"approved", "rejected"}
    BY DEF Decision
  <2>3. /\ request'[n].status = status /\ request'[n].proposal = request[n].proposal
        /\ \A m \in RequestIds \ {n} : request'[m] = request[m]
    BY <2>1 DEF IInv, TypeOK, Request
  <2>4. card' = [card EXCEPT ![n].status = status]
    <3>1. CardInInbox(n)' = [about |-> CardInInbox(n).about, status |-> status]
      BY <1>1, <2>1, <2>2, <2>3 DEF CardInInbox, Filed, Pending
    <3>2. \A m \in RequestIds \ {n} : CardInInbox(m)' = CardInInbox(m)
      BY <1>1, <2>3 DEF CardInInbox, Filed
    <3>3. [CardInInbox(n) EXCEPT !.status = status]
              = [about |-> CardInInbox(n).about, status |-> status]
      BY DEF CardInInbox
    <3>4. card' = [m \in RequestIds |-> CardInInbox(m)']
      OBVIOUS
    <3> QED BY <2>1, <3>1, <3>2, <3>3, <3>4
  <2>5. \A m \in RequestIds : card[m].status = request[m].status
    BY DEF CardInInbox
  <2>6. OwnersInbox!With("approved") = ApprovedRows
    BY <2>5 DEF OwnersInbox!Cards, OwnersInbox!With, RequestIds, ApprovedRows
  <2>7. status = "approved" => Cardinality(ApprovedRows) < granted
    BY DEF DecideRow, Decision, IInv, ApprovalsAreGiven, ToBeWritten
  <2>8. OwnersInbox!Cardinality(ApprovedRows) = Cardinality(ApprovedRows)
    BY DEF OwnersInbox!Cardinality, Cardinality
  <2> HIDE DEF status
  <2>9. OwnersInbox!Settle(n, status)
    BY <1>1, <2>1, <2>4, <2>5, <2>6, <2>7, <2>8 DEF OwnersInbox!Settle, Pending
  <2> QED BY <2>1, <2>2, <2>9 DEF OwnersInbox!Cards, RequestIds
<1> QED BY <1>2, <1>3

LEMMA SectionInInbox ==
    ASSUME IInv, SectionStep \/ LoopFails, ~FileRequest, ~DecideRow
    PROVE  UNCHANGED OwnersInbox!vars
<1>1. UNCHANGED <<proposal, request, granted, used>>
  BY DEF SectionStep, FinishRun, LoadCheckpoint, Resumed, DecideGoal, DecideRun, LoopFails,
         graph, work, history
<1>2. CardsStay
  BY <1>1 DEF CardsStay, CardInInbox, Filed
<1> QED BY <1>1, <1>2, InboxStutters

-----------------------------------------------------------------------------
(* Theorems.                                                               *)

LEMMA InitIInv == Init => IInv
<1> SUFFICES ASSUME Init PROVE IInv
  OBVIOUS
<1>1. /\ NoCheckpoint \in Checkpoint /\ NoWorker \in Worker /\ NothingSeen \in Seen
      /\ NoRequest \in Request /\ NoProposal \in Proposal
  BY CardIdsHave DEF NoCheckpoint, Checkpoint, Saved, NoWorker, Worker, Phases, Answers,
       NothingSeen, Seen, NoRequest, Request, RequestStatuses, NoProposal, Proposal
<1>2. Loop \in Workers
  BY DEF Workers
<1>3. TypeOK
  <2>1. policy \in [Actions -> Modes] /\ failures \in 0 .. MaxFailures
    BY ConstantsOK DEF Init
  <2>2. loop \in Section
    BY SectionSteps DEF Init
  <2> QED BY <1>1, <2>1, <2>2 DEF Init, TypeOK
<1>4. \A n \in RequestIds : ~Filed(n) /\ ~Pending(n)
  BY DEF Init, Filed, Pending, NoRequest
<1>5. ProposalsExist
  BY <1>4 DEF Init, ProposalsExist, Proposed, NoCheckpoint, NoWorker, NothingSeen
<1>6. ExecutionsAreGranted /\ AnswerIsUnused
  BY <1>2 DEF Init, ExecutionsAreGranted, AnswerIsUnused, NoWorker, Idle
<1>7. OneRowPerChat /\ SectionsInOrder /\ CardsAreWaitedFor /\ OneCardPerAction
  BY <1>4 DEF Init, OneRowPerChat, SectionsInOrder, CardsAreWaitedFor, OneCardPerAction, Idle
<1>8. ApprovalsAreGiven
  <2>1. ApprovedRows = {}
    BY DEF Init, ApprovedRows, NoRequest
  <2> QED BY <2>1, FS_EmptySet DEF Init, ApprovalsAreGiven, ToBeWritten, Idle
<1> QED BY <1>3, <1>5, <1>6, <1>7, <1>8 DEF IInv

LEMMA NextIInv == IInv /\ [Next]_vars => IInv'
<1> SUFFICES ASSUME IInv, [Next]_vars PROVE IInv'
  OBVIOUS
<1>1. TypeOK /\ ProposalsExist /\ Paid /\ Rows /\ SectionsInOrder /\ OneCardPerAction
      /\ ApprovalsAreGiven
  BY DEF IInv, Paid, Rows
<1>2. ASSUME TypeOK', ProposalsExist', Paid', Rows', OneCardPerAction', ApprovalsAreGiven'
      PROVE  IInv'
  BY <1>2 DEF IInv, Paid, Rows
<1>3. ASSUME NEW w \in Workers, GraphNode(w) PROVE IInv'
  BY <1>1, <1>2, <1>3, GraphNodeTyped, GraphNodeProposals, GraphNodePaid, GraphNodeRows,
     GraphNodeCards, GraphNodeApprovals
<1>4. CASE Owner
  BY <1>1, <1>2, <1>4, OwnerTyped, ChatProposals, ChatPaid, ChatRows, OtherCards,
     ChatApprovals
<1>5. ASSUME NEW c \in Chats, ReadState(c) \/ FinishGoal(c) \/ Abandon(c) \/ Stop(c) PROVE IInv'
  BY <1>1, <1>2, <1>5, HandlerTyped, ChatProposals, ChatPaid, ChatRows, OtherCards,
     ChatApprovals
<1>6. CASE SectionStep \/ LoopFails
  BY <1>1, <1>2, <1>6, SectionTyped, SectionProposals, SectionPaid, SectionRows, OtherCards,
     SectionApprovals
<1>7. CASE UNCHANGED vars
  BY <1>7 DEF vars, graph, work, history, IInv, TypeOK, ProposalsExist, Proposed, Filed,
       ExecutionsAreGranted, AnswerIsUnused, OneRowPerChat, SectionsInOrder, Outcome,
       CardsAreWaitedFor, Pending, OneCardPerAction, SameAction, ApprovalsAreGiven, ToBeWritten,
       ApprovedRows
<1> QED BY <1>3, <1>4, <1>5, <1>6, <1>7 DEF Next

\* The inductive invariant: types, proposals that exist, one row per chat and
\* the order of the sections are what the three properties below rest on.
THEOREM Invariance == Spec => []IInv
BY InitIInv, NextIInv, PTL DEF Spec

\* The approval gate and the approve handler never execute more actions no
\* policy mode permits than the owner has given approvals.
THEOREM ActionsAreGranted == Spec => []ExecutionsAreGranted
<1>1. IInv => ExecutionsAreGranted
  BY DEF IInv
<1> QED BY <1>1, Invariance, PTL

\* A pending row of approval_requests belongs to a goal and a run that wait
\* for it, between any two of the commits that write them.
THEOREM CardsHaveTheirWork == Spec => []CardsAreWaitedFor
<1>1. IInv => CardsAreWaitedFor
  BY DEF IInv
<1> QED BY <1>1, Invariance, PTL

\* _persist_approval_request never leaves two pending rows for one action.
THEOREM CardsDiffer == Spec => []OneCardPerAction
<1>1. IInv => OneCardPerAction
  BY DEF IInv
<1> QED BY <1>1, Invariance, PTL

\* The approval gate, the chat handlers and POST /approve implement the inbox:
\* a card is settled once, an approval settles at most one card and runs at
\* most one action.
THEOREM InboxIsImplemented == Spec => ImplementsInbox
<1>1. Init => OwnersInbox!Init
  BY DEF Init, OwnersInbox!Init, OwnersInbox!Cards, RequestIds, CardInInbox, Filed, NoRequest
<1>2. IInv /\ IInv' /\ [Next]_vars => [OwnersInbox!Next]_(OwnersInbox!vars)
  <2> SUFFICES ASSUME IInv, IInv', [Next]_vars
               PROVE  OwnersInbox!Next \/ UNCHANGED OwnersInbox!vars
    OBVIOUS
  <2>1. ASSUME NEW w \in Workers, GraphNode(w)
        PROVE  OwnersInbox!Next \/ UNCHANGED OwnersInbox!vars
    BY <2>1, GraphNodeInInbox DEF OwnersInbox!Next
  <2>2. CASE Owner \/ \E c \in Chats : ReadState(c) \/ FinishGoal(c) \/ Abandon(c) \/ Stop(c)
    BY <2>2, ChatInInbox DEF OwnersInbox!Next
  <2>3. CASE FileRequest
    BY <2>3, FileRequestInInbox DEF OwnersInbox!Next
  <2>4. CASE DecideRow
    BY <2>4, DecideRowInInbox DEF OwnersInbox!Next
  <2>5. CASE (SectionStep \/ LoopFails) /\ ~FileRequest /\ ~DecideRow
    BY <2>5, SectionInInbox
  <2>6. CASE UNCHANGED vars
    <3>1. CardsStay
      BY <2>6 DEF vars, CardsStay, CardInInbox, Filed
    <3> QED BY <2>6, <3>1, InboxStutters DEF vars, history
  <2> QED BY <2>1, <2>2, <2>3, <2>4, <2>5, <2>6 DEF Next
<1> QED BY <1>1, <1>2, Invariance, PTL DEF Spec, ImplementsInbox, OwnersInbox!Spec
=============================================================================
