------------------------- MODULE ApprovalGateProofs -------------------------
(***************************************************************************)
(* Proofs about ApprovalGate, for every set of replicas, tool calls and    *)
(* answers.  A decision is made once, by somebody who may make it; what    *)
(* the tool call returns and what the users are told both follow from it.  *)
(* With it the gate implements the one-shot decision of ApprovalDecision.  *)
(***************************************************************************)
EXTENDS ApprovalGate, TLAPS

\* A waiter decided by an answer was decided by one meant for it, from
\* somebody who may give it.
Authors ==
    \A p \in Requests :
        decision[p] \in Calls => Target[decision[p]] = p /\ decision[p] \in Entitled

\* A tool call returns with the decision of its waiter.
Obeyed == \A p \in Requests : req[p].outcome # NoOne => req[p].outcome = decision[p]

\* A gated tool call that ran returned with an approval.
Gated == \A p \in Dangerous : FailClose /\ req[p].stage = "ran" => Approved(p)

\* Whoever holds a waiter passed its test.
Holders ==
    /\ \A c \in Calls : call[c].stage = "holding" => c \in Entitled
    /\ \A r \in Replicas : sub[r] \subseteq Entitled

\* What call c may be told.
TrueFor(c, answer) ==
    /\ answer = "ok" => decision[Target[c]] = c
    /\ answer = "already_resolved" => decision[Target[c]] \notin {NoOne, c}
    /\ answer = "mismatch" => c \notin Entitled

Told == \A c \in Calls : TrueFor(c, call[c].answer) /\ TrueFor(c, ack[c])

GateInv == TypeOK /\ Authors /\ Obeyed /\ Gated /\ Holders /\ Told

-----------------------------------------------------------------------------
(* What the kinds of steps do.                                             *)

\* A stage change keeps the row's type and its outcome.
LEMMA MoveFact ==
    ASSUME TypeOK, NEW p \in Requests, NEW from, NEW to \in ReqStages, Move(p, from, to)
    PROVE  /\ req' \in [Requests -> Waits]
           /\ req[p].stage = from /\ req'[p].stage = to
           /\ \A q \in Requests : q # p => req'[q] = req[q]
           /\ \A q \in Requests : req'[q].outcome = req[q].outcome
  BY DEF TypeOK, Move, Waits

\* An answered call keeps its type and is done.
LEMMA AnsweredFact ==
    ASSUME TypeOK, NEW c \in Calls, NEW answer \in Answers
    PROVE  /\ Answered(c, answer) \in Resolutions
           /\ Answered(c, answer).answer = answer
           /\ Answered(c, answer).stage = "done"
  BY DEF TypeOK, Answered, Resolutions, CallStages

\* Delivering decides an undecided waiter and changes no other decision.
LEMMA DeliverFact ==
    ASSUME TypeOK, NEW c \in Calls, Deliver(c)
    PROVE  /\ decision' \in [Requests -> Deciders \cup {NoOne}]
           /\ \A p \in Requests : decision[p] # NoOne => decision'[p] = decision[p]
           /\ \A p \in Requests : decision'[p] # decision[p] => decision'[p] = c /\ Target[c] = p
           /\ decision'[Target[c]] # NoOne
           /\ Target[c] \in Requests
           /\ Delivered(c) = "ok" => decision'[Target[c]] = c
           /\ Delivered(c) = "already_resolved" => decision'[Target[c]] # c
           /\ Delivered(c) \in {"ok", "already_resolved"}
  <1>1. Target[c] \in Requests /\ c # NoOne /\ c \in Deciders
    BY GateAssumption DEF GateAssumption, NoOne, Deciders
  <1>2. QED BY <1>1 DEF TypeOK, Deliver, Delivered

\* Once decided, always decided: what was true for a call stays true.
LEMMA TruthStays ==
    ASSUME NEW c \in Calls, NEW answer, TrueFor(c, answer),
           \A p \in Requests : decision[p] # NoOne => decision'[p] = decision[p]
    PROVE  TrueFor(c, answer)'
  <1>1. Target[c] \in Requests /\ c # NoOne
    BY GateAssumption DEF GateAssumption, NoOne
  <1>2. QED BY <1>1 DEF TrueFor

\* What is decided stays so, and a new decision is one that may be made.
Settled ==
    /\ decision' \in [Requests -> Deciders \cup {NoOne}]
    /\ \A p \in Requests : decision[p] # NoOne => decision'[p] = decision[p]
    /\ \A p \in Requests : decision'[p] \in Calls /\ decision'[p] # decision[p] =>
           Target[decision'[p]] = p /\ decision'[p] \in Entitled

LEMMA SameSettled ==
    ASSUME TypeOK, UNCHANGED decision
    PROVE  Settled
  BY DEF TypeOK, Settled

LEMMA DeliverSettled ==
    ASSUME TypeOK, NEW c \in Entitled, Deliver(c)
    PROVE  Settled
  <1>1. c \in Calls
    BY GateAssumption DEF GateAssumption
  <1>2. QED BY <1>1, DeliverFact DEF Settled

-----------------------------------------------------------------------------
(* The tool call.                                                          *)

\* What a step of a tool call leaves true.
ToolKeeps ==
    /\ req' \in [Requests -> Waits]
    /\ Settled
    /\ Obeyed'
    /\ Gated'

\* A stage change that does not run the tool without leave.
LEMMA MoveKeeps ==
    ASSUME TypeOK, Obeyed, Gated, NEW p \in Requests, NEW from, NEW to \in ReqStages,
           Move(p, from, to), UNCHANGED decision,
           p \in Dangerous /\ FailClose /\ to = "ran" => Approved(p)
    PROVE  ToolKeeps
  <1>1. Settled
    BY SameSettled
  <1>2. /\ req' \in [Requests -> Waits]
        /\ req'[p].stage = to
        /\ \A q \in Requests : q # p => req'[q] = req[q]
        /\ \A q \in Requests : req'[q].outcome = req[q].outcome
    BY MoveFact
  <1>3. Obeyed'
    BY <1>2 DEF Obeyed
  <1>4. Gated'
    <2> SUFFICES ASSUME NEW q \in Dangerous, FailClose, req'[q].stage = "ran"
                 PROVE  Approved(q)'
      BY DEF Gated
    <2>0. q \in Requests
      BY GateAssumption DEF GateAssumption
    <2>1. CASE q = p
      BY <2>1, <2>0, <1>2 DEF Approved
    <2>2. CASE q # p
      BY <2>2, <2>0, <1>2 DEF Gated, Approved
    <2> QED BY <2>1, <2>2
  <1> QED BY <1>1, <1>2, <1>3, <1>4 DEF ToolKeeps

\* Returning with a decision of the waiter that this step knows.
LEMMA ReturnKeeps ==
    ASSUME TypeOK, Obeyed, Gated, NEW p \in Requests, Settled, decision'[p] # NoOne,
           req[p].stage # "ran",
           req' = [req EXCEPT ![p] = [stage |-> "leaving", outcome |-> decision'[p]]]
    PROVE  ToolKeeps
  <1>0. decision'[p] \in Deciders
    BY DEF Settled
  <1>1. req' \in [Requests -> Waits]
    BY <1>0 DEF TypeOK, Waits, ReqStages
  <1>2. /\ req'[p].outcome = decision'[p] /\ req'[p].stage = "leaving"
        /\ \A q \in Requests : q # p => req'[q] = req[q]
    BY DEF TypeOK
  <1>3. Obeyed'
    <2> SUFFICES ASSUME NEW q \in Requests, req'[q].outcome # NoOne
                 PROVE  req'[q].outcome = decision'[q]
      BY DEF Obeyed
    <2>1. CASE q = p
      BY <2>1, <1>2
    <2>2. CASE q # p
      BY <2>2, <1>2 DEF Obeyed, Settled
    <2> QED BY <2>1, <2>2
  <1>4. Gated'
    <2> SUFFICES ASSUME NEW q \in Dangerous, FailClose, req'[q].stage = "ran"
                 PROVE  Approved(q)'
      BY DEF Gated
    <2>0. q \in Requests /\ q # p
      BY <1>2, GateAssumption DEF GateAssumption
    <2> QED BY <2>0, <1>2 DEF Gated, Approved
  <1> QED BY <1>1, <1>3, <1>4 DEF ToolKeeps

\* Every step of a tool call keeps its part of the invariant.
LEMMA ToolStep ==
    ASSUME GateInv, NEW p \in Requests, ToolCall(p)
    PROVE  ToolKeeps /\ UNCHANGED <<call, inbox, sub, ack>>
  <1> USE DEF GateInv
  <1>1. CASE NeedsApproval(p)
    <2>1. PICK required \in Checked(p) : Move(p, "start", IF required THEN "registered" ELSE "ran")
      BY <1>1 DEF NeedsApproval
    <2>2. UNCHANGED <<decision, call, inbox, sub, ack>>
      BY <1>1 DEF NeedsApproval, ReqOnly
    <2>3. p \in Dangerous /\ FailClose => required
      BY DEF Checked
    <2>4. CASE required
      BY <2>1, <2>2, <2>4, MoveKeeps DEF ReqStages
    <2>5. CASE ~required
      BY <2>1, <2>2, <2>3, <2>5, MoveKeeps DEF ReqStages
    <2> QED BY <2>4, <2>5
  <1>2. CASE Emit(p)
    BY <1>2, MoveKeeps DEF Emit, ReqOnly, ReqStages
  <1>3. CASE Receive(p)
    <2>1. req[p].stage # "ran" /\ decision'[p] # NoOne /\ Settled
      BY <1>3, SameSettled DEF Receive
    <2>2. req' = [req EXCEPT ![p] = [stage |-> "leaving", outcome |-> decision'[p]]]
      BY <1>3 DEF Receive
    <2> QED BY <1>3, <2>1, <2>2, ReturnKeeps DEF Receive, ReqOnly
  <1>4. CASE TimerFires(p) \/ ChatEnds(p)
    BY <1>4, MoveKeeps DEF TimerFires, ChatEnds, ReqOnly, ReqStages
  <1>5. CASE GiveUp(p)
    <2>1. PICK by \in {"timer", "cancel"} :
            /\ req[p].stage = IF by = "timer" THEN "expiring" ELSE "canceling"
            /\ decision' = [decision EXCEPT ![p] = IF @ = NoOne THEN by ELSE @]
            /\ req' = [req EXCEPT ![p] = [stage |-> "leaving", outcome |-> decision'[p]]]
            /\ ReqOnly
      BY <1>5 DEF GiveUp
    <2>2. by \in Deciders /\ by \notin Calls /\ by # NoOne
      BY GateAssumption DEF GateAssumption, Deciders, NoOne
    <2>3. decision'[p] # NoOne
      BY <2>1, <2>2 DEF TypeOK
    <2>4. Settled
      BY <2>1, <2>2 DEF TypeOK, Settled
    <2>5. req[p].stage # "ran"
      BY <2>1
    <2>6. ToolKeeps
      BY <2>1, <2>3, <2>4, <2>5, ReturnKeeps
    <2> QED BY <2>1, <2>6 DEF ReqOnly
  <1>6. CASE Leave(p)
    BY <1>6, MoveKeeps DEF Leave, ReqOnly, ReqStages
  <1>7. CASE Execute(p)
    <2>1. CASE Approved(p)
      BY <1>7, <2>1, MoveKeeps DEF Execute, ReqOnly, ReqStages
    <2>2. CASE ~Approved(p)
      BY <1>7, <2>2, MoveKeeps DEF Execute, ReqOnly, ReqStages
    <2> QED BY <2>1, <2>2
  <1> QED BY <1>1, <1>2, <1>3, <1>4, <1>5, <1>6, <1>7 DEF ToolCall

-----------------------------------------------------------------------------
(* Answers.                                                                *)

LEMMA SettledKeepsAuthors ==
    ASSUME Authors, Settled
    PROVE  Authors'
  BY DEF Authors, Settled

LEMMA SettledKeepsTools ==
    ASSUME TypeOK, Obeyed, Gated, Settled, UNCHANGED req
    PROVE  ToolKeeps
  <1>1. Obeyed'
    BY DEF Obeyed, Settled
  <1>2. Gated'
    BY DEF Gated, Approved
  <1> QED BY <1>1, <1>2 DEF ToolKeeps, TypeOK

\* What a step that answers leaves true.
AnswerKeeps ==
    /\ call' \in [Calls -> Resolutions]
    /\ inbox' \in [Replicas -> SUBSET Calls]
    /\ sub' \in [Replicas -> SUBSET Calls]
    /\ ack' \in [Calls -> Acks]
    /\ Holders'
    /\ Told'

\* Call c moves to a row that says nothing false.
LEMMA RowKeeps ==
    ASSUME GateInv, Settled, NEW c \in Calls, NEW row \in Resolutions,
           call' = [call EXCEPT ![c] = row], UNCHANGED <<sub, ack>>,
           inbox' \in [Replicas -> SUBSET Calls],
           row.stage = "holding" => c \in Entitled,
           TrueFor(c, row.answer)'
    PROVE  AnswerKeeps
  <1> USE DEF GateInv
  <1>1. call' \in [Calls -> Resolutions] /\ \A x \in Calls : x # c => call'[x] = call[x]
    BY DEF TypeOK
  <1>2. call'[c] = row
    BY DEF TypeOK
  <1>3. Holders'
    BY <1>1, <1>2 DEF Holders
  <1>4. \A x \in Calls : x # c => TrueFor(x, call[x].answer)' /\ TrueFor(x, ack[x])'
    <2> TAKE x \in Calls
    <2>1. \A p \in Requests : decision[p] # NoOne => decision'[p] = decision[p]
      BY DEF Settled
    <2> DEFINE was == call[x].answer
    <2>3. was' = was \/ x = c
      BY <1>1
    <2>4. TrueFor(x, was) /\ TrueFor(x, ack[x])
      BY DEF Told
    <2>5. Target[x] \in Requests /\ x # NoOne
      BY GateAssumption DEF GateAssumption, NoOne
    <2> QED BY <2>1, <2>3, <2>4, <2>5 DEF TrueFor
  <1>5. TrueFor(c, ack[c])'
    <2>1. TrueFor(c, ack[c])
      BY DEF Told
    <2>2. Target[c] \in Requests /\ c # NoOne
      BY GateAssumption DEF GateAssumption, NoOne
    <2> QED BY <2>1, <2>2 DEF TrueFor, Settled
  <1>6. Told'
    <2>1. TrueFor(c, call[c].answer)'
      BY <1>2 DEF TrueFor
    <2> QED BY <1>4, <1>5, <2>1 DEF Told
  <1> QED BY <1>1, <1>3, <1>6 DEF AnswerKeeps, TypeOK

\* Every step of an answer keeps its part of the invariant.
LEMMA ResolveStep ==
    ASSUME GateInv, NEW c \in Calls, ResolveStart(c) \/ Resolve(c)
    PROVE  Settled /\ AnswerKeeps /\ UNCHANGED req
  <1> USE DEF GateInv
  <1>0. call[c] \in Resolutions /\ call[c].answer \in Answers
    BY DEF TypeOK, Resolutions
  <1>a. ASSUME NEW s \in CallStages, s # "holding" \/ c \in Entitled,
               call' = [call EXCEPT ![c].stage = s], UNCHANGED <<decision, sub, ack>>,
               inbox' \in [Replicas -> SUBSET Calls]
        PROVE  Settled /\ AnswerKeeps
    <2>1. Settled
      BY <1>a, SameSettled
    <2>0. /\ [call[c] EXCEPT !.stage = s] \in Resolutions
          /\ [call[c] EXCEPT !.stage = s].stage = s
          /\ [call[c] EXCEPT !.stage = s].answer = call[c].answer
      BY <1>0 DEF Resolutions
    <2>2. PICK row \in Resolutions :
            row = [call[c] EXCEPT !.stage = s] /\ row.stage = s /\ row.answer = call[c].answer
      BY <2>0
    <2>3. call' = [call EXCEPT ![c] = row]
      BY <1>a, <2>2
    <2>4. TrueFor(c, row.answer)'
      BY <2>2, <1>a DEF Told, TrueFor
    <2> QED BY <2>1, <2>2, <2>3, <2>4, <1>a, RowKeeps
  <1>b. ASSUME NEW answer \in Answers, Settled, TrueFor(c, answer)',
               call' = [call EXCEPT ![c] = Answered(c, answer)], UNCHANGED <<sub, ack>>,
               inbox' \in [Replicas -> SUBSET Calls]
        PROVE  AnswerKeeps
    <2>1. PICK row \in Resolutions :
            row = Answered(c, answer) /\ row.stage # "holding" /\ row.answer = answer
      BY AnsweredFact
    <2>2. TrueFor(c, row.answer)'
      BY <2>1, <1>b DEF TrueFor
    <2>3. call' = [call EXCEPT ![c] = row]
      BY <1>b, <2>1
    <2> QED BY <2>1, <2>2, <2>3, <1>b, RowKeeps
  <1>c. inbox \in [Replicas -> SUBSET Calls]
    BY DEF TypeOK
  <1>1. CASE ResolveStart(c)
    <2>1. /\ call' = [call EXCEPT ![c].stage = "lookup"]
          /\ UNCHANGED <<req, decision, inbox, sub, ack>>
      BY <1>1 DEF ResolveStart
    <2> QED BY <2>1, <1>a, <1>c DEF CallStages
  <1>2. CASE ResolveLookup(c)
    <2>0. UNCHANGED <<req, decision, inbox, sub, ack>>
      BY <1>2 DEF ResolveLookup
    <2>1. CASE call' = [call EXCEPT ![c].stage = "holding"] /\ c \in Entitled
      BY <2>0, <2>1, <1>a, <1>c DEF CallStages
    <2>2. CASE call' = [call EXCEPT ![c] = Answered(c, "mismatch")] /\ c \notin Entitled
      <3>1. TrueFor(c, "mismatch")'
        BY <2>2 DEF TrueFor
      <3> QED BY <2>0, <2>2, <3>1, <1>b, <1>c, SameSettled DEF Answers, Acks
    <2>3. CASE call' = [call EXCEPT ![c].stage = "publishing"]
      BY <2>0, <2>3, <1>a, <1>c DEF CallStages
    <2>4. CASE call' = [call EXCEPT ![c] = Answered(c, "not_found")]
      <3>1. TrueFor(c, "not_found")'
        BY DEF TrueFor
      <3> QED BY <2>0, <2>4, <3>1, <1>b, <1>c, SameSettled DEF Answers
    <2>5. \/ call' = [call EXCEPT ![c].stage = "holding"] /\ c \in Entitled
          \/ call' = [call EXCEPT ![c] = Answered(c, "mismatch")] /\ c \notin Entitled
          \/ call' = [call EXCEPT ![c].stage = "publishing"]
          \/ call' = [call EXCEPT ![c] = Answered(c, "not_found")]
      BY <1>2 DEF ResolveLookup, MayDeliver
    <2> QED BY <2>0, <2>1, <2>2, <2>3, <2>4, <2>5
  <1>3. CASE ResolveDeliver(c)
    <2>1. /\ call[c].stage = "holding" /\ Deliver(c)
          /\ call' = [call EXCEPT ![c] = Answered(c, Delivered(c))]
          /\ UNCHANGED <<req, inbox, sub, ack>>
      BY <1>3 DEF ResolveDeliver
    <2>2. Settled
      BY <2>1, DeliverSettled DEF Holders
    <2>3. PICK answer \in {"ok", "already_resolved"} : answer = Delivered(c)
      BY <2>1, DeliverFact
    <2>4. TrueFor(c, answer)' /\ answer \in Answers
      BY <2>1, <2>3, DeliverFact DEF TrueFor, Answers, Acks
    <2>5. call' = [call EXCEPT ![c] = Answered(c, answer)]
      BY <2>1, <2>3
    <2> QED BY <2>1, <2>2, <2>4, <2>5, <1>b, <1>c
  <1>4. CASE ResolvePublish(c)
    <2>1. inbox' \in [Replicas -> SUBSET Calls]
      BY <1>4, <1>c DEF ResolvePublish, Published
    <2> QED BY <1>4, <2>1, <1>a DEF ResolvePublish, CallStages
  <1>5. CASE ResolveFails(c)
    <2>1. inbox' \in [Replicas -> SUBSET Calls]
      BY <1>5, <1>c DEF ResolveFails, Published
    <2>2. TrueFor(c, "error")'
      BY DEF TrueFor
    <2> QED BY <1>5, <2>1, <2>2, <1>b, SameSettled DEF ResolveFails, Answers
  <1>6. CASE ResolveAcknowledged(c)
    <2>1. /\ call' = [call EXCEPT ![c] = Answered(c, ack[c])]
          /\ UNCHANGED <<req, decision, inbox, sub, ack>>
      BY <1>6 DEF ResolveAcknowledged
    <2>2. ack[c] \in Answers
      BY DEF TypeOK, Answers
    <2>3. TrueFor(c, ack[c]) /\ TrueFor(c, ack[c])'
      BY <2>1 DEF Told, TrueFor
    <2> QED BY <2>1, <2>2, <2>3, <1>b, <1>c, SameSettled
  <1>7. CASE ResolveTimesOut(c)
    <2>1. TrueFor(c, "not_found")'
      BY DEF TrueFor
    <2> QED BY <1>7, <2>1, <1>b, <1>c, SameSettled DEF ResolveTimesOut, Answers
  <1> QED BY <1>1, <1>2, <1>3, <1>4, <1>5, <1>6, <1>7 DEF Resolve

-----------------------------------------------------------------------------
(* The subscriber and crashes.                                             *)

\* A reply that is true, or lost, keeps what everybody is told true.
LEMMA ReplyKeeps ==
    ASSUME GateInv, Settled, NEW c \in Calls, NEW status \in Acks, Reply(c, status),
           UNCHANGED call, TrueFor(c, status)'
    PROVE  ack' \in [Calls -> Acks] /\ Told'
  <1> USE DEF GateInv
  <1>1. ack' \in [Calls -> Acks]
    BY DEF TypeOK, Reply
  <1>2. ASSUME NEW x \in Calls, NEW answer, TrueFor(x, answer)
        PROVE  TrueFor(x, answer)'
    BY <1>2, TruthStays DEF Settled
  <1>3. \A x \in Calls : ack'[x] = ack[x] \/ (x = c /\ ack'[x] = status)
    BY DEF Reply, TypeOK
  <1>4. Told'
    <2> SUFFICES ASSUME NEW x \in Calls
                 PROVE  TrueFor(x, call[x].answer)' /\ TrueFor(x, ack[x])'
      BY DEF Told
    <2>1. TrueFor(x, call[x].answer) /\ TrueFor(x, ack[x])
      BY DEF Told
    <2>2. TrueFor(x, call[x].answer)'
      BY <2>1, <1>2 DEF TrueFor
    <2>3. TrueFor(x, ack[x])'
      BY <2>1, <1>2, <1>3 DEF TrueFor
    <2> QED BY <2>2, <2>3
  <1> QED BY <1>1, <1>4

\* Nobody is told anything new.
LEMMA SilenceKeeps ==
    ASSUME GateInv, Settled, UNCHANGED <<call, ack>>
    PROVE  ack' \in [Calls -> Acks] /\ Told'
  <1> USE DEF GateInv
  <1>1. ASSUME NEW x \in Calls, NEW answer, TrueFor(x, answer)
        PROVE  TrueFor(x, answer)'
    BY <1>1, TruthStays DEF Settled
  <1>2. Told'
    BY <1>1 DEF Told, TrueFor
  <1> QED BY <1>2 DEF TypeOK

\* Every step of a subscriber keeps its part of the invariant.
LEMMA SubscriberStep ==
    ASSUME GateInv, NEW r \in Replicas, Subscriber(r)
    PROVE  Settled /\ AnswerKeeps /\ UNCHANGED req
  <1> USE DEF GateInv
  <1>1. CASE SubscriberReads(r)
    <2>1. UNCHANGED <<req, decision, call>> /\ Settled
      BY <1>1, SameSettled DEF SubscriberReads
    <2>2. PICK c \in inbox[r] :
            /\ inbox' = [inbox EXCEPT ![r] = @ \ {c}]
            /\ sub' = [sub EXCEPT ![r] = IF IsHere(c, r) /\ MayDeliver(c) THEN {c} ELSE {}]
            /\ Refusal(c, r)
      BY <1>1 DEF SubscriberReads
    <2>3. c \in Calls
      BY <2>2 DEF TypeOK
    <2>4. inbox' \in [Replicas -> SUBSET Calls] /\ sub' \in [Replicas -> SUBSET Calls]
      BY <2>2, <2>3 DEF TypeOK
    <2>5. Holders'
      BY <2>1, <2>2, <2>3 DEF Holders, TypeOK, MayDeliver
    <2>6. ack' \in [Calls -> Acks] /\ Told'
      <3>1. CASE UNCHANGED ack
        BY <2>1, <3>1, SilenceKeeps
      <3>2. CASE Reply(c, "mismatch") /\ ~MayDeliver(c)
        <4>1. TrueFor(c, "mismatch")'
          BY <3>2 DEF TrueFor, MayDeliver
        <4> QED BY <2>1, <2>3, <3>2, <4>1, ReplyKeeps DEF Acks
      <3> QED BY <2>2, <3>1, <3>2 DEF Refusal
    <2>7. call' \in [Calls -> Resolutions]
      BY <2>1 DEF TypeOK
    <2> QED BY <2>1, <2>4, <2>5, <2>6, <2>7 DEF AnswerKeeps
  <1>2. CASE SubscriberDelivers(r)
    <2>1. PICK c \in sub[r] :
            /\ Deliver(c)
            /\ Reply(c, Delivered(c))
            /\ sub' = [sub EXCEPT ![r] = {}]
            /\ UNCHANGED <<req, call, inbox>>
      BY <1>2 DEF SubscriberDelivers
    <2>2. c \in Calls /\ c \in Entitled
      BY <2>1 DEF Holders, TypeOK
    <2>3. Settled
      BY <2>1, <2>2, DeliverSettled
    <2>4. PICK status \in {"ok", "already_resolved"} : status = Delivered(c)
      BY <2>1, <2>2, DeliverFact
    <2>5. TrueFor(c, status)' /\ status \in Acks
      BY <2>1, <2>2, <2>4, DeliverFact DEF TrueFor, Acks
    <2>6. Reply(c, status)
      BY <2>1, <2>4 DEF Reply
    <2>7. ack' \in [Calls -> Acks] /\ Told'
      BY <2>1, <2>2, <2>3, <2>5, <2>6, ReplyKeeps
    <2>8. sub' \in [Replicas -> SUBSET Calls] /\ Holders'
      BY <2>1 DEF Holders, TypeOK
    <2> QED BY <2>1, <2>3, <2>7, <2>8 DEF AnswerKeeps, TypeOK
  <1> QED BY <1>1, <1>2 DEF Subscriber

\* A crash forgets, and tells nobody anything false.
LEMMA CrashStep ==
    ASSUME GateInv, NEW r \in Replicas, Crash(r)
    PROVE  ToolKeeps /\ AnswerKeeps
  <1> USE DEF GateInv
  <1>1. Settled /\ UNCHANGED <<decision, ack>>
    BY SameSettled DEF Crash
  <1>2. ASSUME NEW p \in Requests
        PROVE  /\ req'[p] \in Waits
               /\ req'[p].outcome = req[p].outcome
               /\ req'[p].stage = "ran" => req[p].stage = "ran"
    BY DEF Crash, TypeOK, Waits, ReqStages
  <1>3. req' \in [Requests -> Waits]
    <2>1. req' = [p \in Requests |->
            IF Home[p] = r /\ req[p].stage \notin {"ran", "refused"}
            THEN [req[p] EXCEPT !.stage = "dead"] ELSE req[p]]
      BY DEF Crash
    <2> QED BY <1>2, <2>1
  <1>4. Obeyed'
    BY <1>1, <1>2 DEF Obeyed
  <1>5. Gated'
    BY <1>2, GateAssumption DEF Gated, Approved, GateAssumption
  <1>6. ASSUME NEW c \in Calls
        PROVE  call'[c] = call[c] \/ call'[c] = Answered(c, "error")
    BY DEF Crash
  <1>7. call' \in [Calls -> Resolutions]
    <2>1. \A c \in Calls : call'[c] \in Resolutions
      BY <1>6, AnsweredFact DEF TypeOK, Answers
    <2>2. call' = [c \in Calls |-> call'[c]]
      BY DEF Crash
    <2> QED BY <2>1, <2>2
  <1>8. Holders'
    <2>1. \A c \in Calls : call'[c].stage = "holding" => c \in Entitled
      BY <1>6, AnsweredFact DEF Holders, Answers
    <2>2. \A x \in Replicas : sub'[x] \subseteq Entitled
      BY DEF Crash, Holders, TypeOK
    <2> QED BY <2>1, <2>2 DEF Holders
  <1>9. Told'
    <2> SUFFICES ASSUME NEW c \in Calls
                 PROVE  TrueFor(c, call[c].answer)' /\ TrueFor(c, ack[c])'
      BY DEF Told
    <2>1. TrueFor(c, call[c].answer) /\ TrueFor(c, ack[c])
      BY DEF Told
    <2>2. call'[c].answer = call[c].answer \/ call'[c].answer = "error"
      BY <1>6, AnsweredFact DEF Answers
    <2> QED BY <1>1, <2>1, <2>2 DEF TrueFor
  <1>10. /\ inbox' \in [Replicas -> SUBSET Calls]
         /\ sub' \in [Replicas -> SUBSET Calls]
         /\ ack' \in [Calls -> Acks]
    BY DEF Crash, TypeOK
  <1> QED BY <1>1, <1>3, <1>4, <1>5, <1>7, <1>8, <1>9, <1>10 DEF ToolKeeps, AnswerKeeps

-----------------------------------------------------------------------------
(* The theorems.                                                           *)

LEMMA InitInv == Init => GateInv
  <1> SUFFICES ASSUME Init
               PROVE  GateInv
    OBVIOUS
  <1>1. TypeOK
    BY DEF Init, TypeOK, Waits, Resolutions, ReqStages, CallStages, Answers, Acks, NoOne
  <1>2. Authors /\ Obeyed /\ Gated /\ Holders /\ Told
    BY GateAssumption DEF Init, GateAssumption, Authors, Obeyed, Gated, Holders, Told, TrueFor, NoOne
  <1> QED BY <1>1, <1>2 DEF GateInv

LEMMA StepInv == GateInv /\ [Next]_vars => GateInv'
  <1> SUFFICES ASSUME GateInv, [Next]_vars
               PROVE  GateInv'
    OBVIOUS
  <1>1. ASSUME ToolKeeps, AnswerKeeps
        PROVE  GateInv'
    BY <1>1, SettledKeepsAuthors DEF GateInv, ToolKeeps, AnswerKeeps, Settled, TypeOK
  <1>2. ASSUME Settled, AnswerKeeps, UNCHANGED req
        PROVE  GateInv'
    BY <1>2, <1>1, SettledKeepsTools DEF GateInv
  <1>3. ASSUME ToolKeeps, UNCHANGED <<call, inbox, sub, ack>>
        PROVE  GateInv'
    <2>1. Told' /\ ack' \in [Calls -> Acks]
      BY <1>3, SilenceKeeps DEF ToolKeeps
    <2>2. AnswerKeeps
      BY <1>3, <2>1 DEF GateInv, TypeOK, Holders, AnswerKeeps
    <2> QED BY <1>1, <1>3, <2>2
  <1>4. CASE \E p \in Requests : ToolCall(p)
    BY <1>4, <1>3, ToolStep
  <1>5. CASE \E c \in Calls : ResolveStart(c) \/ Resolve(c)
    BY <1>5, <1>2, ResolveStep
  <1>6. CASE \E r \in Replicas : Subscriber(r)
    BY <1>6, <1>2, SubscriberStep
  <1>7. CASE \E r \in Replicas : Crash(r)
    BY <1>7, <1>1, CrashStep
  <1>8. CASE UNCHANGED vars
    <2>1. UNCHANGED <<req, decision, call, inbox, sub, ack>>
      BY <1>8 DEF vars
    <2>2. ToolKeeps
      BY <2>1, SameSettled, SettledKeepsTools DEF GateInv
    <2> QED BY <2>1, <2>2, <1>3
  <1> QED BY <1>4, <1>5, <1>6, <1>7, <1>8 DEF Next

\* The gate's invariant holds for every number of replicas, tool calls and
\* answers.
THEOREM GateInvariant == Spec => []GateInv
  BY InitInv, StepInv, PTL DEF Spec

\* A tool that requires approval runs only on the approval of somebody who may
\* give it.
THEOREM NoRunWithoutApproval == Spec => []RunsAreApproved
  <1>1. GateInv => RunsAreApproved
    <2> SUFFICES ASSUME GateInv, NEW p \in Dangerous, FailClose, req[p].stage = "ran"
                 PROVE  \E c \in Approving \cap Entitled : Target[c] = p /\ req[p].outcome = c
      BY DEF RunsAreApproved
    <2>1. p \in Requests /\ req[p].outcome \in Approving /\ req[p].outcome \in Calls
      BY GateAssumption DEF GateAssumption, GateInv, Gated, Approved
    <2>2. req[p].outcome # NoOne
      BY <2>1, GateAssumption DEF GateAssumption, NoOne
    <2>3. req[p].outcome = decision[p]
      BY <2>1, <2>2 DEF GateInv, Obeyed
    <2> QED BY <2>1, <2>3 DEF GateInv, Authors
  <1> QED BY <1>1, GateInvariant, PTL

\* What a user is told of an answer is what the tool call does with it.
THEOREM UsersAreToldTheTruth == Spec => []AnswersAreTrue
  <1>1. GateInv => AnswersAreTrue
    <2> SUFFICES ASSUME GateInv, NEW c \in Calls
                 PROVE  /\ call[c].answer = "ok" => req[Target[c]].outcome \in {NoOne, c}
                        /\ call[c].answer \in {"already_resolved", "mismatch"} =>
                               req[Target[c]].outcome # c
      BY DEF AnswersAreTrue
    <2>1. Target[c] \in Requests /\ c # NoOne
      BY GateAssumption DEF GateAssumption, NoOne
    <2>2. TrueFor(c, call[c].answer)
      BY DEF GateInv, Told
    <2>3. req[Target[c]].outcome # NoOne => req[Target[c]].outcome = decision[Target[c]]
      BY <2>1 DEF GateInv, Obeyed
    <2>4. decision[Target[c]] = c => c \in Entitled
      BY <2>1 DEF GateInv, Authors
    <2> QED BY <2>1, <2>2, <2>3, <2>4 DEF TrueFor
  <1> QED BY <1>1, GateInvariant, PTL
\* The type invariant.
THEOREM GateTypeCorrect == Spec => []TypeOK
  <1>1. GateInv => TypeOK
    BY DEF GateInv
  <1> QED BY <1>1, GateInvariant, PTL

-----------------------------------------------------------------------------
(* The one-shot decision.  What GateInv leaves out and the refinement needs *)
(* is when things can happen: nobody answers a request that was not shown, *)
(* and whoever holds a waiter holds that of an open or decided request.    *)

Open(p) == req[p].stage \in {"waiting", "expiring", "canceling"} \/ decision[p] # NoOne
Shown(p) == req[p].stage \notin {"start", "registered"}

\* A tool call returns with a decision.
Returned == \A p \in Requests : req[p].stage \in {"leaving", "returned"} => req[p].outcome # NoOne

Unshown ==
    \A p \in Requests : ~Shown(p) =>
        /\ decision[p] = NoOne
        /\ \A c \in Calls : Target[c] = p => call[c].stage = "idle"

Untouched ==
    \A c \in Calls : call[c].stage = "idle" => \A r \in Replicas : c \notin inbox[r] /\ c \notin sub[r]

Held ==
    /\ \A c \in Calls : call[c].stage = "holding" =>
           call[c].at = Home[Target[c]] /\ Open(Target[c])
    /\ \A r \in Replicas : \A c \in sub[r] : r = Home[Target[c]] /\ Open(Target[c])

\* Nobody is told before the answer is done with.
Untold == \A c \in Calls : call[c].answer # "none" => call[c].stage = "done"

LiveInv == Returned /\ Unshown /\ Untouched /\ Held /\ Untold

\* How a tool call may move, with the decision it moves on.
QuietMoves == {<<"start", "registered">>, <<"registered", "waiting">>, <<"waiting", "expiring">>,
               <<"waiting", "canceling">>, <<"leaving", "returned">>}

Quiet(p) ==
    /\ <<req[p].stage, req'[p].stage>> \in QuietMoves
    /\ req'[p].outcome = req[p].outcome
    /\ decision' = decision

Returns(p) ==
    /\ req[p].stage \in {"waiting", "expiring", "canceling"}
    /\ req'[p].stage = "leaving"
    /\ req'[p].outcome = decision'[p]
    /\ decision'[p] # NoOne
    /\ decision'[p] # decision[p] => decision[p] = NoOne /\ decision'[p] \in {"timer", "cancel"}
    /\ \A q \in Requests : q # p => decision'[q] = decision[q]

Ends(p) ==
    /\ req[p].stage \in {"start", "registered", "returned"}
    /\ req'[p].stage \in {"ran", "refused"}
    /\ req'[p].outcome = req[p].outcome
    /\ req[p].stage = "returned" => (req'[p].stage = "ran" <=> Approved(p))
    /\ decision' = decision

LEMMA ToolCases ==
    ASSUME TypeOK, NEW p \in Requests, ToolCall(p)
    PROVE  /\ Quiet(p) \/ Returns(p) \/ Ends(p)
           /\ \A q \in Requests : q # p => req'[q] = req[q]
           /\ UNCHANGED <<call, inbox, sub, ack>>
  <1>1. ASSUME NEW from, NEW to \in ReqStages, Move(p, from, to)
        PROVE  /\ req[p].stage = from /\ req'[p].stage = to
               /\ req'[p].outcome = req[p].outcome
               /\ \A q \in Requests : q # p => req'[q] = req[q]
    BY <1>1, MoveFact
  <1>2. ASSUME NEW d, req' = [req EXCEPT ![p] = [stage |-> "leaving", outcome |-> d]]
        PROVE  /\ req'[p].stage = "leaving" /\ req'[p].outcome = d
               /\ \A q \in Requests : q # p => req'[q] = req[q]
    BY <1>2 DEF TypeOK
  <1>3. CASE NeedsApproval(p)
    <2>1. PICK required \in Checked(p) : Move(p, "start", IF required THEN "registered" ELSE "ran")
      BY <1>3 DEF NeedsApproval
    <2>2. decision' = decision /\ UNCHANGED <<call, inbox, sub, ack>>
      BY <1>3 DEF NeedsApproval, ReqOnly
    <2>3. CASE required
      BY <2>1, <2>2, <2>3, <1>1 DEF ReqStages, Quiet, QuietMoves
    <2>4. CASE ~required
      BY <2>1, <2>2, <2>4, <1>1 DEF ReqStages, Ends
    <2> QED BY <2>3, <2>4
  <1>4. CASE Emit(p)
    <2>1. decision' = decision /\ UNCHANGED <<call, inbox, sub, ack>>
      BY <1>4 DEF Emit, ReqOnly
    <2>2. CASE Move(p, "registered", "waiting")
      BY <2>1, <2>2, <1>1 DEF ReqStages, Quiet, QuietMoves
    <2>3. CASE Move(p, "registered", "refused")
      BY <2>1, <2>3, <1>1 DEF ReqStages, Ends
    <2> QED BY <1>4, <2>2, <2>3 DEF Emit
  <1>5. CASE Receive(p)
    BY <1>5, <1>2 DEF Receive, ReqOnly, Returns
  <1>6. CASE TimerFires(p)
    BY <1>6, <1>1 DEF TimerFires, ReqOnly, ReqStages, Quiet, QuietMoves
  <1>7. CASE ChatEnds(p)
    BY <1>7, <1>1 DEF ChatEnds, ReqOnly, ReqStages, Quiet, QuietMoves
  <1>8. CASE GiveUp(p)
    <2>1. PICK by \in {"timer", "cancel"} :
            /\ req[p].stage = IF by = "timer" THEN "expiring" ELSE "canceling"
            /\ decision' = [decision EXCEPT ![p] = IF @ = NoOne THEN by ELSE @]
            /\ req' = [req EXCEPT ![p] = [stage |-> "leaving", outcome |-> decision'[p]]]
            /\ ReqOnly
      BY <1>8 DEF GiveUp
    <2>2. /\ decision'[p] = IF decision[p] = NoOne THEN by ELSE decision[p]
          /\ \A q \in Requests : q # p => decision'[q] = decision[q]
      BY <2>1 DEF TypeOK
    <2>3. by # NoOne
      BY DEF NoOne
    <2>4. Returns(p)
      <3>1. req'[p].stage = "leaving" /\ req'[p].outcome = decision'[p]
        BY <2>1, <1>2
      <3>2. req[p].stage \in {"expiring", "canceling"}
        BY <2>1
      <3>3. decision'[p] # NoOne
        BY <2>2, <2>3
      <3>4. decision'[p] # decision[p] => decision[p] = NoOne /\ decision'[p] \in {"timer", "cancel"}
        BY <2>2
      <3> QED BY <2>2, <3>1, <3>2, <3>3, <3>4 DEF Returns
    <2> QED BY <2>1, <2>4, <1>2 DEF ReqOnly
  <1>9. CASE Leave(p)
    BY <1>9, <1>1 DEF Leave, ReqOnly, ReqStages, Quiet, QuietMoves
  <1>10. CASE Execute(p)
    <2>1. decision' = decision /\ UNCHANGED <<call, inbox, sub, ack>>
      BY <1>10 DEF Execute, ReqOnly
    <2>2. CASE Approved(p)
      BY <1>10, <2>1, <2>2, <1>1 DEF Execute, ReqStages, Ends
    <2>3. CASE ~Approved(p)
      BY <1>10, <2>1, <2>3, <1>1 DEF Execute, ReqStages, Ends
    <2> QED BY <2>2, <2>3
  <1> QED BY <1>3, <1>4, <1>5, <1>6, <1>7, <1>8, <1>9, <1>10 DEF ToolCall

\* What a step of an answer does.
Handles(c) ==
    /\ \A x \in Calls : x # c => call'[x] = call[x]
    /\ call'[c].at = call[c].at
    /\ call'[c].stage # "idle"
    /\ call[c].stage = "idle" => Shown(Target[c])
    /\ call'[c].stage = "holding" => IsHere(c, call[c].at) /\ call[c].stage # "idle"
    /\ \/ call'[c].answer = call[c].answer /\ call[c].stage # "done"
       \/ call'[c].stage = "done" /\ call'[c].answer # "none"
    /\ call[c].stage # "done"
    /\ \A r \in Replicas : inbox'[r] \subseteq inbox[r] \cup {c}
    /\ UNCHANGED <<req, sub>>

\* The decision stays, or the holder of the waiter of an undecided request makes it.
DecidedBy(c) ==
    \/ decision' = decision
    \/ /\ decision[Target[c]] = NoOne /\ decision'[Target[c]] = c
       /\ \A p \in Requests : p # Target[c] => decision'[p] = decision[p]

LEMMA DeliverCases ==
    ASSUME TypeOK, NEW c \in Calls, Deliver(c)
    PROVE  DecidedBy(c)
  <1>1. Target[c] \in Requests
    BY GateAssumption DEF GateAssumption
  <1>2. CASE decision[Target[c]] = NoOne
    BY <1>1, <1>2 DEF TypeOK, Deliver, DecidedBy
  <1>3. CASE decision[Target[c]] # NoOne
    BY <1>1, <1>3 DEF TypeOK, Deliver, DecidedBy
  <1> QED BY <1>2, <1>3

LEMMA AnswerCases ==
    ASSUME TypeOK, NEW c \in Calls, ResolveStart(c) \/ Resolve(c)
    PROVE  /\ Handles(c)
           /\ decision' = decision \/ (call[c].stage = "holding" /\ DecidedBy(c))
  <1>0. call[c] \in Resolutions
    BY DEF TypeOK
  <1>1. ASSUME NEW row, call' = [call EXCEPT ![c] = row]
        PROVE  call'[c] = row /\ \A x \in Calls : x # c => call'[x] = call[x]
    BY <1>1 DEF TypeOK
  <1>2. ASSUME NEW s, call' = [call EXCEPT ![c].stage = s]
        PROVE  /\ call'[c].stage = s /\ call'[c].answer = call[c].answer /\ call'[c].at = call[c].at
               /\ \A x \in Calls : x # c => call'[x] = call[x]
    BY <1>2, <1>0 DEF TypeOK, Resolutions
  <1>3. ASSUME NEW answer, call' = [call EXCEPT ![c] = Answered(c, answer)]
        PROVE  /\ call'[c].stage = "done" /\ call'[c].answer = answer /\ call'[c].at = call[c].at
               /\ \A x \in Calls : x # c => call'[x] = call[x]
    BY <1>3, <1>0, <1>1 DEF Answered, Resolutions
  <1>4. CASE ResolveStart(c)
    BY <1>4, <1>2 DEF ResolveStart, Handles, Shown
  <1>5. CASE ResolveLookup(c)
    <2>1. call[c].stage = "lookup" /\ UNCHANGED <<req, decision, inbox, sub, ack>>
      BY <1>5 DEF ResolveLookup
    <2>2. CASE IsHere(c, call[c].at) /\ call' = [call EXCEPT ![c].stage = "holding"]
      BY <2>1, <2>2, <1>2 DEF Handles
    <2>3. CASE call' = [call EXCEPT ![c].stage = "publishing"]
      BY <2>1, <2>3, <1>2 DEF Handles
    <2>4. ASSUME NEW answer \in {"mismatch", "not_found"},
                 call' = [call EXCEPT ![c] = Answered(c, answer)]
          PROVE  Handles(c)
      BY <2>1, <2>4, <1>3 DEF Handles
    <2>5. \/ IsHere(c, call[c].at) /\ call' = [call EXCEPT ![c].stage = "holding"]
          \/ call' = [call EXCEPT ![c].stage = "publishing"]
          \/ \E answer \in {"mismatch", "not_found"} : call' = [call EXCEPT ![c] = Answered(c, answer)]
      BY <1>5 DEF ResolveLookup
    <2> QED BY <2>1, <2>2, <2>3, <2>4, <2>5
  <1>6. CASE ResolveDeliver(c)
    <2>1. /\ call[c].stage = "holding" /\ Deliver(c)
          /\ call' = [call EXCEPT ![c] = Answered(c, Delivered(c))]
          /\ UNCHANGED <<req, inbox, sub, ack>>
      BY <1>6 DEF ResolveDeliver
    <2>2. PICK answer \in {"ok", "already_resolved"} : answer = Delivered(c)
      BY <2>1, DeliverFact
    <2>3. call' = [call EXCEPT ![c] = Answered(c, answer)]
      BY <2>1, <2>2
    <2>4. Handles(c)
      BY <2>1, <2>2, <2>3, <1>3 DEF Handles
    <2> QED BY <2>1, <2>4, DeliverCases
  <1>7. ASSUME Published(c)
        PROVE  \A r \in Replicas : inbox'[r] \subseteq inbox[r] \cup {c}
    BY <1>7 DEF Published
  <1>8. CASE ResolvePublish(c)
    BY <1>8, <1>7, <1>2 DEF ResolvePublish, Handles
  <1>9. CASE ResolveFails(c)
    <2>1. /\ call[c].stage = "publishing" /\ Published(c)
          /\ call' = [call EXCEPT ![c] = Answered(c, "error")]
          /\ UNCHANGED <<req, decision, sub, ack>>
      BY <1>9 DEF ResolveFails
    <2>2. call'[c].stage = "done" /\ call'[c].answer = "error" /\ call'[c].at = call[c].at
          /\ \A x \in Calls : x # c => call'[x] = call[x]
      BY <2>1, <1>3
    <2> QED BY <2>1, <2>2, <1>7 DEF Handles
  <1>10. CASE ResolveAcknowledged(c)
    <2>1. /\ call[c].stage = "awaiting" /\ ack[c] # "none"
          /\ call' = [call EXCEPT ![c] = Answered(c, ack[c])]
          /\ UNCHANGED <<req, decision, inbox, sub, ack>>
      BY <1>10 DEF ResolveAcknowledged
    <2>2. call'[c].stage = "done" /\ call'[c].answer = ack[c] /\ call'[c].at = call[c].at
          /\ \A x \in Calls : x # c => call'[x] = call[x]
      BY <2>1, <1>3
    <2> QED BY <2>1, <2>2 DEF Handles
  <1>11. CASE ResolveTimesOut(c)
    <2>1. /\ call[c].stage = "awaiting"
          /\ call' = [call EXCEPT ![c] = Answered(c, "not_found")]
          /\ UNCHANGED <<req, decision, inbox, sub, ack>>
      BY <1>11 DEF ResolveTimesOut
    <2>2. call'[c].stage = "done" /\ call'[c].answer = "not_found" /\ call'[c].at = call[c].at
          /\ \A x \in Calls : x # c => call'[x] = call[x]
      BY <2>1, <1>3
    <2> QED BY <2>1, <2>2 DEF Handles
  <1> QED BY <1>4, <1>5, <1>6, <1>8, <1>9, <1>10, <1>11 DEF Resolve

\* What a step of a subscriber does.
LEMMA SubscriberCases ==
    ASSUME TypeOK, NEW r \in Replicas, Subscriber(r)
    PROVE  /\ UNCHANGED <<req, call>>
           /\ \A x \in Replicas : inbox'[x] \subseteq inbox[x]
           /\ \A x \in Replicas : \A c \in sub'[x] :
                 c \in sub[x] \/ (c \in inbox[x] /\ IsHere(c, x))
           /\ decision' = decision \/ \E c \in sub[r] : DecidedBy(c)
  <1>1. CASE SubscriberReads(r)
    BY <1>1 DEF SubscriberReads, TypeOK
  <1>2. CASE SubscriberDelivers(r)
    <2>1. PICK c \in sub[r] : /\ Deliver(c)
                              /\ sub' = [sub EXCEPT ![r] = {}]
                              /\ UNCHANGED <<req, call, inbox>>
      BY <1>2 DEF SubscriberDelivers
    <2>2. c \in Calls
      BY <2>1 DEF TypeOK
    <2> QED BY <2>1, <2>2, DeliverCases DEF TypeOK
  <1> QED BY <1>1, <1>2 DEF Subscriber

\* What a crash does.
LEMMA CrashCases ==
    ASSUME TypeOK, NEW r \in Replicas, Crash(r)
    PROVE  /\ UNCHANGED <<decision, ack>>
           /\ \A p \in Requests :
                 /\ req'[p].outcome = req[p].outcome
                 /\ \/ req'[p] = req[p]
                    \/ /\ Home[p] = r /\ req[p].stage \notin {"ran", "refused"}
                       /\ req'[p].stage = "dead"
           /\ \A c \in Calls :
                 \/ call'[c] = call[c] /\ (call[c].stage = "holding" => call[c].at # r)
                 \/ /\ call[c].stage \notin {"idle", "done"}
                    /\ call'[c].stage = "done" /\ call'[c].answer = "error"
           /\ sub'[r] = {} /\ \A x \in Replicas : sub'[x] \subseteq sub[x] /\ inbox'[x] \subseteq inbox[x]
  <1>1. UNCHANGED <<decision, ack>>
    BY DEF Crash
  <1>2. \A p \in Requests :
            /\ req'[p].outcome = req[p].outcome
            /\ \/ req'[p] = req[p]
               \/ Home[p] = r /\ req[p].stage \notin {"ran", "refused"} /\ req'[p].stage = "dead"
    BY DEF Crash, TypeOK, Waits
  <1>3. ASSUME NEW c \in Calls
        PROVE  \/ call'[c] = call[c] /\ (call[c].stage = "holding" => call[c].at # r)
               \/ /\ call[c].stage \notin {"idle", "done"}
                  /\ call'[c].stage = "done" /\ call'[c].answer = "error"
    <2>1. CASE call[c].at = r /\ call[c].stage \notin {"idle", "done"}
      <3>1. call'[c] = Answered(c, "error")
        BY <2>1 DEF Crash
      <3> QED BY <2>1, <3>1, AnsweredFact DEF Answers
    <2>2. CASE ~(call[c].at = r /\ call[c].stage \notin {"idle", "done"})
      BY <2>2 DEF Crash
    <2> QED BY <2>1, <2>2
  <1>4. /\ sub'[r] = {}
        /\ \A x \in Replicas : sub'[x] \subseteq sub[x] /\ inbox'[x] \subseteq inbox[x]
    BY DEF Crash, TypeOK
  <1> QED BY <1>1, <1>2, <1>3, <1>4

\* Whoever finds a waiter in the map of its replica holds that of an open or
\* decided request.
LEMMA FoundIsOpen ==
    ASSUME GateInv, LiveInv, NEW c \in Calls, NEW r \in Replicas, IsHere(c, r), Shown(Target[c])
    PROVE  r = Home[Target[c]] /\ Open(Target[c])
  <1>1. Target[c] \in Requests
    BY GateAssumption DEF GateAssumption
  <1>2. CASE req[Target[c]].stage = "leaving"
    BY <1>1, <1>2 DEF IsHere, Open, GateInv, Obeyed, LiveInv, Returned
  <1>3. CASE req[Target[c]].stage # "leaving"
    BY <1>1, <1>3 DEF IsHere, Pending, Open, Shown
  <1> QED BY <1>2, <1>3

LEMMA InitLive == Init => LiveInv
  <1> SUFFICES ASSUME Init
               PROVE  LiveInv
    OBVIOUS
  <1>1. /\ \A p \in Requests : req[p].stage = "start" /\ decision[p] = NoOne
        /\ \A c \in Calls : call[c].stage = "idle" /\ call[c].answer = "none"
        /\ \A r \in Replicas : inbox[r] = {} /\ sub[r] = {}
    BY DEF Init
  <1> QED BY <1>1 DEF LiveInv, Returned, Unshown, Untouched, Held, Untold

LEMMA ToolLive ==
    ASSUME GateInv, LiveInv, NEW p \in Requests, ToolCall(p)
    PROVE  LiveInv'
  <1>1. /\ Quiet(p) \/ Returns(p) \/ Ends(p)
        /\ \A q \in Requests : q # p => req'[q] = req[q]
        /\ UNCHANGED <<call, inbox, sub, ack>>
    BY ToolCases DEF GateInv
  <1>2. \A q \in Requests : q # p => decision'[q] = decision[q]
    BY <1>1 DEF Quiet, Returns, Ends
  <1>3. /\ Shown(p) => Shown(p)'
        /\ ~Shown(p)' => decision'[p] = decision[p]
        /\ Open(p) => Open(p)'
        /\ req'[p].stage \in {"leaving", "returned"} => req'[p].outcome # NoOne
    <2>1. CASE Quiet(p)
      BY <1>1, <2>1 DEF Quiet, QuietMoves, Shown, Open, LiveInv, Returned
    <2>2. CASE Returns(p)
      BY <1>1, <2>2 DEF Returns, Shown, Open
    <2>3. CASE Ends(p)
      BY <1>1, <2>3 DEF Ends, Shown, Open
    <2> QED BY <1>1, <2>1, <2>2, <2>3
  <1>4. \A q \in Requests : (Shown(q) => Shown(q)') /\ (Open(q) => Open(q)')
    BY <1>1, <1>2, <1>3 DEF Shown, Open
  <1>5. Target \in [Calls -> Requests]
    BY GateAssumption DEF GateAssumption
  <1>6. Returned'
    BY <1>1, <1>3 DEF LiveInv, Returned
  <1>7. Unshown'
    <2> SUFFICES ASSUME NEW q \in Requests, ~Shown(q)'
                 PROVE  /\ decision'[q] = NoOne
                        /\ \A c \in Calls : Target[c] = q => call'[c].stage = "idle"
      BY DEF Unshown
    <2>1. ~Shown(q)
      BY <1>4
    <2>2. decision'[q] = decision[q]
      BY <1>2, <1>3
    <2> QED BY <1>1, <2>1, <2>2 DEF LiveInv, Unshown
  <1>8. Untouched' /\ Untold'
    BY <1>1 DEF LiveInv, Untouched, Untold
  <1>9. Held'
    <2>1. ASSUME NEW c \in Calls, call'[c].stage = "holding"
          PROVE  call'[c].at = Home[Target[c]] /\ Open(Target[c])'
      <3>1. call[c].at = Home[Target[c]] /\ Open(Target[c])
        BY <1>1, <2>1 DEF LiveInv, Held
      <3>2. Open(Target[c])'
        BY <1>4, <1>5, <3>1 DEF Open
      <3> QED BY <1>1, <3>1, <3>2
    <2>2. ASSUME NEW r \in Replicas, NEW c \in sub'[r]
          PROVE  r = Home[Target[c]] /\ Open(Target[c])'
      <3>1. c \in Calls /\ c \in sub[r]
        BY <1>1, <2>2 DEF GateInv, TypeOK
      <3>2. r = Home[Target[c]] /\ Open(Target[c])
        BY <3>1 DEF LiveInv, Held
      <3> QED BY <1>4, <1>5, <3>1, <3>2 DEF Open
    <2> QED BY <2>1, <2>2 DEF Held, Open
  <1> QED BY <1>6, <1>7, <1>8, <1>9 DEF LiveInv

LEMMA AnswerLive ==
    ASSUME GateInv, LiveInv, NEW c \in Calls, ResolveStart(c) \/ Resolve(c)
    PROVE  LiveInv'
  <1>1. /\ Handles(c)
        /\ decision' = decision \/ (call[c].stage = "holding" /\ DecidedBy(c))
    BY AnswerCases DEF GateInv
  <1>2. Target \in [Calls -> Requests] /\ c # NoOne
    BY GateAssumption DEF GateAssumption, NoOne
  <1>3. call[c].stage # "idle" => Shown(Target[c])
    BY <1>2 DEF LiveInv, Unshown
  <1>4. Shown(Target[c]) /\ req' = req /\ sub' = sub
    BY <1>1, <1>3 DEF Handles
  <1>5. \A q \in Requests : decision'[q] = decision[q] \/ (q = Target[c] /\ decision'[q] # NoOne)
    BY <1>1, <1>2 DEF DecidedBy
  <1>6. \A q \in Requests : Open(q) => Open(q)'
    BY <1>4, <1>5 DEF Open
  <1>7. Returned'
    BY <1>4 DEF LiveInv, Returned
  <1>8. Unshown'
    <2> SUFFICES ASSUME NEW q \in Requests, ~Shown(q)
                 PROVE  /\ decision'[q] = NoOne
                        /\ \A x \in Calls : Target[x] = q => call'[x].stage = "idle"
      BY <1>4 DEF Unshown, Shown
    <2>1. q # Target[c]
      BY <1>4
    <2> QED BY <1>1, <1>5, <2>1 DEF LiveInv, Unshown, Handles
  <1>9. Untouched'
    <2> SUFFICES ASSUME NEW x \in Calls, call'[x].stage = "idle", NEW r \in Replicas
                 PROVE  x \notin inbox'[r] /\ x \notin sub'[r]
      BY DEF Untouched
    <2>1. x # c /\ call[x].stage = "idle" /\ inbox'[r] \subseteq inbox[r] \cup {c}
      BY <1>1 DEF Handles
    <2> QED BY <1>4, <2>1 DEF LiveInv, Untouched
  <1>10. Untold'
    BY <1>1 DEF LiveInv, Untold, Handles
  <1>11. Held'
    <2>1. ASSUME NEW x \in Calls, call'[x].stage = "holding"
          PROVE  call'[x].at = Home[Target[x]] /\ Open(Target[x])'
      <3>1. call'[x].at = Home[Target[x]] /\ Open(Target[x])
        <4>1. CASE x = c
          <5>1. IsHere(c, call[c].at) /\ call'[c].at = call[c].at /\ call[c].at \in Replicas
            BY <1>1, <2>1, <4>1 DEF Handles, GateInv, TypeOK, Resolutions
          <5> QED BY <1>4, <4>1, <5>1, FoundIsOpen
        <4>2. CASE x # c
          BY <1>1, <2>1, <4>2 DEF Handles, LiveInv, Held
        <4> QED BY <4>1, <4>2
      <3> QED BY <1>2, <1>6, <3>1 DEF Open
    <2>2. ASSUME NEW r \in Replicas, NEW x \in sub'[r]
          PROVE  r = Home[Target[x]] /\ Open(Target[x])'
      <3>1. x \in Calls /\ x \in sub[r]
        BY <1>4, <2>2 DEF GateInv, TypeOK
      <3>2. r = Home[Target[x]] /\ Open(Target[x])
        BY <3>1 DEF LiveInv, Held
      <3> QED BY <1>2, <1>6, <3>1, <3>2 DEF Open
    <2> QED BY <2>1, <2>2 DEF Held, Open
  <1> QED BY <1>7, <1>8, <1>9, <1>10, <1>11 DEF LiveInv

LEMMA SubscriberLive ==
    ASSUME GateInv, LiveInv, NEW r \in Replicas, Subscriber(r)
    PROVE  LiveInv'
  <1>1. /\ UNCHANGED <<req, call>>
        /\ \A x \in Replicas : inbox'[x] \subseteq inbox[x]
        /\ \A x \in Replicas : \A c \in sub'[x] :
              c \in sub[x] \/ (c \in inbox[x] /\ IsHere(c, x))
        /\ decision' = decision \/ \E c \in sub[r] : DecidedBy(c)
    BY SubscriberCases DEF GateInv
  <1>2. Target \in [Calls -> Requests] /\ NoOne \notin Calls
    BY GateAssumption DEF GateAssumption, NoOne
  <1>3. ASSUME NEW c \in Calls, NEW x \in Replicas, c \in sub[x] \/ c \in inbox[x]
        PROVE  Shown(Target[c])
    BY <1>2, <1>3 DEF LiveInv, Untouched, Unshown
  <1>4. \A q \in Requests : \/ decision'[q] = decision[q]
                            \/ Shown(q) /\ decision'[q] # NoOne
    <2>1. CASE decision' = decision
      BY <2>1
    <2>2. ASSUME NEW c \in sub[r], DecidedBy(c)
          PROVE  \A q \in Requests : \/ decision'[q] = decision[q]
                                     \/ Shown(q) /\ decision'[q] # NoOne
      <3>1. c \in Calls /\ Shown(Target[c])
        BY <2>2, <1>3 DEF GateInv, TypeOK
      <3> QED BY <1>2, <2>2, <3>1 DEF DecidedBy
    <2> QED BY <1>1, <2>1, <2>2
  <1>5. \A q \in Requests : Open(q) => Open(q)'
    BY <1>1, <1>4 DEF Open
  <1>6. Returned' /\ Untold'
    BY <1>1 DEF LiveInv, Returned, Untold
  <1>7. Unshown'
    BY <1>1, <1>4 DEF LiveInv, Unshown, Shown
  <1>8. Untouched'
    BY <1>1 DEF LiveInv, Untouched
  <1>9. Held'
    <2>1. ASSUME NEW c \in Calls, call'[c].stage = "holding"
          PROVE  call'[c].at = Home[Target[c]] /\ Open(Target[c])'
      <3>1. call[c].at = Home[Target[c]] /\ Open(Target[c])
        BY <1>1, <2>1 DEF LiveInv, Held
      <3> QED BY <1>1, <1>2, <1>5, <3>1 DEF Open
    <2>2. ASSUME NEW x \in Replicas, NEW c \in sub'[x]
          PROVE  x = Home[Target[c]] /\ Open(Target[c])'
      <3>1. c \in Calls /\ (c \in sub[x] \/ (c \in inbox[x] /\ IsHere(c, x)))
        BY <1>1, <2>2 DEF GateInv, TypeOK
      <3>2. x = Home[Target[c]] /\ Open(Target[c])
        <4>1. CASE c \in sub[x]
          BY <4>1 DEF LiveInv, Held
        <4>2. CASE c \in inbox[x] /\ IsHere(c, x)
          BY <3>1, <4>2, <1>3, FoundIsOpen
        <4> QED BY <3>1, <4>1, <4>2
      <3> QED BY <1>2, <1>5, <3>1, <3>2 DEF Open
    <2> QED BY <2>1, <2>2 DEF Held, Open
  <1> QED BY <1>6, <1>7, <1>8, <1>9 DEF LiveInv

LEMMA CrashLive ==
    ASSUME GateInv, LiveInv, NEW r \in Replicas, Crash(r)
    PROVE  LiveInv'
  <1>1. /\ decision' = decision
        /\ \A p \in Requests :
              /\ req'[p].outcome = req[p].outcome
              /\ req'[p] = req[p] \/ (Home[p] = r /\ req'[p].stage = "dead")
        /\ \A c \in Calls :
              \/ call'[c] = call[c] /\ (call[c].stage = "holding" => call[c].at # r)
              \/ call[c].stage # "idle" /\ call'[c].stage = "done"
        /\ sub'[r] = {} /\ \A x \in Replicas : sub'[x] \subseteq sub[x] /\ inbox'[x] \subseteq inbox[x]
    BY CrashCases DEF GateInv
  <1>2. Target \in [Calls -> Requests]
    BY GateAssumption DEF GateAssumption
  <1>3. Returned' /\ Unshown'
    BY <1>1 DEF LiveInv, Returned, Unshown, Shown
  <1>4. Untouched' /\ Untold'
    BY <1>1 DEF LiveInv, Untouched, Untold
  <1>5. \A q \in Requests : Home[q] # r /\ Open(q) => Open(q)'
    BY <1>1 DEF Open
  <1>6. Held'
    <2>1. ASSUME NEW c \in Calls, call'[c].stage = "holding"
          PROVE  call'[c].at = Home[Target[c]] /\ Open(Target[c])'
      <3>1. call'[c] = call[c] /\ call[c].at # r /\ call[c].at = Home[Target[c]] /\ Open(Target[c])
        BY <1>1, <2>1 DEF LiveInv, Held
      <3> QED BY <1>2, <1>5, <3>1 DEF Open
    <2>2. ASSUME NEW x \in Replicas, NEW c \in sub'[x]
          PROVE  x = Home[Target[c]] /\ Open(Target[c])'
      <3>1. c \in Calls /\ c \in sub[x] /\ x # r
        BY <1>1, <2>2 DEF GateInv, TypeOK
      <3>2. x = Home[Target[c]] /\ Open(Target[c])
        BY <3>1 DEF LiveInv, Held
      <3> QED BY <1>2, <1>5, <3>1, <3>2 DEF Open
    <2> QED BY <2>1, <2>2 DEF Held, Open
  <1> QED BY <1>3, <1>4, <1>6 DEF LiveInv

LEMMA StepLive == GateInv /\ LiveInv /\ [Next]_vars => LiveInv'
  <1> SUFFICES ASSUME GateInv, LiveInv, [Next]_vars
               PROVE  LiveInv'
    OBVIOUS
  <1>1. CASE UNCHANGED vars
    BY <1>1 DEF vars, LiveInv, Returned, Unshown, Untouched, Held, Untold, Shown, Open
  <1> QED BY <1>1, ToolLive, AnswerLive, SubscriberLive, CrashLive DEF Next

\* Who holds what, and when: holders hold open or decided requests.
THEOREM LiveInvariant == Spec => [](GateInv /\ LiveInv)
  <1>1. Init => GateInv /\ LiveInv
    BY InitInv, InitLive
  <1>2. GateInv /\ LiveInv /\ [Next]_vars => (GateInv /\ LiveInv)'
    BY StepInv, StepLive
  <1> QED BY <1>1, <1>2, PTL DEF Spec

-----------------------------------------------------------------------------
(* Every step is a step of the one-shot decision, or a stutter.            *)

\* The abstract steps of a request and of an answer, in the gate's terms.
DecidesFor(p) ==
    /\ decision[p] = NoOne /\ Fate(p) = "open" /\ Fate(p)' = "open"
    /\ \/ decision'[p] \in {"timer", "cancel"}
       \/ decision'[p] \in Entitled /\ Target[decision'[p]] = p

FinishesFor(p) ==
    /\ Fate(p) = "open" /\ decision'[p] = decision[p]
    /\ \/ Fate(p)' = "ran" /\ (FailClose /\ p \in Dangerous => decision[p] \in Approving)
       \/ Fate(p)' = "refused" /\ decision[p] \notin Approving
       \/ Fate(p)' = "dead"

RequestSim ==
    \A p \in Requests :
        DecidesFor(p) \/ FinishesFor(p) \/ (decision'[p] = decision[p] /\ Fate(p)' = Fate(p))

TellsTo(c) == call[c].answer = "none" /\ call'[c].answer # "none"

AnswerSim == \A c \in Calls : TellsTo(c) \/ call'[c].answer = call[c].answer

LEMMA ToolSim ==
    ASSUME GateInv, LiveInv, GateInv', NEW p \in Requests, ToolCall(p)
    PROVE  RequestSim /\ AnswerSim
  <1>1. /\ Quiet(p) \/ Returns(p) \/ Ends(p)
        /\ \A q \in Requests : q # p => req'[q] = req[q]
        /\ UNCHANGED <<call, inbox, sub, ack>>
    BY ToolCases DEF GateInv
  <1>2. \A q \in Requests : q # p => decision'[q] = decision[q] /\ Fate(q)' = Fate(q)
    BY <1>1 DEF Quiet, Returns, Ends, Fate
  <1>3. NoOne \notin Approving
    BY GateAssumption DEF GateAssumption, NoOne
  <1>4. DecidesFor(p) \/ FinishesFor(p) \/ (decision'[p] = decision[p] /\ Fate(p)' = Fate(p))
    <2>1. CASE Quiet(p)
      BY <2>1 DEF Quiet, QuietMoves, Fate
    <2>2. CASE Returns(p)
      BY <2>2 DEF Returns, Fate, DecidesFor
    <2>3. CASE Ends(p)
      <3>1. /\ Fate(p) = "open" /\ decision'[p] = decision[p]
            /\ req'[p].outcome = req[p].outcome
            /\ Fate(p)' = req'[p].stage /\ req'[p].stage \in {"ran", "refused"}
        BY <2>3 DEF Ends, Fate
      <3>2. req[p].outcome # NoOne => req[p].outcome = decision[p]
        BY DEF GateInv, Obeyed
      <3>3. CASE req'[p].stage = "ran"
        <4>1. FailClose /\ p \in Dangerous => req[p].outcome \in Approving
          BY <3>1, <3>3 DEF GateInv, Gated, Approved
        <4> QED BY <1>3, <3>1, <3>2, <3>3, <4>1 DEF FinishesFor
      <3>4. CASE req'[p].stage = "refused"
        <4>1. CASE req[p].stage = "returned"
          <5>1. req[p].outcome \notin Approving /\ req[p].outcome # NoOne
            BY <2>3, <3>4, <4>1 DEF Ends, Approved, LiveInv, Returned
          <5> QED BY <3>1, <3>2, <3>4, <5>1 DEF FinishesFor
        <4>2. CASE req[p].stage # "returned"
          <5>1. decision[p] = NoOne
            BY <2>3, <4>2 DEF Ends, LiveInv, Unshown, Shown
          <5> QED BY <1>3, <3>1, <3>4, <5>1 DEF FinishesFor
        <4> QED BY <4>1, <4>2
      <3> QED BY <3>1, <3>3, <3>4
    <2> QED BY <1>1, <2>1, <2>2, <2>3
  <1>5. RequestSim
    BY <1>2, <1>4 DEF RequestSim
  <1> QED BY <1>1, <1>5 DEF AnswerSim

\* The holder of a waiter decides an open request, and may.
LEMMA HolderSim ==
    ASSUME GateInv, LiveInv, UNCHANGED req, NEW c \in Calls, DecidedBy(c),
           c \in Entitled, Open(Target[c])
    PROVE  RequestSim
  <1>1. \A q \in Requests : Fate(q)' = Fate(q)
    BY DEF Fate
  <1>2. CASE decision' = decision
    BY <1>1, <1>2 DEF RequestSim
  <1>3. CASE decision' # decision
    <2>1. /\ decision[Target[c]] = NoOne /\ decision'[Target[c]] = c
          /\ \A q \in Requests : q # Target[c] => decision'[q] = decision[q]
      BY <1>3 DEF DecidedBy
    <2>2. Target[c] \in Requests
      BY GateAssumption DEF GateAssumption
    <2>3. Fate(Target[c]) = "open"
      BY <2>1 DEF Open, Fate
    <2>4. DecidesFor(Target[c])
      BY <1>1, <2>1, <2>2, <2>3 DEF DecidesFor
    <2> QED BY <1>1, <2>1, <2>4 DEF RequestSim
  <1> QED BY <1>2, <1>3

LEMMA AnswersSim ==
    ASSUME GateInv, LiveInv, NEW c \in Calls, ResolveStart(c) \/ Resolve(c)
    PROVE  RequestSim /\ AnswerSim
  <1>1. /\ Handles(c)
        /\ decision' = decision \/ (call[c].stage = "holding" /\ DecidedBy(c))
    BY AnswerCases DEF GateInv
  <1>2. req' = req
    BY <1>1 DEF Handles
  <1>3. RequestSim
    <2>1. CASE decision' = decision
      BY <1>2, <2>1 DEF RequestSim, Fate
    <2>2. CASE call[c].stage = "holding" /\ DecidedBy(c)
      BY <1>2, <2>2, HolderSim DEF GateInv, Holders, LiveInv, Held
    <2> QED BY <1>1, <2>1, <2>2
  <1>4. AnswerSim
    <2>1. call[c].stage # "done" => call[c].answer = "none"
      BY DEF LiveInv, Untold
    <2> QED BY <1>1, <2>1 DEF Handles, AnswerSim, TellsTo
  <1> QED BY <1>3, <1>4

LEMMA SubscriberSim ==
    ASSUME GateInv, LiveInv, NEW r \in Replicas, Subscriber(r)
    PROVE  RequestSim /\ AnswerSim
  <1>1. /\ UNCHANGED <<req, call>>
        /\ decision' = decision \/ \E c \in sub[r] : DecidedBy(c)
    BY SubscriberCases DEF GateInv
  <1>2. CASE decision' = decision
    BY <1>1, <1>2 DEF RequestSim, AnswerSim, Fate
  <1>3. ASSUME NEW c \in sub[r], DecidedBy(c)
        PROVE  RequestSim
    BY <1>1, <1>3, HolderSim DEF GateInv, TypeOK, Holders, LiveInv, Held
  <1> QED BY <1>1, <1>2, <1>3 DEF AnswerSim

LEMMA CrashSim ==
    ASSUME GateInv, LiveInv, NEW r \in Replicas, Crash(r)
    PROVE  RequestSim /\ AnswerSim
  <1>1. /\ decision' = decision
        /\ \A p \in Requests :
              \/ req'[p] = req[p]
              \/ req[p].stage \notin {"ran", "refused"} /\ req'[p].stage = "dead"
        /\ \A c \in Calls :
              \/ call'[c] = call[c]
              \/ call[c].stage \notin {"idle", "done"} /\ call'[c].answer = "error"
    BY CrashCases DEF GateInv
  <1>2. RequestSim
    BY <1>1 DEF RequestSim, FinishesFor, Fate
  <1>3. AnswerSim
    BY <1>1 DEF AnswerSim, TellsTo, LiveInv, Untold
  <1> QED BY <1>2, <1>3

LEMMA StepSim ==
    ASSUME GateInv, LiveInv, GateInv', Next
    PROVE  RequestSim /\ AnswerSim
  BY ToolSim, AnswersSim, SubscriberSim, CrashSim DEF Next

\* In the terms of the abstract specification.
LEMMA AbstractStep ==
    ASSUME GateInv, LiveInv, GateInv', Next
    PROVE  Decision!Next
  <1>1. RequestSim /\ AnswerSim
    BY StepSim
  <1>2. decision' = [p \in Requests |-> decision'[p]]
    BY DEF GateInv, TypeOK
  <1>3. ASSUME NEW p \in Requests
        PROVE  \/ Decision!Decide(p) \/ Decision!Finish(p)
               \/ decision'[p] = decision[p] /\ Fate(p)' = Fate(p)
    <2>1. CASE DecidesFor(p)
      BY <2>1 DEF DecidesFor, Decision!Decide, Decision!Nobody, NoOne
    <2>2. CASE FinishesFor(p)
      BY <2>2 DEF FinishesFor, Decision!Finish
    <2> QED BY <1>1, <2>1, <2>2 DEF RequestSim
  <1>4. ASSUME NEW c \in Calls
        PROVE  Decision!Tell(c) \/ call'[c].answer = call[c].answer
    <2>1. CASE TellsTo(c)
      <3>1. call'[c].answer \in Answers \ {"none"}
        BY <2>1 DEF TellsTo, GateInv, TypeOK, Resolutions
      <3>2. TrueFor(c, call[c].answer)'
        BY DEF GateInv, Told
      <3> QED BY <2>1, <3>1, <3>2
            DEF TellsTo, TrueFor, Answers, Acks, Decision!Tell, Decision!Nobody, NoOne
    <2> QED BY <1>1, <2>1 DEF AnswerSim
  <1> QED BY <1>2, <1>3, <1>4 DEF Decision!Next

\* The gate implements the one-shot decision: one entitled answer, a timer or
\* a cancellation decides a request that is open, nothing decides it again or
\* after it ended, it ends as it was decided, and every user is told once.
THEOREM GateImplementsDecision == Spec => ImplementsDecision
  <1>1. Init => Decision!Init
    BY DEF Init, Decision!Init, Decision!Nobody, NoOne, Fate
  <1>2. GateInv /\ LiveInv /\ (GateInv /\ LiveInv)' /\ [Next]_vars
            => [Decision!Next]_(Decision!decisionVars)
    <2> SUFFICES ASSUME GateInv, LiveInv, GateInv', [Next]_vars
                 PROVE  [Decision!Next]_(Decision!decisionVars)
      OBVIOUS
    <2>1. CASE UNCHANGED vars
      BY <2>1 DEF vars, Decision!decisionVars, Fate
    <2> QED BY <2>1, AbstractStep
  <1> QED BY <1>1, <1>2, LiveInvariant, PTL DEF Spec, ImplementsDecision, Decision!Spec
=============================================================================
