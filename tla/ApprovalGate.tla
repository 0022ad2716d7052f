---------------------------- MODULE ApprovalGate ----------------------------
(***************************************************************************)
(* Human approval of dangerous tool calls (internal/agent/approval/gate.go *)
(* and its caller, internal/agent/tools/mcp_tool.go).  A tool call blocks  *)
(* on a waiter in the memory of its replica until an answer, a timer or    *)
(* the cancellation of the chat resolves it.  Answers are API calls that   *)
(* reach any replica; one that does not hold the waiter publishes the      *)
(* answer over Redis and waits a few seconds for an acknowledgement.       *)
(*                                                                         *)
(* A waiter's channel and sync.Once are the decision: it is taken once,    *)
(* and only the tool call reads it.                                        *)
(***************************************************************************)
EXTENDS Naturals, FiniteSets

CONSTANTS
    Replicas,
    Requests,      \* tool calls
    Home,          \* the replica that runs each tool call
    Dangerous,     \* the tool calls whose tool requires approval
    FailClose,     \* gate.failClose: an unreadable policy requires approval
    Calls,         \* Resolve calls of users
    Target,        \* the request each of them answers
    Approving,     \* those that approve (the others reject)
    Entitled,      \* those made by the session's owner in its workspace
    WithRedis      \* is there a Redis client?

ASSUME GateAssumption ==
    /\ Home \in [Requests -> Replicas]
    /\ Dangerous \subseteq Requests
    /\ FailClose \in BOOLEAN
    /\ Target \in [Calls -> Requests]
    /\ Approving \subseteq Calls
    /\ Entitled \subseteq Calls
    /\ WithRedis \in BOOLEAN
    /\ Calls \cap {"none", "timer", "cancel"} = {}

VARIABLES
    req,       \* per tool call: its stage and the decision it returned with
    decision,  \* per waiter: who resolved it
    call,      \* per Resolve call: its stage, its replica and its answer
    inbox,     \* per replica: published answers its subscriber has not read
    sub,       \* per replica: the calls whose waiter its subscriber holds
    ack        \* per Resolve call: the acknowledgement on its reply channel

vars == <<req, decision, call, inbox, sub, ack>>

Deciders == Calls \cup {"timer", "cancel"}
NoOne == "none"

ReqStages == {"start", "registered", "waiting", "expiring", "canceling",
              "leaving", "returned", "ran", "refused", "dead"}
CallStages == {"idle", "lookup", "holding", "publishing", "awaiting", "done"}
Acks == {"none", "ok", "already_resolved", "mismatch"}
Answers == Acks \cup {"not_found", "error"}

Waits == [stage : ReqStages, outcome : Deciders \cup {NoOne}]
Resolutions == [stage : CallStages, at : Replicas, answer : Answers]

TypeOK ==
    /\ req \in [Requests -> Waits]
    /\ decision \in [Requests -> Deciders \cup {NoOne}]
    /\ call \in [Calls -> Resolutions]
    /\ inbox \in [Replicas -> SUBSET Calls]
    /\ sub \in [Replicas -> SUBSET Calls]
    /\ ack \in [Calls -> Acks]

Init ==
    /\ req = [p \in Requests |-> [stage |-> "start", outcome |-> NoOne]]
    /\ decision = [p \in Requests |-> NoOne]
    /\ call \in [Calls -> [stage : {"idle"}, at : Replicas, answer : {"none"}]]
    /\ inbox = [r \in Replicas |-> {}]
    /\ sub = [r \in Replicas |-> {}]
    /\ ack = [c \in Calls |-> "none"]

\* Variant: the map keeps the waiter of a request that could not be shown.
PendingLeaked(p) ==
    req[p].stage \in {"registered", "waiting", "expiring", "canceling", "leaving", "refused"}
\* The gate's map has an entry from registration to the deferred delete.
Pending(p) == req[p].stage \in {"registered", "waiting", "expiring", "canceling", "leaving"}

-----------------------------------------------------------------------------
(* The tool call: NeedsApproval, RequestAndWait and what follows.          *)

ReqOnly == UNCHANGED <<call, inbox, sub, ack>>

Move(p, from, to) ==
    /\ req[p].stage = from
    /\ req' = [req EXCEPT ![p].stage = to]

\* Variant: an unreadable policy lets the tool run.
CheckedOpen(p) == {(p \in Dangerous), FALSE}
\* NeedsApproval: the policy says so, or cannot be read.
Checked(p) == {(p \in Dangerous), FailClose}

NeedsApproval(p) ==
    /\ \E required \in Checked(p) : Move(p, "start", IF required THEN "registered" ELSE "ran")
    /\ UNCHANGED decision /\ ReqOnly

\* The event that shows the request to the user; no user knows the request
\* when it fails.
Emit(p) ==
    /\ Move(p, "registered", "waiting") \/ Move(p, "registered", "refused")
    /\ UNCHANGED decision /\ ReqOnly

\* The select of RequestAndWait: whichever branch is ready may be taken.
Receive(p) ==
    /\ req[p].stage = "waiting"
    /\ decision[p] # NoOne
    /\ req' = [req EXCEPT ![p] = [stage |-> "leaving", outcome |-> decision[p]]]
    /\ UNCHANGED decision /\ ReqOnly

TimerFires(p) == Move(p, "waiting", "expiring") /\ UNCHANGED decision /\ ReqOnly
ChatEnds(p)   == Move(p, "waiting", "canceling") /\ UNCHANGED decision /\ ReqOnly

\* Variant: the branch returns its own decision, whoever won the waiter.
GiveUpRegardless(p) ==
    \E by \in {"timer", "cancel"} :
        /\ req[p].stage = IF by = "timer" THEN "expiring" ELSE "canceling"
        /\ decision' = [decision EXCEPT ![p] = IF @ = NoOne THEN by ELSE @]
        /\ req' = [req EXCEPT ![p] = [stage |-> "leaving", outcome |-> by]]
        /\ ReqOnly

\* Variant: the branch only reads the channel.
GiveUpAndHope(p) ==
    /\ req[p].stage \in {"expiring", "canceling"}
    /\ decision[p] # NoOne
    /\ req' = [req EXCEPT ![p] = [stage |-> "leaving", outcome |-> decision[p]]]
    /\ UNCHANGED decision /\ ReqOnly

\* deliver, then read the channel: an answer that came first stands.
GiveUp(p) ==
    \E by \in {"timer", "cancel"} :
        /\ req[p].stage = IF by = "timer" THEN "expiring" ELSE "canceling"
        /\ decision' = [decision EXCEPT ![p] = IF @ = NoOne THEN by ELSE @]
        /\ req' = [req EXCEPT ![p] = [stage |-> "leaving", outcome |-> decision'[p]]]
        /\ ReqOnly

\* The deferred delete.
Leave(p) == Move(p, "leaving", "returned") /\ UNCHANGED decision /\ ReqOnly

Approved(p) == req[p].outcome \in Approving

Execute(p) ==
    /\ Move(p, "returned", IF Approved(p) THEN "ran" ELSE "refused")
    /\ UNCHANGED decision /\ ReqOnly

ToolCall(p) ==
    \/ NeedsApproval(p) \/ Emit(p) \/ Receive(p) \/ TimerFires(p) \/ ChatEnds(p)
    \/ GiveUp(p) \/ Leave(p) \/ Execute(p)

-----------------------------------------------------------------------------
(* Resolve: deliverLocal, then the other replicas.                         *)

Answered(c, answer) == [call[c] EXCEPT !.stage = "done", !.answer = answer]

\* A user answers a request that was shown, at any replica.
ResolveStart(c) ==
    /\ call[c].stage = "idle"
    /\ req[Target[c]].stage \notin {"start", "registered"}
    /\ call' = [call EXCEPT ![c].stage = "lookup"]
    /\ UNCHANGED <<req, decision, inbox, sub, ack>>

\* Variant: nobody asks who answers.
MayDeliverAnyone(c) == TRUE
MayDeliver(c) == c \in Entitled

IsHere(c, r) == Home[Target[c]] = r /\ Pending(Target[c])

\* The locked half of deliverLocal: find the waiter and check who answers.
ResolveLookup(c) ==
    /\ call[c].stage = "lookup"
    /\ call' = [call EXCEPT ![c] =
          IF IsHere(c, @.at)
          THEN IF MayDeliver(c) THEN [@ EXCEPT !.stage = "holding"]
                                ELSE Answered(c, "mismatch")
          ELSE IF WithRedis THEN [@ EXCEPT !.stage = "publishing"]
                            ELSE Answered(c, "not_found")]
    /\ UNCHANGED <<req, decision, inbox, sub, ack>>

\* The unlocked half: resolved, once and the channel.
Deliver(c) ==
    decision' = [decision EXCEPT ![Target[c]] = IF @ = NoOne THEN c ELSE @]
Delivered(c) == IF decision'[Target[c]] = c THEN "ok" ELSE "already_resolved"

ResolveDeliver(c) ==
    /\ call[c].stage = "holding"
    /\ Deliver(c)
    /\ call' = [call EXCEPT ![c] = Answered(c, Delivered(c))]
    /\ UNCHANGED <<req, inbox, sub, ack>>

\* Publish reaches the replicas that listen at that moment, which skip their own
\* messages.
Published(c) ==
    \E listening \in SUBSET (Replicas \ {call[c].at}) :
        inbox' = [r \in Replicas |-> inbox[r] \cup {x \in {c} : r \in listening}]

\* Subscribe to the reply channel, then publish.
ResolvePublish(c) ==
    /\ call[c].stage = "publishing"
    /\ Published(c)
    /\ call' = [call EXCEPT ![c].stage = "awaiting"]
    /\ UNCHANGED <<req, decision, sub, ack>>

\* Redis does not confirm the subscription or the publication, which may have
\* reached it.
ResolveFails(c) ==
    /\ call[c].stage = "publishing"
    /\ Published(c)
    /\ call' = [call EXCEPT ![c] = Answered(c, "error")]
    /\ UNCHANGED <<req, decision, sub, ack>>

ResolveAcknowledged(c) ==
    /\ call[c].stage = "awaiting"
    /\ ack[c] # "none"
    /\ call' = [call EXCEPT ![c] = Answered(c, ack[c])]
    /\ UNCHANGED <<req, decision, inbox, sub, ack>>

\* Nobody confirmed within the window: "treat as not found".
ResolveTimesOut(c) ==
    /\ call[c].stage = "awaiting"
    /\ call' = [call EXCEPT ![c] = Answered(c, "not_found")]
    /\ UNCHANGED <<req, decision, inbox, sub, ack>>

Resolve(c) ==
    \/ ResolveLookup(c) \/ ResolveDeliver(c) \/ ResolvePublish(c) \/ ResolveFails(c)
    \/ ResolveAcknowledged(c) \/ ResolveTimesOut(c)

-----------------------------------------------------------------------------
(* runSubscriber of replica r.                                             *)

\* A lost acknowledgement leaves the caller waiting.
Reply(c, status) == ack' = [ack EXCEPT ![c] = status] \/ UNCHANGED ack

\* A stranger is told; replicas without the waiter stay silent.
Refusal(c, r) ==
    IF IsHere(c, r) /\ ~MayDeliver(c) THEN Reply(c, "mismatch") ELSE UNCHANGED ack

\* The locked half of deliverLocal, for the next message.
SubscriberReads(r) ==
    /\ sub[r] = {}
    /\ \E c \in inbox[r] :
          /\ inbox' = [inbox EXCEPT ![r] = @ \ {c}]
          /\ sub' = [sub EXCEPT ![r] = IF IsHere(c, r) /\ MayDeliver(c) THEN {c} ELSE {}]
          /\ Refusal(c, r)
    /\ UNCHANGED <<req, decision, call>>

SubscriberDelivers(r) ==
    \E c \in sub[r] :
        /\ Deliver(c)
        /\ Reply(c, Delivered(c))
        /\ sub' = [sub EXCEPT ![r] = {}]
        /\ UNCHANGED <<req, call, inbox>>

Subscriber(r) == SubscriberReads(r) \/ SubscriberDelivers(r)

\* The replica dies with its waiters, its subscriber and its API calls.
Crash(r) ==
    /\ req' = [p \in Requests |->
          IF Home[p] = r /\ req[p].stage \notin {"ran", "refused"}
          THEN [req[p] EXCEPT !.stage = "dead"] ELSE req[p]]
    /\ call' = [c \in Calls |->
          IF call[c].at = r /\ call[c].stage \notin {"idle", "done"}
          THEN Answered(c, "error") ELSE call[c]]
    /\ inbox' = [inbox EXCEPT ![r] = {}]
    /\ sub' = [sub EXCEPT ![r] = {}]
    /\ UNCHANGED <<decision, ack>>

Next ==
    \/ \E p \in Requests : ToolCall(p)
    \/ \E c \in Calls : ResolveStart(c) \/ Resolve(c)
    \/ \E r \in Replicas : Subscriber(r) \/ Crash(r)

Spec == Init /\ [][Next]_vars

\* Goroutines run, and the timers of the wait and of the acknowledgement fire.
\* No user has to answer.
Fairness ==
    /\ \A p \in Requests : WF_vars(ToolCall(p))
    /\ \A c \in Calls : WF_vars(Resolve(c))
FairSpec == Spec /\ Fairness

-----------------------------------------------------------------------------
(* Properties.                                                             *)

\* A tool that requires approval runs only on the approval of somebody who
\* may give it, whatever timers, other answers and replicas do, and also when
\* the policy cannot be read.
RunsAreApproved ==
    \A p \in Dangerous :
        FailClose /\ req[p].stage = "ran" =>
            \E c \in Approving \cap Entitled : Target[c] = p /\ req[p].outcome = c

\* A user who is told that the answer was taken is the one the tool call
\* obeys, and one who is told that it came too late is not: of several
\* answers, timers and cancellations exactly one decides.
AnswersAreTrue ==
    \A c \in Calls :
        /\ call[c].answer = "ok" => req[Target[c]].outcome \in {NoOne, c}
        /\ call[c].answer \in {"already_resolved", "mismatch"} => req[Target[c]].outcome # c

\* Nobody hangs: a tool call runs or is refused whether or not its user answers,
\* and every user who answers is answered.
WaitsEnd ==
    /\ \A p \in Requests :
           req[p].stage = "registered" ~> req[p].stage \in {"ran", "refused", "dead"}
    /\ \A c \in Calls : call[c].stage = "lookup" ~> call[c].stage = "done"

\* The gate implements the one-shot decision: a request is decided by one
\* entitled answer, a timer or a cancellation, and never again; it ends as it
\* was decided, nothing decides it afterwards, and every user is told once.
Fate(p) == IF req[p].stage \in {"ran", "refused", "dead"} THEN req[p].stage ELSE "open"
Decision == INSTANCE ApprovalDecision WITH
    Gated <- IF FailClose THEN Dangerous ELSE {},
    verdict <- decision,
    fate <- [p \in Requests |-> Fate(p)],
    told <- [c \in Calls |-> call[c].answer]
ImplementsDecision == Decision!Spec
=============================================================================
