-------------------------- MODULE ApprovalDecision --------------------------
(***************************************************************************)
(* What asking a human about a tool call promises, without replicas,       *)
(* messages, locks or timers: while the call is open one decider decides   *)
(* it, once; the call runs or is refused as decided; and each user who     *)
(* answers is told once whether it was the answer that decided.            *)
(* ApprovalGate implements this specification.                             *)
(***************************************************************************)
CONSTANTS
    Requests,
    Gated,      \* the requests that may not run undecided
    Calls,      \* the answers of users
    Target,     \* the request of each answer
    Approving,  \* the answers that approve
    Entitled    \* the answers of somebody who may give it

VARIABLES
    verdict,  \* per request: who decided it
    fate,     \* per request: what became of it
    told      \* per answer: what its user was told

decisionVars == <<verdict, fate, told>>

Nobody == "none"

Init ==
    /\ verdict = [p \in Requests |-> Nobody]
    /\ fate = [p \in Requests |-> "open"]
    /\ told = [c \in Calls |-> "none"]

\* An answer meant for the request from somebody who may give it, the timer or
\* the end of the chat decides.
Decide(p) ==
    /\ verdict[p] = Nobody
    /\ fate[p] = "open"
    /\ \/ verdict'[p] \in {"timer", "cancel"}
       \/ verdict'[p] \in Entitled /\ Target[verdict'[p]] = p
    /\ fate'[p] = "open"

\* Nobody decides any more.
Finish(p) ==
    /\ fate[p] = "open"
    /\ \/ fate'[p] = "ran" /\ (p \in Gated => verdict[p] \in Approving)
       \/ fate'[p] = "refused" /\ verdict[p] \notin Approving
       \/ fate'[p] = "dead"
    /\ verdict'[p] = verdict[p]

\* The answer decided; another one did, or a timer; it was not for this user to
\* give; or nobody can say.
Tell(c) ==
    /\ told[c] = "none"
    /\ \/ told'[c] = "ok" /\ verdict'[Target[c]] = c
       \/ told'[c] = "already_resolved" /\ verdict'[Target[c]] \notin {Nobody, c}
       \/ told'[c] = "mismatch" /\ c \notin Entitled
       \/ told'[c] \in {"not_found", "error"}

\* Several requests and answers may take their step at once.
Next ==
    /\ verdict' = [p \in Requests |-> verdict'[p]]
    /\ fate' = [p \in Requests |-> fate'[p]]
    /\ told' = [c \in Calls |-> told'[c]]
    /\ \A p \in Requests :
          Decide(p) \/ Finish(p) \/ (verdict'[p] = verdict[p] /\ fate'[p] = fate[p])
    /\ \A c \in Calls : Tell(c) \/ told'[c] = told[c]

Spec == Init /\ [][Next]_decisionVars
=============================================================================
